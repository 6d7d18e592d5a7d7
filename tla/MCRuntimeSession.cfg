CONSTANTS
  Ids = {1, 2, 3}
  Cmds = {c1, c2, c3}
  c1 = c1
  c2 = c2
  c3 = c3
  Does <- Three
  AgentModes = {"plan"}
  MaxCrashes = 1
  None = None
SYMMETRY Alike
SPECIFICATION Spec
INVARIANT TypeOK
INVARIANT ClosedForAReason
INVARIANT ToldIsKept
INVARIANT OneOpenSession
INVARIANT ActiveIsRunning
PROPERTY ImplementsSession
CHECK_DEADLOCK FALSE
