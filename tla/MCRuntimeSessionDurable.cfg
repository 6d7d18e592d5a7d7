CONSTANTS
  Ids = {1, 2}
  Cmds = {c1, c2, c3}
  c1 = c1
  c2 = c2
  c3 = c3
  Does <- Three
  AgentModes = {"plan"}
  MaxCrashes = 0
  None = None
SYMMETRY Alike
SPECIFICATION Spec
INVARIANT DurableStaysOpen
CHECK_DEADLOCK FALSE
