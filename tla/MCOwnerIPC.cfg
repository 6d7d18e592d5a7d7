SPECIFICATION FairSpec
CONSTANTS
  c1 = c1
  c2 = c2
  Cmds = {c1, c2}
  Waiting = {c1}
  MaxEvents = 1
  MaxFailures = 1
INVARIANTS
  TypeOK
  SubmittedOnce
  StreamHasNoGap
  PollIsWhole
PROPERTIES
  ImplementsLife
  EndedIsNoticed
CHECK_DEADLOCK FALSE
