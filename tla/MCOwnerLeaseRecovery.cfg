SPECIFICATION FairSpec
CONSTANTS
  Proc = {p1}
  Cli = {c1, c2}
  StaleTicks = 3
  Nobody = Nobody
  ReGen = ReGen
CHECK_DEADLOCK FALSE
PROPERTIES DeadLeaseIsCleared
