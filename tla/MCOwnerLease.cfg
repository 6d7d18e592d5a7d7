SPECIFICATION Spec
CONSTANTS
  Proc = {p1, p2}
  Cli = {c1}
  StaleTicks = 1
  Nobody = Nobody
  ReGen = ReGen
CHECK_DEADLOCK FALSE
SYMMETRY Symmetry
INVARIANTS
  TypeOK
  HolderIsNamed
  NoRobberyBeforeTrouble
  ExclusiveBeforeTrouble
  LeaseLeadsToOwner
  MixedLeaseMeansRobbed
  IdleOwnerIsFresh
