SPECIFICATION Spec
CONSTANTS
  k1 = k1
  t1 = t1
  u1 = u1
  u2 = u2
  Clients = {k1, t1}
  Registered = {t1}
  Users = {u1, u2}
  MaxProcs = 2
  Settings <- All
  MaxOptions = 4
SYMMETRY Symmetry
INVARIANTS
  TypeOK
  ActsByConsent
  AgentIsItsOwn
CHECK_DEADLOCK FALSE
