SPECIFICATION LifeSpec
CONSTANTS
  k1 = k1
  t1 = t1
  u1 = u1
  Clients = {k1, t1}
  Registered = {t1}
  Users = {u1}
  MaxProcs = 1
INVARIANT CloseAllClosesAll
CHECK_DEADLOCK FALSE
