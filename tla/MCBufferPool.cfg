SPECIFICATION Spec
CONSTANTS
  t1 = t1
  t2 = t2
  t3 = t3
  None = None
  Threads = {t1, t2, t3}
  Accounts = {1, 2}
  PoolSize = 3
  MaxLoads = 4
SYMMETRY PoolSymmetry
INVARIANTS
  EveryPermitAccounted
  SlotsMatchClaims
  CountersMatchSlots
PROPERTY BoundedPinning
CHECK_DEADLOCK FALSE
