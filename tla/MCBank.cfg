SPECIFICATION FairSpec
CONSTANTS
  t1 = t1
  t2 = t2
  t3 = t3
  None = None
  Threads = {t1, t2, t3}
  Accounts = {0, 1, 2}
  Calls <- SmallCalls
  InitialBalance <- SmallBalance
  IntMax = 127
  MaxCalls = 1
INVARIANTS
  NoDataRace
  OrderedWaiting
  Conservation
  NoOverdraft
PROPERTIES
  Atomicity
  EveryCallReturns
\* The callers stop after MaxCalls calls.
CHECK_DEADLOCK FALSE
