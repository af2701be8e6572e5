SPECIFICATION Spec
CONSTANTS
  t1 = t1
  t2 = t2
  t3 = t3
  t4 = t4
  t5 = t5
  None = None
  Transactions = {t1, t2, t3, t4, t5}
  Accounts = {0, 1}
  Program <- FiveTransfers
  StartTick <- AllAtOnce
  InitialBalance <- Money
  IntMax = 127
  PoolSize = 5
INVARIANT NoCircularWait
CHECK_DEADLOCK FALSE
