SPECIFICATION Spec
CONSTANTS
  t1 = t1
  t2 = t2
  t3 = t3
  None = None
  Threads = {t1, t2}
  Accounts = {0, 1}
  Calls <- WrapCalls
  InitialBalance <- TwoBalance
  IntMax = 3
  MaxCalls = 2
SYMMETRY ThreadSymmetry
INVARIANT
  ConservationModulo
CHECK_DEADLOCK FALSE
