SPECIFICATION FairSpec
CONSTANTS
  t1 = t1
  t2 = t2
  t3 = t3
  t4 = t4
  t5 = t5
  None = None
  Transactions = {t1, t2, t3}
  Accounts = {0, 1}
  Program <- MixedProgram
  StartTick <- MixedStart
  InitialBalance <- Money
  IntMax = 127
  PoolSize = 3
INVARIANTS
  AccountsLoaded
  CleanShutdown
  BlockedNotUnderstated
PROPERTY Termination
\* main() reports and the program ends; a program that stops before that
\* violates Termination.
CHECK_DEADLOCK FALSE
