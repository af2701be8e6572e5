SPECIFICATION FairTraceSpec
CONSTANTS
  MaxAccounts = 2
  MaxTransactions = 3
  IntMax = 7
  AccountLines <- SmallAccounts
  TraceLines <- SmallTrace
  TickOptions = {0, 10}
  MaxLines = 5
INVARIANTS
  AccountsAsWritten
  StartedAsWritten
PROPERTY EveryTraceRuns
\* The threads are started, or the program has given up.
CHECK_DEADLOCK FALSE
