SPECIFICATION FairSpec
CONSTANTS
  Pids = {p1, p2, p3, p4}
  MaxJobs = 3
  MallocFails = TRUE
  None = None
INVARIANTS
  TypeOK
  JobsUnreaped
PROPERTIES
  JobsKept
  ReapedByPass
  Responsive
\* The shell ends at "exit".
CHECK_DEADLOCK FALSE
