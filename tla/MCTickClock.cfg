SPECIFICATION FairSpec
CONSTANTS
  t1 = t1
  t2 = t2
  Threads = {t1, t2}
  start_tick <- Starts
  num_ops <- Ops
  MaxTick = 4
INVARIANTS
  NoMissedWakeup
  MetricsAddUp
PROPERTY EveryWaitEnds
CHECK_DEADLOCK FALSE
