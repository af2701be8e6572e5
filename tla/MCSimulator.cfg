SPECIFICATION FairSpec
CONSTANTS
  None = None
  NULL = NULL
  Inputs <- MixedInputs
  Commands <- MixedCommands
  Stack <- StackValues
  MaxProcesses = 4
  MaxLevels = 4
  BoostSlack = 60
  MaxGantt = 100
INVARIANTS
  Chronological
  NoProcessTwice
  OneCpuEvent
  MetricsMatchChart
  NonPreemptiveOrder
  RRBoundedWait
  AllotmentBounded
  LevelsMatch
  SwitchesCounted
  ShortestFirstIsBest
  WorkloadAsWritten
  ConfigAsWritten
PROPERTY EveryComparisonEnds
\* The program ends.
CHECK_DEADLOCK FALSE
