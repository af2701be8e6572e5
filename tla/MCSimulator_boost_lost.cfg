SPECIFICATION Spec
CONSTANTS
  None = None
  NULL = NULL
  Inputs <- PreemptingInputs
  Commands <- BoostCommands
  Stack <- StackValues
  MaxProcesses = 3
  MaxLevels = 4
  BoostSlack = 60
  MaxGantt = 100
INVARIANT AllComplete
CHECK_DEADLOCK FALSE
