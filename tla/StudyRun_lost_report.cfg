SPECIFICATION Spec
CONSTANTS
  MaxEvaluations = 4
  BatchSize = 2
  CountCost = FALSE
  StopAtCheckpoint = TRUE
  Kernel = "direct"
  MaxStepCost = 3
INVARIANTS FailuresCarryReports
CHECK_DEADLOCK FALSE
