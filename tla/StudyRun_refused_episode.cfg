SPECIFICATION Spec
CONSTANTS
  MaxEvaluations = 4
  BatchSize = 2
  CountCost = TRUE
  StopAtCheckpoint = TRUE
  Kernel = "episodes"
  MaxStepCost = 3
INVARIANTS UnresolvedBatchFails
CHECK_DEADLOCK FALSE
