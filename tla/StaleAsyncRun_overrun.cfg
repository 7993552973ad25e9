SPECIFICATION Spec
CONSTANTS
  MaxEvaluations = 3
  BatchSize = 2
  CountCost = FALSE
  StopAtCheckpoint = FALSE
  MaxAttemptCost = 1
INVARIANTS SlotBudget
CHECK_DEADLOCK FALSE
