SPECIFICATION FairSpec
CONSTANTS
  MaxEvaluations = 5
  BatchSize = 3
  CountCost = TRUE
  StopAtCheckpoint = TRUE
  MaxAttemptCost = 2
INVARIANTS SubmissionsAccounted CheckpointAligned CompletedRunsReport
PROPERTIES Termination
CHECK_DEADLOCK FALSE
