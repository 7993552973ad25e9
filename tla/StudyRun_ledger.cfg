SPECIFICATION StudySpec
CONSTANTS
  MaxEvaluations = 4
  BatchSize = 2
  CountCost = TRUE
  StopAtCheckpoint = TRUE
  Kernel = "episodes"
  MaxStepCost = 3
  Requests = 3
  MaxPreferred = 3
  MaxAvailable = 7
  Parts = {"run", "episodes"}
INVARIANTS ReportCoversSpending CheckpointAligned RollbackIsLatest FailuresCarryReports LedgerBalanced HardBudget AsIfOneByOne NobodyStarves EpisodesBounded NoNeedlessForfeit
PROPERTIES Termination ChargesAsPromised
CHECK_DEADLOCK FALSE
