SPECIFICATION Spec
CONSTANTS
  Score <- MCScore
  Unit = 60
  Positions = {1, 2, 3}
  Samples = {1, 3}
  MaxPending = 2
  MaxBatch = 2
  Profiles <- MCProfiles
  Items = {1, 2, 3, 4}
  Metric <- LineMetric
  Cutoffs = {2, 3}
  MaxEntries = 3
  MaxRevision = 2
  Methods <- MCMethods
  Value <- MCValue
  Slices = {1, 3}
  Leaves <- MCLeaves
  Kernels <- MCKernels
  Batches <- MCBatches
  Spare = {1}
  Levels = {1, 2, 3}
  MaxFailures = 1
  Points = {1, 2, 3}
  Origin = 1
  Scores = {1, 2}
  Limits <- MCLimits
  Grants <- MCGrants
  CsaProfiles = {"staged", "adaptive", "growing", "cluster", "hot"}
  Parts = {"csa", "workspace", "generations", "search", "scipy", "adaptation"}
INVARIANTS AskAlwaysPossible NothingToldIsLost MarksFollowEntries AnswersAsFresh GenerationInOrder ResumesExactly EvaluationsSuffice EpisodesReported AdaptationJustified
PROPERTIES BestKept SurvivorsKept
CHECK_DEADLOCK FALSE
