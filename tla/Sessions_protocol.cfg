SPECIFICATION SessionsSpec
CONSTANTS
  Requests = {r1, r2}
  Owner = owner
  Interrupter = interrupter
  MaxSessions = 3
  MaxTells = 2
  s1 = s1
  s2 = s2
  s3 = s3
  p1 = p1
  p2 = p2
  Sessions = {s1, s2, s3}
  Bound <- MCBound
  Backend <- MCBackend
  Processes = {w1}
  NoToken = NoToken
  TaskIds = {k1, k2}
  Class <- MCClass
  Batches <- MCBatches
  Extras = {0, 1}
  MaxEvaluations = 6
  BatchSize = 3
  CountCost = FALSE
  StopAtCheckpoint = TRUE
  Parts = {"step", "worker", "artifacts", "direct"}
INVARIANTS StepAccounted ToldOnce SessionsIsolated ProvenanceKept AcceptedIsReported
PROPERTIES StepCallsReturn ImplementsStudyRun
CHECK_DEADLOCK FALSE
