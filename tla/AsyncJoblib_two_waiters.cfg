SPECIFICATION Spec
CONSTANTS
  Waiters = {w1, w2}
  Modes = {"forever"}
  Controllers = {c1}
  Requests = {r1, r2}
  NoIndex = NoIndex
  Family = "attempts"
  RetryLimit = 1
  Workers = 1
  BackendFaults = {"duplicate"}
  MaxObjects = 2
SYMMETRY Symmetry
INVARIANTS CompletionsAccounted
PROPERTIES ImplementsContract
CHECK_DEADLOCK FALSE
