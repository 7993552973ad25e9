SPECIFICATION Spec
CONSTANTS
  Waiters = {w1}
  Modes = {"poll"}
  Controllers = {c1, c2}
  Requests = {r1, r2}
  NoIndex = NoIndex
  Family = "outcomes"
  RetryLimit = 1
  Workers = 1
  BackendFaults = {"pool", "user", "start"}
  MaxObjects = 2
SYMMETRY Symmetry
INVARIANTS OneHome RetryBudget WorkAccounted
CHECK_DEADLOCK FALSE
