SPECIFICATION HangingSpec
CONSTANTS
  Waiters = {w1}
  Modes = {"timed", "forever"}
  Controllers = {c1}
  Requests = {r1, r2, r3}
  NoIndex = NoIndex
  Family = "attempts"
  RetryLimit = 1
  Workers = 1
  BackendFaults = {"pool", "user", "interrupt", "early_end"}
  MaxObjects = 1
PROPERTIES CallsReturn
CHECK_DEADLOCK FALSE
