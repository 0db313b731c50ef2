SPECIFICATION Spec
CONSTANTS
  Work = {w1, w2, w3}
  Shutdown = Shutdown
  Helpers <- OneHelper
  CanFail = TRUE
INVARIANTS
  QueueConsistent
PROPERTIES
  KeepsPromise
  NobodyWaitsForEver
CHECK_DEADLOCK FALSE
