SPECIFICATION Spec
CONSTANTS
  MaxTabs = 3
  MaxQueue = 1
  MaxWork = 1
  MaxEvents = 3
  MaxRuns = 2
  CanFail = TRUE
INVARIANTS
  ProfileConsistent
  PrivateNeverWritten
  SessionSurvives
CHECK_DEADLOCK FALSE
