SPECIFICATION Spec
CONSTANTS
  MaxTabs = 3
  MaxQueue = 2
  MaxWork = 2
  MaxEvents = 3
  MaxRuns = 2
  CanFail = FALSE
INVARIANT ComesBackShowing
CHECK_DEADLOCK FALSE
