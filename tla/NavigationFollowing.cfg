SPECIFICATION Spec
CONSTANTS
  MaxTabs = 3
  MaxQueue = 2
  MaxEvents = 5
  MaxAsks = 2
  CanForget = TRUE
INVARIANTS
  NavigationConsistent
  GoesWhereShown
CHECK_DEADLOCK FALSE
