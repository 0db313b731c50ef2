SPECIFICATION Spec
CONSTANTS
  MaxTabs = 3
  MaxQueue = 1
  ClosedCap = 2
  Indices <- FromFront
  Asks <- EveryAsk
  OpensInside = TRUE
INVARIANTS
  TabsConsistent
  ListIsFollowed
PROPERTIES
  OrderKept
  
CHECK_DEADLOCK FALSE
