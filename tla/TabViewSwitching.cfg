SPECIFICATION Spec
CONSTANTS
  Tabs <- Two
  Bounds <- Rectangles
  Asks <- Everything
  OpensInside = TRUE
  MaxQueue = 1
  MaxResizes = 1
INVARIANTS
  ViewConsistent
PROPERTIES
  FirstShowingIsWhole
  StandInComesDown
CHECK_DEADLOCK FALSE
