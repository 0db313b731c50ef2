SPECIFICATION Spec
CONSTANTS
  s1 = s1
  s2 = s2
  NoSite = NoSite
  Sites <- TwoSites
  Found <- SomeFiles
  Visited <- BothVisited
  Clearings <- SomeClearings
  Writes <- SomeWrites
  Held <- HeldOpen
  MaxAsks = 2
  MaxEvents = 3
  CanFail = TRUE
INVARIANTS
  SiteDataConsistent
PROPERTIES
  RemovesWhatIsAsked
  UnsavedIsSpared
  SiteDataSettles
CHECK_DEADLOCK FALSE
