SPECIFICATION Spec
CONSTANTS
  u1 = u1
  u2 = u2
  t1 = t1
  NoURL = NoURL
  URLs <- TwoURLs
  Tabs <- OneTab
  Found <- SomeFiles
  Indices <- FrontAndBack
  MaxVisits = 2
  MaxEntries = 1
  MaxEvents = 2
  MaxTime = 2
  MaxRuns = 2
INVARIANTS
  LibraryConsistent
  FilesHoldTheModels
PROPERTIES
  FilesCatchUp
  ForgottenStaysForgotten
CHECK_DEADLOCK FALSE
