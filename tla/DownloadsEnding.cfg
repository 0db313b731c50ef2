SPECIFICATION Spec
CONSTANTS
  d1 = d1
  d2 = d2
  Downloads <- Two
  URLs <- TwoURLs
  HistoryLimit = 1
  MaxForced = 1
  MaxRuns = 2
INVARIANTS
  DownloadsConsistent
PROPERTIES
  EndedStaysEnded
  CancelSettles
  AsksAreKept
CHECK_DEADLOCK FALSE
