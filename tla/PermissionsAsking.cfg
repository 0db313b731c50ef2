SPECIFICATION Spec
CONSTANTS
  Kinds <- LocationAndDevices
  Origins <- OneSite
  Pages <- TwoPages
  Files <- Fresh
  MaxRequests = 2
  MaxChanges = 1
INVARIANTS
  RequestsConsistent
  AllowedAsShown
PROPERTIES
  KeepsPromise
  RequestsSettle
CHECK_DEADLOCK FALSE
