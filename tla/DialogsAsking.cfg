SPECIFICATION Spec
CONSTANTS
  Kinds <- CertificateAndPicker
  Pages <- TwoPages
  MaxQuestions = 2
  MaxOverlays = 1
INVARIANTS
  DialogsConsistent
PROPERTIES
  KeepsPromise
  QuestionsSettle
  ScreenIsGivenBack
CHECK_DEADLOCK FALSE
