SPECIFICATION Spec
CONSTANTS
  t1 = t1
  t2 = t2
  u1 = u1
  u2 = u2
  blank = blank
  s1 = s1
  q1 = q1
  q2 = q2
  Tabs <- TwoTabs
  First = t1
  Host = Host
  NoWindow = NoWindow
  URLs <- SomeURLs
  SiteOf <- SomeSites
  Sites <- OneSite
  NoSite = NoSite
  StartURL = u1
  Texts <- TwoTexts
  NoText = NoText
  MatchesOf <- SomeMatches
  Ladder <- ThreeSteps
  Starts <- SomeStarts
INVARIANTS
  InputConsistent
  KeysGoWhereAsked
  CountIsExact
PROPERTIES
  ZoomSettles
  KeyboardSettles
CHECK_DEADLOCK FALSE
