SPECIFICATION FairSpec
CONSTANTS
  p1 = p1
  p2 = p2
  p3 = p3
  c1 = c1
  c2 = c2
  None = None
  Proc = {p1, p2}
  Content = {c1}
  Time = {1}
  SkipRoot = {}
  Op = {"cas", "snapshot", "verify"}
  ForeignHeads <- NoForeign
  KeychainFaults = TRUE
  Crashes = FALSE
  MaxRows = 3
PROPERTIES
  NoFalseAlarm
  WindowCloses
  CallsAnswered
