SPECIFICATION EditedSpec
CONSTANTS
  p1 = p1
  p2 = p2
  c1 = c1
  c2 = c2
  None = None
  Proc = {p1}
  Content = {c1}
  Time = {1, 2}
  SkipRoot = {}
  Op = {"remember"}
  ForeignHeads <- NoForeign
  KeychainFaults = FALSE
  Crashes = FALSE
  MaxRows = 3
  MaxEdits = 0
INVARIANT
  ContiguousExportsVerify
