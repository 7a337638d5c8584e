SPECIFICATION Spec
CONSTANTS
  p1 = p1
  p2 = p2
  p3 = p3
  c1 = c1
  c2 = c2
  None = None
  Proc = {p1, p2}
  Content = {c1}
  Time = {1}
  SkipRoot = {}
  Op = {"remember", "cas"}
  ForeignHeads <- NoForeign
  KeychainFaults = FALSE
  Crashes = FALSE
  MaxRows = 2
INVARIANT
  WindowClosed
