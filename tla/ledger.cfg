SPECIFICATION Spec
CONSTANTS
  p1 = p1
  p2 = p2
  p3 = p3
  c1 = c1
  c2 = c2
  None = None
  Proc = {p1, p2}
  Content = {c1, c2}
  Time = {1}
  SkipRoot = {p2}
  Op = {"remember", "cas", "snapshot", "verify"}
  ForeignHeads <- OtherHistory
  KeychainFaults = TRUE
  Crashes = TRUE
  MaxRows = 2
INVARIANTS
  TypeOK
  ChainIntact
  CasExclusive
  AnswersStand
  WitnessInChain
PROPERTIES
  RowsAnswered
  ImplementsAppendLog
