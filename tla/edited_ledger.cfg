SPECIFICATION EditedSpec
CONSTANTS
  p1 = p1
  p2 = p2
  c1 = c1
  c2 = c2
  None = None
  Proc = {p1, p2}
  Content = {c1, c2}
  Time = {1}
  SkipRoot = {}
  Op = {"cas", "snapshot"}
  ForeignHeads <- NoForeign
  KeychainFaults = FALSE
  Crashes = TRUE
  MaxRows = 3
  MaxEdits = 1
SYMMETRY Processes
INVARIANTS
  AcceptedIsConfirmed
  VerifiersAgree
PROPERTY
  EditsNeverAttested
