SPECIFICATION PagesSpec
CONSTANTS
  Modes = {"clean", "injection"}
  MaxRuns = 2
  MaxResets = 1
  None = None
  Malformed = Malformed
  Bundle = Bundle
  Altered = Altered
  Garbage = Garbage
  Text = {Bundle, Altered, Garbage}
  Readable = {Bundle, Altered}
  Consistent = {Bundle}
  MaxInputs = 3
INVARIANTS
  TamperStopsOneRun
  NumbersExact
  BusyEnds
  VerdictIsCurrent
CHECK_DEADLOCK FALSE
