SPECIFICATION Spec
CONSTANTS
  Bytes = {0, 2, 4}
  Ids = {a, b}
  Keys = {working, blocked}
  MaxBytes = 5
  MaxChunk = 2
  MaxReports = 3
  MaxTime = 2
SYMMETRY StatusSymmetry
INVARIANTS TypeOK TextExact RecordingTime MarkersTell
CHECK_DEADLOCK FALSE
