SPECIFICATION Spec
CONSTANTS
  Ids <- MCIds
  Clears <- MCClears
  Runs = {first, second}
  NoRun = none
  Concurrent = FALSE
  MaxTime = 3
  MaxEvents = 4
INVARIANTS TypeOK CountsByUrgency TimeReported
CHECK_DEADLOCK FALSE
SYMMETRY RunSymmetry
