SPECIFICATION Spec
CONSTANTS
  Ids <- MCIds
  Clears <- MCClears
  Runs = {first, second}
  NoRun = none
  Concurrent = TRUE
  MaxTime = 2
  MaxEvents = 4
INVARIANTS RunStateLocal
CHECK_DEADLOCK FALSE
