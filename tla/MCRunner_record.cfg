SPECIFICATION Spec
CONSTANTS
  Ids <- MCIds
  Clears <- MCClears
  TooDeep = {"a/b"}
  MaxOutputs = 1
  MaxReports = 1
INVARIANTS RunRecordPersists
