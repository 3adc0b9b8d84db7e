SPECIFICATION Spec
CONSTANTS
  MaxOutput = 1
  MaxProgress = 1
INVARIANTS EndMeansAllLogs
