SPECIFICATION FairSpec
CONSTANTS
  Ids <- MCIds
  Clears <- MCClears
  TooDeep = {"a/b"}
  MaxOutputs = 2
  MaxReports = 3
INVARIANTS TypeOK BlockedFails ViewsAgree 
PROPERTIES Terminates
