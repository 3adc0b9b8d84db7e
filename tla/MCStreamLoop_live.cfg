SPECIFICATION FairSpec
CONSTANTS
  MaxBytes = 3
  MaxReports = 1
  MaxTime = 1
  MaxBufferSize = 2
  MergeWindow = 1
PROPERTIES
  ReportsPrompt
  FullBufferFlushed
  OutputDelivered
  DoneReturns
  CancelReturns
