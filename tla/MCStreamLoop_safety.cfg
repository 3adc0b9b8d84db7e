SPECIFICATION Spec
CONSTANTS
  MaxBytes = 3
  MaxReports = 2
  MaxTime = 3
  MaxBufferSize = 2
  MergeWindow = 2
INVARIANTS
  TypeOK
  OutputExact
  ReportsInPlace
  Complete
  NoLostFlush
  HeartbeatQuiet
  SegmentFidelity
  EndCoversOutput
PROPERTIES
  ImplementsEventStream
