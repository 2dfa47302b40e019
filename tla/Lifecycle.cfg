SPECIFICATION FairSpec
CONSTANTS
  MaxTX = 2
  Faults = {"init", "sync", "upload", "replica"}
CHECK_DEADLOCK FALSE
INVARIANTS
  TypeOK
  UploadedWithoutGap
  CloseFlushes
  QuietAfterClose
PROPERTIES
  CloseReturns
  EventuallyUploaded
