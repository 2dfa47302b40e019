SPECIFICATION FairSpec
CONSTANTS
  Paths = {p1, p2}
  MaxConcurrent = 1
  RetentionHours = 1
  Behind = 1
  MaxBatch = 1
  MaxCommit = 3
  MaxHour = 1
  Faults = {"stat", "read", "upload", "delete"}
CHECK_DEADLOCK FALSE
INVARIANTS
  TypeOK
  NewestNotOlder
PROPERTIES
  EventuallyBackedUp
  EventuallyQuiet
  EventuallyClean
