SPECIFICATION FairSpec
CONSTANTS
  MaxLevel = 2
  MaxTX = 3
  PrefixSeek = FALSE
  Faults = {"sync", "compact", "snapshot", "delete", "crash"}
INVARIANTS
  TypeOK
  HistoryCovered
  RestoreReachesLatest
  InputsConsecutive
  SkipsOnlyOutdated
PROPERTIES
  CalcPosMonotonic
  EventuallyCompacted
