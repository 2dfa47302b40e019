SPECIFICATION RSpec
CONSTANTS
  MaxLevel = 1
  MaxTX = 3
  PrefixSeek = FALSE
  Faults = {"sync", "other", "compact", "snapshot", "delete"}
PROPERTIES
  RestoreNotBehind
  FailsOnlyIfMoved
