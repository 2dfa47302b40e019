SPECIFICATION FairSpec
CONSTANTS
  Paths = {p1, p2}
  maxHotDBs = 1
  Faults = {"stat", "open", "replica", "stop"}
INVARIANTS TypeOK TiersDisjoint HotIsTracked HotLimit
PROPERTIES EventuallyCold
CHECK_DEADLOCK FALSE
