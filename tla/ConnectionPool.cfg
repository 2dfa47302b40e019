SPECIFICATION Spec
CONSTANTS
  Keys = {p1, p2, p3, p4}
  Nil = Nil
  maxConnections = 3
INVARIANTS TypeOK ListConsistent LimitHolds
PROPERTIES RefinesLRUPool
