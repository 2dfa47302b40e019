SPECIFICATION Spec
CONSTANTS
  Backends = {"abs"}
  Writers = {w1, w2}
  MaxFile = 3
  MaxAgain = 1
  MaxFail = 1
  MaxKeys = 2
SYMMETRY Symmetry
CHECK_DEADLOCK FALSE
PROPERTIES
  RetentionBelow
