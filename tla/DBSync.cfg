SPECIFICATION Spec
CONSTANTS
  Pages = {1, 2}
  SeqPage = 1
  MaxVersion = 3
  Modes = {"PASSIVE", "TRUNCATE"}
  ChkErrors = TRUE
  Downtime = TRUE
  TailLoss = TRUE
INVARIANTS TypeOK ReplayCommitted SnapshotIsFull
PROPERTIES NothingNewWhenSkipped IncrementContinues
