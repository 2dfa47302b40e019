SPECIFICATION Spec
CONSTANTS
  Pages = {1, 2}
  SeqPage = 1
  MaxVersion = 3
  Modes = {"PASSIVE"}
  ChkErrors = FALSE
  Downtime = FALSE
  TailLoss = FALSE
INVARIANTS OverwriteNoticed
