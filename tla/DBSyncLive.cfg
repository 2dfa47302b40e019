SPECIFICATION FairSpec
CONSTANTS
  Pages = {1, 2}
  SeqPage = 1
  MaxVersion = 3
  Modes = {"RESTART"}
  ChkErrors = TRUE
  Downtime = TRUE
  TailLoss = FALSE
PROPERTIES EventuallySynced
