\* The lock-step fetch over a wire that loses, copies and reorders packets.
CONSTANTS
  FileLen = 3
  BlockMod = 4
  Win = 1
  Windowed = FALSE
  Lossy = TRUE
  Copied = {"OACK", "ACK", "DATA"}
  Strays = TRUE
  Timer = "early"
SPECIFICATION FairSpec
INVARIANTS FinishedMeansDelivered OneBlockAhead
PROPERTIES CopiesFile Completes
CHECK_DEADLOCK FALSE
