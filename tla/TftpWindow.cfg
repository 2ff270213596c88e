\* A windowed fetch over a wire that loses, copies and reorders packets.
CONSTANTS
  FileLen = 4
  BlockMod = 8
  Win = 2
  Windowed = TRUE
  Lossy = TRUE
  Copied = {"RRQ", "OACK", "ACK", "DATA"}
  Strays = FALSE
  Timer = "early"
SPECIFICATION Spec
INVARIANTS EdgeConfirmed
PROPERTIES CopiesFile
CHECK_DEADLOCK FALSE
