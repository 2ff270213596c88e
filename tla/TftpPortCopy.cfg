\* The port on a wire that copies packets and loses none; no timer.
CONSTANTS
  FileLen = 4
  BlockMod = 5
  Win = 1
  Lossy = FALSE
  Copied = {"RRQ", "OACK", "ACK", "DATA"}
  Strays = FALSE
  Timer = "never"
SPECIFICATION Spec
INVARIANT StoresTheFile
CHECK_DEADLOCK FALSE
