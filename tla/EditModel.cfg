\* Blocks of 8 bytes that merge below 3, lines of 2 to 5 bytes.
CONSTANTS
  Texts = {2, 5}
  Capacity = 8
  MergeBelow = 3
  MaxUndo = 2
  MaxId = 4
SPECIFICATION Spec
INVARIANTS LocExact JournalIsLive
PROPERTIES IsTextDocument
CHECK_DEADLOCK FALSE
