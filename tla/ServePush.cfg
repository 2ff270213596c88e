\* An image, a bad image and a flat file pushed onto two free records, while a
\* served file is read.
CONSTANTS
  Pushers = {"image", "bad", "notes"}
  Readers = {"pi", "plain", "probe"}
  Casts <- MCCasts
  Class <- MCClass
  Reads <- MCReads
  WithOptions = {"pi", "probe"}
  Served = {"rom"}
  Size <- MCSize
  blksize <- Mcblksize
  SectorSize = 2
  RecordSize = 6
  FreeAtStart = {3, 5}
  Strategies = {"highest", "lowest", "explicit"}
  ExplicitRecord = 5
  NoClient = NoClient
SPECIFICATION Spec
INVARIANTS EndedIsWhole
PROPERTIES KeepsTheShelf
CHECK_DEADLOCK FALSE
