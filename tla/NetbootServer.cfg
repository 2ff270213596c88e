CONSTANTS
  Hosts <- MCHosts
  PXE <- PXEHosts
  Requests <- MCRequests
  Port <- MCPort
  Blocks <- MCBlocks
  Serial = {"serial/a"}
  LongTail = {"b"}
  PoolBase = 3
  PoolSize = 2
  AddrMod = 4
SPECIFICATION Spec
INVARIANTS
  AddressesHold
  EachGetsItsFile
  NobodyElseMovesIt
CHECK_DEADLOCK FALSE
