CONSTANTS
  SeqSpace = 32
  FlushWindow = 3
  Plan <- MCPlan
  Responses <- MCResponses
  BasePort = 7
  PortMod = 8
  BaseISS = 30
  ISSStride = 4
  ServerISSs = {5, 29}
  MaxSegment = 5
SPECIFICATION FairSpec
INVARIANTS
  BytesInOrder
  VerdictIsRight
  VerifiedIsStored
PROPERTIES
  Completes
CHECK_DEADLOCK FALSE
