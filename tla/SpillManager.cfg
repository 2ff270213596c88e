SPECIFICATION Spec
CONSTANTS
  MaxPages = 4
  NPages = 3
  SysPages = {0}
  Data = {d1, d2}
  NoData = NoData
  WorkTags = {3, 4}
  Backends = {TRUE, FALSE}
  MaxIds = 3
  MaxSeq = 5
SYMMETRY PayloadSymmetry
INVARIANTS
  DocPagesOwned
  BackendExact
PROPERTIES
  LazySpill
  DocSpec
