CONSTANTS
  Procs = {p1, p2}
  Nobody = nobody
  Letters = 2
  Seeds <- MCSeeds
  MaxCommands = 2
  MaxItems = 4
  MaxQuestions = 1
  MaxCrashes = 1
  NewDeps = 1
  Extras <- MCExtras
SPECIFICATION Spec
INVARIANTS
  IdsAreMintedOnce
  FilesAreValid
  UmbrellasFollowChildren
  QueueFollowsItems
  RefusedForCause
  HeadWaitsForNoEntry
  GatesMirrorReady
PROPERTIES
  NoUpdateIsLost
  RankingIsKept
CHECK_DEADLOCK FALSE
