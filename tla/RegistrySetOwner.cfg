CONSTANTS
  Procs = {p1, p2}
  Nobody = nobody
  Letters = 2
  Seeds <- ChainSeeds
  MaxCommands = 2
  MaxItems = 4
  MaxQuestions = 1
  MaxCrashes = 1
  NewDeps = 1
  Extras <- MCExtras
SPECIFICATION Spec
CHECK_DEADLOCK FALSE
PROPERTY NoUpdateIsEverLost
