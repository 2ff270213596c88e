SPECIFICATION PoolSpec
CONSTANTS
  MaxPages = 7
  NPages = 6
  SysPages = {0, 3}
  Tags = {3, 4}
  FreeTags = {2, 3, 4}
  Regs = {0, 1, 2, 3, 6, 7, 8, 250, 253, 255}
  MaxRun = 3
INVARIANTS
  PortRunsAgree
PROPERTIES
  HandoutsAreFresh
