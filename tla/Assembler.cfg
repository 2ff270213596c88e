SPECIFICATION Spec
CONSTANTS
  Inputs <- MCInputs
  PageSize = 16
  Files <- MCFiles
CHECK_DEADLOCK FALSE
INVARIANTS
  SourceIsRead
  NothingOverlapsTheImage
  LayoutAgrees
  LdrFindsItsWord
  RefsFollowSource
  HazardsSeparated
  NoVulnerableADRP
