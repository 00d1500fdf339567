SPECIFICATION MCSpec
CONSTANTS
  Labels = {1, 2, 3}
  NumberLimit = 3
  IdentifierLimit = 3
  MaxSize = 5
  MaxEdges = 4
  Releases <- MCReleases
  Requirements <- MCRequirements
INVARIANTS
  ResolutionIsSound
  CycleIsReported
PROPERTIES
  CycleVerdict
  OrderIsTopological
  RefusalIsJustified
  WalkReturns
CHECK_DEADLOCK FALSE
