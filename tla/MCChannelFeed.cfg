SPECIFICATION FairFeedSpec
CONSTANTS
  Ports <- OnePort
  ResetCounts <- Eras
  Bodies <- Eras
  W = 1
  Jitter = 1
  MaxSeq = 3
  MaxResets = 2
  MaxEras = 20
CHECK_DEADLOCK FALSE
INVARIANTS NoFalseResetGap NoFalseDivergence NoTaintWithoutLoss
PROPERTIES StragglersReopenNoEra PortsCatchUp
