SPECIFICATION MboSpec
CONSTANTS
  Ports <- FeedPorts
  ResetCounts <- Eras
  Bodies <- AnyBody
  W = 1
  MaxSeq = 8
  MaxEras = 20
  Plans <- LawfulPlans
  FlushOrder <- InTurn
  Instruments = {"i", "j"}
  ConfirmCycles = 2
  OrderIds = {1, 2}
  MaxRemoved = 1
  MaxHidden = 1
  MaxTrades = 1
  Hidings = {FALSE}
  MaxLots = 1
CHECK_DEADLOCK FALSE
INVARIANTS MboTypeOK NoFalseFinding NoFalseSuspicion TrustedBookIsTrue
