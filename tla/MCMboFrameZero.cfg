SPECIFICATION MboSpec
CONSTANTS
  Ports <- FeedPorts
  ResetCounts <- Eras
  Bodies <- AnyBody
  W = 1
  MaxSeq = 8
  MaxEras = 20
  Plans <- LossPlans
  FlushOrder <- InTurn
  Instruments = {"i"}
  ConfirmCycles = 2
  OrderIds = {1}
  MaxRemoved = 1
  MaxHidden = 1
  MaxTrades = 1
  Hidings = {FALSE}
  MaxLots = 1
CHECK_DEADLOCK FALSE
INVARIANT LossIsNeverCharged
