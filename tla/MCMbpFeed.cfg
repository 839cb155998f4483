SPECIFICATION MbpSpec
CONSTANTS
  Ports <- FeedPorts
  ResetCounts <- Eras
  Bodies <- AnyBody
  W = 1
  MaxSeq = 6
  MaxEras = 20
  Plans <- ThreePlans
  FlushOrder <- InTurn
  Instruments = {"i", "j"}
  Sides = {"bid"}
  Prices = {1, 2}
  MaxQty = 1
  MaxJournal = 2
CHECK_DEADLOCK FALSE
INVARIANTS
  MbpTypeOK
  NoFalseMismatch
  NoFalseGroupFinding
  NoFalseDensity
  TrustedLadderIsTrue
