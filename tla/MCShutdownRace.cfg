SPECIFICATION RefSpec
CONSTANTS
  Ports <- TwoPaths
  ResetCounts <- Eras
  Bodies <- AnyBody
  W = 1
  MaxSeq = 8
  MaxEras = 20
  FlushOrder <- InOrderOf
  M = 8
  Ids = {1, 2}
  Plans <- Clean
CHECK_DEADLOCK FALSE
INVARIANT ShutdownIsNeverCharged
