SPECIFICATION Spec
CONSTANTS
  Ports = {"mktdata", "snapshot"}
  ResetCounts = {0, 1}
  Bodies = {"x"}
  W = 1
  MaxSeq = 2
  MaxEras = 3
INVARIANTS TypeOK HoldsBackBounded BufferOfOneEra OrdinalsNameEras CleanWindowHasNoHole
PROPERTIES ErasOnlyAdvance
