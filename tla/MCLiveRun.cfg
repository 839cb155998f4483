SPECIFICATION FairLiveSpec
CONSTANTS
  Ports <- TwoPorts
  Callers <- Closers
  MaxErrs = 2
  Plans <- NarrowOrWide
INVARIANTS
  LiveTypeOK
  DeadSocketNeverPasses
  StreamIntact
  LateBounded
PROPERTIES
  ShutdownCompletes
  FailureEndsRunUnlessBlocked
