SPECIFICATION FairSpec
CONSTANTS
  Symbols = {a, b}
  MaxQty = 2
  MaxPositions = 1
  MaxOrders = 2
  MaxCrashes = 1
  DiskMayFail = TRUE
  StaleAcks = FALSE
INVARIANTS LiveOrderBlocks BlockIsDurable PositionLimit
PROPERTIES ImplementsOrderBook EffectsFollowFills FilledOrderUnblocks
