SPECIFICATION Spec
CONSTANTS
  Symbols = {a, b}
  MaxQty = 1
  MaxPositions = 2
  MaxOrders = 3
  MaxCrashes = 0
  DiskMayFail = FALSE
  StaleAcks = TRUE
SYMMETRY SymbolSymmetry
INVARIANT AckErrorIsSafe
