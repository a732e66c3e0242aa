SPECIFICATION Spec
CONSTANTS
  Symbols = {s1, s2}
  s1 = s1
  s2 = s2
  Reasons = {"trail"}
  Prices = {1, 2}
  OrderCash = 2
  StartCash = 5
  MinCashBuffer = 2
  MaxOrderAmount = 3
  MaxPositions = 1
  MaxEntries = 3
  MaxDailyLoss = 4
  MaxConsecutiveLosses = 3
  TrailThreshold = 1
  Carried <- CarriedLots
  MaxOrders = 4
  OrdersBeforeNight = 1
  LastDay = 1
  MaxMishaps = 2
INVARIANTS EarningsAreKnown LossLimitStopsEntries LossesAreLimited CalculationsAgree
CHECK_DEADLOCK FALSE
SYMMETRY Symmetry
