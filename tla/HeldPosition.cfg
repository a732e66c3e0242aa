SPECIFICATION Spec
CONSTANTS
  StopLoss = 15
  TakeProfit = 40
  WatchTime = 1
  Grace = 1
  FailCut = 10
  MinProfit = 5
  ConfirmCount = 2
  Prices = {980, 1016, 1040}
  PrevClose = 1005
  DailyRegimes = {"BULLISH", "NEUTRAL", "SIDEWAYS"}
  Indicators <- SomeIndicators
  Analyses <- SomeAnalyses
  Refresh = 2
  Backoff = 2
  Tolerance = 5
  MaxPriceAge = 2
  MaxTime = 3
  MaxUpsets = 1
INVARIANTS HighestIsOwn ExitsAreRight ObservationsAgree
CHECK_DEADLOCK FALSE
