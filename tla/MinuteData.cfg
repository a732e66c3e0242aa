SPECIFICATION MinuteSpec
CONSTANTS
  MinCount = 6
  MaxAge = 2
  LowRisingBars = 3
  MinValue = 3000
  PullbackDeepest = 70
  PullbackLeast = 5
  ChangeLeast = 20
  ChangeMost = 180
  FastV <- MCFastV
  SlowV <- MCSlowV
  MinBarAmount = 3000
  DisableScore3 = FALSE
  LowUpsideGuard = TRUE
  LeastUpside = 10
  GuardsPatternD = FALSE
  RequireConfirmation = TRUE
  SlowVEnabled = TRUE
  SymbolMinScore = 0
  EnforceCandidateA = TRUE
  NeedVwap = TRUE
  BarCount = 6
  MinuteRefresh = 1
  FetchBackoff = 1
  YesterdayClose = 1020
  DayLength = 10
  Open = 4
  Close = 8
  Evening <- MCEvening
  Times <- MCTimes
  Kinds <- MCKinds
  Daily <- MCDaily
  MaxLag = 1
  MaxMoves = 1
  MaxMishaps = 1
  Trades <- MCTrades
  CutAt <- MCCutAt
INVARIANTS SafeEntryIsCurrent RecordsAgree ReboundIsReal NobodyChases
CHECK_DEADLOCK FALSE
