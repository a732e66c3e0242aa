SPECIFICATION WatchSpec
CONSTANTS
  Codes = {1, 2}
  Manual <- MCManual
  Permanent = {}
  MaxSymbols = 1
  Callbacks <- MCCallbacks
  InARow = 2
  Modes = {"enforce"}
  Cooldown = 2
  FailureBackoff = 1
  DayLength = 9
  Cutoff = 8
  MaxTime = 10
INVARIANTS RechecksAreServed
PROPERTIES WaitingStaysWatched HoldingsAreVisited
CHECK_DEADLOCK FALSE
