SPECIFICATION FairSpec
CONSTANTS
  Seqs = {3, 7}
  Symbols = {a}
  MaxMoves = 3
  MaxDrops = 3
  MaxRefusals = 1
  MaxQueue = 3
INVARIANTS CopyIsCurrent ListsAreRight
PROPERTIES EveryConditionIsAnswered
CHECK_DEADLOCK FALSE
