SPECIFICATION FairSpec
CONSTANTS
  Backoff <- ShortBackoff
  MaxRetry = 3
  RejectDecay = 3
  SellTimeout = 1
  BuyTimeout = 2
  MaxBlock = 3
  ForcedInterval = 1
  Says = {"HOLD", "SELL", "FORCED"}
  MaxQty = 2
  MaxRejects = 4
PROPERTIES SellsAreSpaced ClocksAreOwn NoSellOverALiveOrder WantedSellGoesOut StuckIsReported
