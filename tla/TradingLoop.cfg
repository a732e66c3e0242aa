SPECIFICATION FairSpec
CONSTANTS
  Days = 3
  Weekend <- Saturday
  MinWait = 1
  MaxWait = 3
  Cooldown = 3
  MaxRestarts = 2
  Escapes = TRUE
PROPERTIES BalanceRetriesBackOff CooldownHonoured OrdersOnlyInHours CountersFollowTheDay TradingGoesOn
