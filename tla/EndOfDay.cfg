SPECIFICATION FairSpec
CONSTANTS
  LastDay = 1
  Analyses = {"validate", "shadow"}
  Backoff = 2
  Durations = {0, 2}
  MaxFailures = 3
  MaxRestarts = 1
INVARIANTS BundleIsFresh LeftoversAreTracked
PROPERTIES FinalIsFinal DaysAreFinished
CHECK_DEADLOCK FALSE
