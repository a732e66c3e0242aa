SPECIFICATION Spec
CONSTANTS
  MaxQty = 2
  MaxOthers = 2
  PageSize = 1
  MaxPages = 2
  MaxRetries = 2
  MaxQueue = 1
  MaxFaults = 2
  MaxQueries = 2
  MaxRuns = 2
CHECK_DEADLOCK FALSE
INVARIANT CutLineIsRepaired
