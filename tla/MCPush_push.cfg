SPECIFICATION MCSpec
CONSTANTS
  query = query
  self = self
  None = None
  Pushers = {query, self}
  Metrics <- MCMetrics
  PushRetry = TRUE
  MaxTime = 4
  Definitions <- MCDefinitions
  MaxCount = 2
  MaxWindows = 3
INVARIANTS
  TimesFitConversion
  ExportedAsCounted
PROPERTIES
  NeverAheadNorBack
CHECK_DEADLOCK FALSE
