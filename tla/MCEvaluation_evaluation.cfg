SPECIFICATION MCSpec
CONSTANTS
  Operations = {"count", "value", "duration"}
  Racing = FALSE
  i1 = i1
  i2 = i2
  a = a
  b = b
  Ids <- MCIds
  Olvs <- MCOlvs
  IdFieldTTL = 2
  CountMetrics <- MCCountMetrics
  ValueMetrics <- MCValueMetrics
  Calls = {1, 2, 3}
  CacheSize = 3
  NRCacheSize = 3
  UpdaterFirst = FALSE
INVARIANTS
  CountMerged
  ValueMerged
  MeasuredInTime
  UnansweredInTime
PROPERTIES
  OnceWithinTTL
  FreshIsCounted
