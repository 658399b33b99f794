SPECIFICATION FairSpec
CONSTANTS
  q1 = q1
  q2 = q2
  Query = {q1}
  GTSSize <- Three
  GDSize <- One
  GMSize <- Zero
  HistoryWanted <- Three
  BadRange = {q1}
  Datasource = "newrelic"
  Export = "victoria"
  DatasourceRetry = FALSE
  PushRetry = FALSE
  MaxTick = 1
  MaxPanics = 1
INVARIANTS
  NoSendOnClosed
PROPERTIES
  ClosedQueryStops
CHECK_DEADLOCK FALSE
