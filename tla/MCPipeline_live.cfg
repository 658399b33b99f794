SPECIFICATION FairSpec
CONSTANTS
  q1 = q1
  q2 = q2
  Query = {q1}
  GTSSize <- One
  GDSize <- One
  GMSize <- Zero
  HistoryWanted <- One
  BadRange = {}
  Datasource = "loki"
  Export = "promrw"
  DatasourceRetry = TRUE
  PushRetry = TRUE
  MaxTick = 3
  MaxPanics = 1
INVARIANTS
  EvaluatedOnceInOrder
  RetriesLoseNothing
PROPERTIES
  FlowSpec
  EveryWindowSettles
CHECK_DEADLOCK FALSE
