SPECIFICATION Spec
CONSTANTS
  q1 = q1
  q2 = q2
  Query = {q1}
  GTSSize <- One
  GDSize <- Zero
  GMSize <- Zero
  HistoryWanted <- Two
  BadRange = {}
  Datasource = "graylog"
  Export = "promrw"
  DatasourceRetry = TRUE
  PushRetry = TRUE
  MaxTick = 4
  MaxPanics = 0
INVARIANTS
  TypeOK
  InFlightBounded
  HistoryNeverBlocks
PROPERTIES
  AckedPushStored
CHECK_DEADLOCK FALSE
