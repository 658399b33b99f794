SPECIFICATION Spec
CONSTANTS
  q1 = q1
  q2 = q2
  Query = {q1}
  GTSSize <- One
  GDSize <- One
  GMSize <- One
  HistoryWanted <- Two
  BadRange = {}
  Datasource = "graylog"
  Export = "victoria"
  DatasourceRetry = TRUE
  PushRetry = TRUE
  MaxTick = 2
  MaxPanics = 1
PROPERTIES
  AckedPushStored
CHECK_DEADLOCK FALSE
