SPECIFICATION MCSpec
CONSTANTS
  Labels = 3
  MaxSize = 3
  Metrics <- MCMetrics
INVARIANTS
  IndexesInRange
  EveryCombinationOnce
  ValueAtItsLabel
  ExpectedIsRecorded
CHECK_DEADLOCK FALSE
