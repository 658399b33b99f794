SPECIFICATION FairSpec
CONSTANTS
  Interval = 2
  Timerange = 2
  Lag = 1
  MaxLookup = 10
  QueueSize = 5
  StageSize = 1
  RetryCounts = {0, 2}
  MaxTime = 8
  MaxCrashes = 2
INVARIANTS
  EveryWindowAccounted
  LookbackSuffices
  NothingTwice
PROPERTIES
  StartupEnds
CHECK_DEADLOCK FALSE
