SPECIFICATION MCSpec
CONSTANTS
  q1 = q1
  q2 = q2
  m1 = m1
  m2 = m2
  m3 = m3
  Query = {q1, q2}
  Scraper = {s1}
  Self = Self
  NoQuery = NoQuery
  Metrics <- MetricsOfQuery
  MaxPanics = 1
  MaxEvents = 3
  Jobs = {j1}
  Settings <- MCSettings
  MaxTime = 1
  MaxObserved = 1
  MaxSelfPanics = 1
INVARIANTS
  ScrapeIsWhole
  CopyIsOwnWindow
PROPERTIES
  LockComesBack
  CounterNeverFalls
  CountArrives
CHECK_DEADLOCK FALSE
