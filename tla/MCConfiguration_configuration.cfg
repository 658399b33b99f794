SPECIFICATION MCSpec
CONSTANTS
  Passwords = {p1, p2}
  Keys = {k1, k2, k3, k4}
  NoPassword = NoPassword
  NoKey = NoKey
  CutKey = CutKey
  Deployments = {"bare", "plain"}
  MaxCuts = 3
  MaxRotations = 3
  MaxKeyLosses = 1
  d1 = d1
  d2 = d2
  e1 = e1
  e2 = e2
  Empty = Empty
  Documents <- MCDocuments
INVARIANTS
  KeyFitsConfig
  CanStartAgain
  KeepsPassword
  StartedIsCompleted
PROPERTIES
  RunsOrNeedsOperator
CHECK_DEADLOCK FALSE
