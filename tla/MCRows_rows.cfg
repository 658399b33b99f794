SPECIFICATION MCSpec
CONSTANTS
  host = host
  level = level
  pod = pod
  message = message
  RESULT = RESULT
  r1 = r1
  r2 = r2
  r3 = r3
  Field = "message"
  Records = {r1, r2, r3}
  Unparsed = {r3}
  Queries <- MCQueries
  Responses <- MCResponses
  LokiFields <- MCFields
  FacetNames <- MCFacetNames
  Beginnings <- MCBeginnings
  MaxTail = 4
  Limit = 7
INVARIANTS
  TableIsResponse
  ColumnsAreSequential
  ScoredAsDrawn
CHECK_DEADLOCK FALSE
