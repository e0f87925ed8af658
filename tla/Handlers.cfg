SPECIFICATION HandlersMCSpec
CONSTANTS
  StrideCount = 3
  StrideIds <- Ids
  CacheSize = 2
  GiveUpAge = 0
  MaxAges = {1}
  MaxRestarts = 0
  MAX_GRAPH_SIZE = 3
  MaxResults = 2
  Contents <- ContentsHere
  Requested <- IdsRequested
INVARIANTS AnswersRight TimelineTrue TimelineComplete
CHECK_DEADLOCK FALSE
