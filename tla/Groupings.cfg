SPECIFICATION Spec
CONSTANTS
  Fingerprint = {1, 2, 3, 4}
  MaxMatches = 4
  MAX_GRAPH_SIZE = 3
  MaxResults = 2
INVARIANTS GraphsTypeOK GraphsAreComponents SizesExact PairsKept GraphsMatchSets EdgeFilesExact CorrelatesExact AnswersAgree
PROPERTIES SetsImplementPartition
CHECK_DEADLOCK FALSE
