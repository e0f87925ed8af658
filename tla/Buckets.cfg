SPECIFICATION BucketsSpec
CONSTANTS
  RowCount = 3
  SvdOutputDimensions = 2
  Epsilon1 = 2
  Values <- SmallValues
  ConstantRowSets = {{}, {2}}
INVARIANTS CandidatesOnce CloseRowsAsked
CHECK_DEADLOCK FALSE
