SPECIFICATION HistorySpec
CONSTANTS
  BufferSize = 2
  RowCount = 3
  MaxStride = 2
  MayBeConstant = {1}
INVARIANTS BatchesDisjoint StrideComplete
CHECK_DEADLOCK FALSE
