SPECIFICATION HistorySpec
CONSTANTS
  BufferSize = 2
  RowCount = 2
  MaxStride = 2
  MayBeConstant = {1}
INVARIANTS CorrelatedReported
CHECK_DEADLOCK FALSE
