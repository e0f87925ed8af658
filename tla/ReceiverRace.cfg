SPECIFICATION Spec
CONSTANTS
  StartTimes = {1}
  Timestamps = {2, 3, 4, 5}
  Span = 0
  MaxGap = 1
  WindowSize = 2
  StrideLength = 1
  MaxRowCount = 2
  MayBeConstant = {1}
  BufferSize = 2
  Strides = {1, 2, 3, 4}
  Zero = Zero
  NoTime = NoTime
INVARIANTS OneReporterGoroutine
CHECK_DEADLOCK FALSE
