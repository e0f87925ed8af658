SPECIFICATION HistorySpec
CONSTANTS
  WindowSize = 3
  Stride = 2
  MaxRowCount = 3
  MaxShifts = 5
  Zero = Zero
INVARIANTS ComputesFullWindow WindowIsSuffix
PROPERTIES WindowStableWhileRunning WindowOnlyGrows
CHECK_DEADLOCK FALSE
