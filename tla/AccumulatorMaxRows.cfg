SPECIFICATION Spec
CONSTANTS
  Fingerprints = {f1, f2}
  Timestamps <- MCTimestamps
  StartTimes <- MCStartTimes
  Second <- MCSecond
  Stride = 2
  SampleTime = 2
  MaxRows = 1
  Horizon = 8
INVARIANTS RowsHoldOwnSeries
