SPECIFICATION Spec
CONSTANTS
  Fingerprints = {f1, f2, f3}
  Timestamps <- MCTimestamps
  StartTimes <- MCStartTimes
  Second <- MCSecond
  Stride = 3
  SampleTime = 2
  MaxRows = 2
  Horizon = 12
INVARIANTS TypeOK RowIndex SlotsAligned PublishedWithinStride NoPanic SeriesSeparate
PROPERTIES AppendOnly ImplementsStrideSource
