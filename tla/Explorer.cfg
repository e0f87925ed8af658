SPECIFICATION ExplorerMCSpec
CONSTANTS
  StrideCount = 3
  StrideIds <- Ids
  CacheSize = 2
  GiveUpAge = 0
  MaxAges = {0, 1}
  MaxRestarts = 1
INVARIANTS TypeOK StrideCachedOnce OfferedStridesServable
PROPERTIES NewestKept CompleteFilesSettle
CHECK_DEADLOCK FALSE
