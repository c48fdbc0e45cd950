SPECIFICATION FairSpec
CONSTANTS
  Capacity = 3
  MaxCount = 4
  MaxBytes = 8
  ChunkSize = 2
  Kind <- MCGoodOnly
PROPERTY DestructorReturns
CHECK_DEADLOCK FALSE
