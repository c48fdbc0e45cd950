SPECIFICATION FairSpec
CONSTANTS
  Capacity = 3
  MaxCount = 4
  MaxBytes = 8
  ChunkSize = 2
  Kind <- MCKind
INVARIANTS
  TypeOK
  NothingTruncated
PROPERTIES
  ChannelSpec
  CallReturns
  DestructorReturnsUnlessLost
CHECK_DEADLOCK FALSE
