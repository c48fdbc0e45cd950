SPECIFICATION FairSpec
CONSTANTS
  MaxPages = 2
  MaxVersion = 1
  PageCount <- MCPageCount
  Window = 2
  Operation = {"draw", "magnify", "search", "name", "status"}
INVARIANTS
  TypeOK
  PageInUseStays
  NoChangeMissed
  NoErrorLost
PROPERTIES
  CallsReturn
  PrefetchComesRound
