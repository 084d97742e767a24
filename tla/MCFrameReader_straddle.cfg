CONSTANTS
  kBlockSize = 4
  Uint32Size = 2
  MessageSizes = {0, 1, 4}
  Uint32 = {0, 1, 2, 3, 4, 5}
  NumMessages = 4
SPECIFICATION FairSpec
INVARIANTS LengthFetched
CHECK_DEADLOCK FALSE
