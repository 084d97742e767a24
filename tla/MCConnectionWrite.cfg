CONSTANTS
  kBlockSize = 3
  IOV_MAX = 3
  SizeMod = 64
  MessageSizes = {0, 1, 4}
  PrefixSize = 2
  MaxBytes = 12
  SendBuffer = 4
SPECIFICATION FairSpec
INVARIANTS TypeOK WireInOrder SizeToWrite InFlightIntact BackLeftComesBack
PROPERTIES AllSent
CHECK_DEADLOCK FALSE
