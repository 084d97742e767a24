CONSTANTS
  MaxRequests <- EpollRequests
  SendBuffer = 1
  MAX_RING_LEN = 1
SPECIFICATION FairSpec
PROPERTIES EofDestroysCoroutines
CHECK_DEADLOCK FALSE
