CONSTANTS
  MaxRequests <- Requests
  SendBuffer = 1
  MAX_RING_LEN = 1
SPECIFICATION FairSpec
INVARIANTS TypeOK  CrashOnlyWhenDownOrRaced ResponseNotForgotten 
  RingWakeupNotSwallowed
  
CHECK_DEADLOCK FALSE
