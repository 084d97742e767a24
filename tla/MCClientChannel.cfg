CONSTANTS
  c1 = c1
  c2 = c2
  Calls <- TwoCalls
  SendBuffer = 1
SPECIFICATION FairSpec
INVARIANTS TypeOK  NoCallLost CrashOnlyWhenDown
 
CHECK_DEADLOCK FALSE
