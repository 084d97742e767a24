CONSTANTS
  s1 = s1
  s2 = s2
  Spawners = {s1, s2}
  MaxSpawns = 1
  TriggerMayFail = TRUE
SPECIFICATION FairSpec
INVARIANTS TypeOK WakeupNotSwallowed
PROPERTIES TimedTasksRun 
CHECK_DEADLOCK FALSE
