CONSTANTS
  s1 = s1
  s2 = s2
  Spawners = {s1, s2}
  MaxSpawns = 1
SPECIFICATION FairSpec
INVARIANTS TypeOK WakeupNotSwallowed TasksRunOnceInOrder
PROPERTIES TimedTasksRun StopEndsThread
CHECK_DEADLOCK FALSE
