CONSTANTS
  s1 = s1
  s2 = s2
  Spawners = {s1, s2}
  MaxSpawns = 1
SPECIFICATION FairSpec
PROPERTIES SpawnedTasksRun
CHECK_DEADLOCK FALSE
