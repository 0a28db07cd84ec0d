SPECIFICATION Spec
CONSTANTS
  PoolSize = 5
  TimeMod = 16
  MinDelay = 1
  Task = {t1, t2, t3}
  NoTask = NoTask
  Delay = {0, 3}
  MaxLag = 2
  Posts <- TimerPosts
  Overcommit = FALSE
SYMMETRY Tasks
VIEW Renamed
INVARIANTS TimersInOrder AlarmArmed
