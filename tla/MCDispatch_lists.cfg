SPECIFICATION Spec
CONSTANTS
  PoolSize = 4
  TimeMod = 16
  MinDelay = 1
  Task = {t1, t2}
  NoTask = NoTask
  Delay = {0, 3}
  MaxLag = 2
  Posts <- CommonPosts
  Overcommit = FALSE
SYMMETRY Tasks
VIEW Renamed
INVARIANTS TypeOK Partition ListsLinked NothingLost IdleDrained
PROPERTY KeepsPromise
