SPECIFICATION Spec
CONSTANTS
  PoolSize = 3
  TimeMod = 16
  MinDelay = 1
  Task = {t1, t2}
  NoTask = NoTask
  Delay = {3}
  MaxLag = 2
  Posts <- IdlePosts
  Overcommit = TRUE
INVARIANT NothingLost
