SPECIFICATION FairSpec
CONSTANTS
  PoolSize = 4
  TimeMod = 16
  MinDelay = 1
  Task = {t1, t2}
  NoTask = NoTask
  Delay = {3}
  MaxLag = 2
  Posts <- CalmPosts
  Overcommit = FALSE
  Burst = 1
PROPERTY EventuallyStarted
VIEW FairView
