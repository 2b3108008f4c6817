SPECIFICATION FairSpec
CONSTANTS
  k1 = k1
  k2 = k2
  k3 = k3
  k4 = k4
  v1 = v1
  t1 = t1
  t2 = t2
  None = None
  Reaper = reaper
  Threads = {t1, t2}
  Keys = {k1, k2, k3}
  Values = {v1}
  TTLs = {1}
  NumShards = 2
  MaxKeys = 2
  WithReaper = TRUE
  ShardOf <- TwoTogether
  Bytes <- Sizes
  TicksPerMs = 1
  MaxTime = 1
  MaxCalls = 2
CHECK_DEADLOCK FALSE
PROPERTIES EveryCallReturns ExpiredIsReaped DestructorReturns
