SPECIFICATION Spec
CONSTANTS
  k1 = k1
  k2 = k2
  k3 = k3
  k4 = k4
  v1 = v1
  t1 = t1
  t2 = t2
  None = None
  Reaper = reaper
  Threads = {t1, t2}
  Keys = {k1, k2, k3, k4}
  Values = {v1}
  TTLs = {1}
  NumShards = 2
  MaxKeys = 3
  WithReaper = FALSE
  ShardOf <- ThreeTogether
  Bytes <- OneSize
  TicksPerMs = 2
  MaxTime = 2
  MaxCalls = 4
CHECK_DEADLOCK FALSE
SYMMETRY AlikeTriple
INVARIANTS ScanMissesNothingSteady
PROPERTIES OnlyTheOldestIsEvicted
