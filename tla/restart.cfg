SPECIFICATION Spec
CONSTANTS
  k1 = k1
  k2 = k2
  v1 = v1
  v2 = v2
  c1 = c1
  c2 = c2
  None = None
  Keys = {k1, k2}
  Values = {v1, v2}
  Requests <- Mixed
  Clients = {c1, c2}
  Writers <- OneEach
  Begins <- Longer
  Room = 1
  MaxOps = 3
  MaxTime = 1
  MaxLives = 3
INVARIANTS TypeOK LogFollowsCache OnDiskIsRestored
CHECK_DEADLOCK FALSE
