SPECIFICATION Spec
CONSTANTS
  k1 = k1
  k2 = k2
  v1 = v1
  v2 = v2
  c1 = c1
  c2 = c2
  None = None
  Keys = {k1}
  Values = {v1, v2}
  Requests <- Plain
  Clients = {c1, c2}
  Writers <- Shared
  Begins <- Longer
  Room = 2
  MaxOps = 2
  MaxTime = 0
  MaxLives = 2
INVARIANTS OnDiskIsRestored
CHECK_DEADLOCK FALSE
