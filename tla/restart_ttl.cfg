SPECIFICATION Spec
CONSTANTS
  k1 = k1
  k2 = k2
  v1 = v1
  v2 = v2
  c1 = c1
  c2 = c2
  None = None
  Keys = {k1}
  Values = {v1, v2}
  Requests <- Brief
  Clients = {c1, c2}
  Writers <- OneEach
  Begins <- Longer
  Room = 2
  MaxOps = 1
  MaxTime = 2
  MaxLives = 2
INVARIANTS BoundedStaleness
CHECK_DEADLOCK FALSE
