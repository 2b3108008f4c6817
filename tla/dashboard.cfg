SPECIFICATION PageFairSpec
CONSTANTS
  None = None
  Symbol <- Alphabet
  Numeral <- Number
  Storable <- Room
  Shard <- OneFor
  Capacity <- Single
  HttpRequests = {}
  CliLines = {}
  TicksPerMs = 1
  Top = 3
  MaxTime = 1
  MaxRequests = 1
  Forms <- Filling
  Slots = {s1, s2}
  HistoryLimit = 1
CHECK_DEADLOCK FALSE
INVARIANTS PageTypeOK RowsNameTheirRequest
PROPERTIES FiguresSettle
