SPECIFICATION Spec
CONSTANTS
  None = None
  Symbol <- Alphabet
  Numeral <- Number
  Storable <- Room
  Shard <- OneFor
  Capacity <- Two
  HttpRequests <- Requests
  CliLines <- Typed
  TicksPerMs = 2
  Top = 15
  MaxTime = 3
  MaxRequests = 1
CHECK_DEADLOCK FALSE
INVARIANTS AnyValueSurvives
