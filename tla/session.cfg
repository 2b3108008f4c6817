SPECIFICATION FairSpec
CONSTANTS
  c1 = c1
  Conns = {c1, c2}
  NL = NL
  q = q
  w = w
  r = r
  Words = {w, q}
  Noise = {r}
  Quits <- QuitLines
  Inputs <- Talk
  SignalKills = TRUE
  Chunk = 3
  Window = 3
INVARIANTS TypeOK LinesAreFramed AnswersInOrder
PROPERTIES EveryLineIsAnswered HandlersEnd
CHECK_DEADLOCK FALSE
