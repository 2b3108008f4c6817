SPECIFICATION FairSpec
CONSTANTS
  OpenMayFail = TRUE
  WriteMayFail = TRUE
  MaxLines = 5
  MaxCrashes = 3
  MaxLives = 4
  MaxRequests = 1
INVARIANTS TypeOK LogIsComplete DamageIsBounded ShutdownDrains
PROPERTIES ImplementsDurableLog ImplementsTornLog RecordedIsWritten DestructorReturns
CHECK_DEADLOCK FALSE
