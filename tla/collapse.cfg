SPECIFICATION FairSpec
CONSTANTS
  k1 = k1
  k2 = k2
  None = None
  Written = Written
  Keys = {k1, k2}
  Threads = {t1, t2, t3}
  Needs <- OneNeedsTwo
  Flights = {f1, f2, f3}
  Storable = {k1}
  MaxLosses = 1
INVARIANTS TypeOK SingleFlight LoadsAreAccounted NoLandedFlightIsShared NobodyWaitsInVain
PROPERTIES EveryCallReturns
CHECK_DEADLOCK FALSE
