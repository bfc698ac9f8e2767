SPECIFICATION FairSpec
CONSTANTS
  k1 = k1
  r1 = r1
  Keys = {k1}
  Others = {r1}
  Expiration = 1
  MaxBatch = 2
  MaxCapture = 3
  MaxLag = 0
  MaxTime = 5
  MaxSession = 2
INVARIANTS CacheInv ClosedLosesNothing DeliveredIsTrue
PROPERTY EveryPartialLeaves
CHECK_DEADLOCK FALSE
