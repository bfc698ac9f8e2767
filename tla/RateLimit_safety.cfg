SPECIFICATION Spec
CONSTANTS
  c1 = c1
  c2 = c2
  k1 = k1
  k2 = k2
  k3 = k3
  Collectors = {c1, c2}
  Keys = {k1}
  RateNum = 1
  RateDen = 3
  EpochTime = 3
  MaxDuration = 1
  MaxLag = 0
  Prompt = TRUE
  MaxTime = 9
SYMMETRY Symmetry
INVARIANTS TypeOK ResponseOfSampledRequest NoEarlyExpiry IntervalBudget SamplesUntilPanic
CHECK_DEADLOCK FALSE
