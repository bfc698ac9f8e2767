SPECIFICATION EitherSpec
CONSTANTS
  r1 = r1
  r2 = r2
  k1 = k1
  k2 = k2
  f1 = f1
  f2 = f2
  v1 = v1
  v2 = v2
  Regions = {r1, r2}
  Clusters = {k1, k2}
  Families = {f1, f2}
  Services = {v1, v2}
  RegionOf <- RegionOfAll
  ClusterOf <- ClusterOfAll
  FamilyOf <- FamilyOfAll
  DefaultRegion = r1
  FlagSets <- CommandLines
  Kinds = {"plain", "agent", "bridge"}
  MaxPolls = 2
  MaxOthers = 1
  i1 = i1
  i2 = i2
  Interfaces = {i1, i2}
  ArgSets <- FourSessions
  MaxSession = 3
INVARIANTS WorkflowInv EndIsExplained VerdictInv SessionsTogether
PROPERTIES AsksOrEnds ErrorsDoNotStopOthers SessionEnds
CHECK_DEADLOCK FALSE
