SPECIFICATION EitherSpec
CONSTANTS
  r1 = r1
  r2 = r2
  k1 = k1
  k2 = k2
  f1 = f1
  f2 = f2
  v1 = v1
  v2 = v2
  Regions = {r1, r2}
  Clusters = {k1, k2}
  Families = {f1, f2}
  Services = {v1, v2}
  RegionOf <- RegionOfAll
  ClusterOf <- ClusterOfAll
  FamilyOf <- FamilyOfAll
  DefaultRegion = r1
  FlagSets <- BatchOnly
  Kinds = {"plain"}
  MaxPolls = 0
  MaxOthers = 0
  i1 = i1
  i2 = i2
  Interfaces = {i1, i2}
  ArgSets <- DebugSession
  MaxSession = 1
PROPERTY StopsWhenAllFailed
CHECK_DEADLOCK FALSE
