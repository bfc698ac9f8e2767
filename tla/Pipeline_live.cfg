SPECIFICATION EitherSpec
CONSTANTS
  WrappedCap = 1
  OutCap = 1
  MaxPackets = 4
  maxKeys = 2
  NoHost = 0
  NoItem = NoItem
  NoURL = 0
  HostnameUnavailable = 8
  Domain = 9
  MaxItems = 4
  Collectors <- MCCollectors
  Items <- MCItems
  ArgSets <- MCArgSets
INVARIANTS PipelineInv PairsTogether CounterInv SummaryIsSound
PROPERTY ImplementsCollectorLife
CHECK_DEADLOCK FALSE
