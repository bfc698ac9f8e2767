SPECIFICATION EitherSpec
CONSTANTS
  c1 = c1
  toServer = toServer
  toClient = toClient
  Conns = {c1}
  Timeout = 2
  MaxLag = 1
  MaxCapture = 3
  MaxLives = 2
  MaxTime = 5
  Dirs = {toServer, toClient}
  MaxChunk = 2
  MaxBytes = 4
INVARIANTS TrackerInv BytesConserved ReportsAreSound
PROPERTY ImplementsConnSummaries
CHECK_DEADLOCK FALSE
