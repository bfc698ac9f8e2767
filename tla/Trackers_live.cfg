SPECIFICATION ChainFairSpec
CONSTANTS
  c1 = c1
  c2 = c2
  k1 = k1
  Conns = {c1}
  Timeout = 1
  MaxHellos = 2
  MaxCapture = 1
  MaxTime = 2
  TCPConns = {c1, c2}
  Keys = {k1}
  MaxEpochs = 1
  MaxInputs = 4
INVARIANTS HandshakeInv ChainInv
PROPERTY TrackersFinish
CHECK_DEADLOCK FALSE
