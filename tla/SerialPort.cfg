SPECIFICATION FairSpec
CONSTANTS
  Setups <- MCSetups
  MaxQ = 13
  BusyLimit = 5
  InBuf = 1
  MaxRead = 1
  MaxStitch = 3
  MaxLost = 1
INVARIANTS TypeOK OnceInOrder BackPressure
PROPERTIES BusyChannelRespected Drains
