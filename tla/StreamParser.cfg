SPECIFICATION Spec
CONSTANTS
  Sent <- MCSent
  ReadMax = 8
  MaxBuf = 17
  TapLimit = 9
INVARIANTS TypeOK OneThingEach 
