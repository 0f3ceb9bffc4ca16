SPECIFICATION FairSpec
CONSTANTS
  Sent <- MCDocuments
  ReadMax = 8
  MaxBuf = 17
  TapLimit = 9
PROPERTY ParseReturns
