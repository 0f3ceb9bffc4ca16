SPECIFICATION FairSpec
CONSTANTS
  NumRows = 2
  AutoAddRows = TRUE
  MaxRowCount = 2
  Counters = 1
  MaxMessages = 2
  MaxMishaps = 1
INVARIANTS TypeOK UnchangedIsStored
PROPERTIES RemovalExplained Settles
CHECK_DEADLOCK FALSE
