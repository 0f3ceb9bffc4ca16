SPECIFICATION FairSpec
CONSTANTS
  N = 2
  Tables <- MCTables
  NumFds = 3
  Other = Other
  NoOne = NoOne
  MaxConTries = 0
  MaxOther = 1
  MaxEvents = 1
CONSTRAINT NoneWronged
INVARIANTS TypeOK ForeignCloseExplained NothingLeaked HoldsWhatItUses
PROPERTY Regained
