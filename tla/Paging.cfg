SPECIFICATION Spec
CONSTANTS
  Pages <- MCPages
  Text <- MCText
  MaxPages = 3
  MaxBytes = 480
INVARIANTS TypeOK EveryPagerHearsItsPages GapBeforeAddress WordsAreCodewords
