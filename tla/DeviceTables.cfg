SPECIFICATION FairSpec
CONSTANTS
  A = A
  B = B
  C = C
  Sys = Sys
  Com = Com
  NoName = NoName
  Rows <- ThreeRows
  Unusable = {C}
  Tables <- BrokenTable
  NSockets = 2
  MaxDevices = 5
  SlowPass = TRUE
  EarlyRestart = FALSE
  MaxReloads = 1
  MaxRestarts = 1
  Mail = {A}
INVARIANT TypeOK
INVARIANT BoundOnce
PROPERTY ReloadCompletes
PROPERTY RestartCompletes
