SPECIFICATION Spec
CONSTANTS
  Prim = Prim
  Stby = Stby
  None = None
  Other = Other
  hotcutovertime = 4
  ClusterInterval = 1
  ResponseTime = 1
  CredentialTimeout = 1
  CredentialFailMax = 2
  RetryDbxTime = 2
  RebuildTime = 1
  TakeOverWaitTime = 2
  RemindTime = 8
  HandoverDelay = 1
  RejectTime = 4
  ConnectOutcomes = {TRUE, FALSE}
  ReadOutcomes = {TRUE}
  RouteTableAllocated = FALSE
  OtherSites = FALSE
  Commands = {}
  MaxDelay = 0
  MaxXMLready = 1
  MaxCrashes = 1
  MaxCuts = 1
  MaxReloads = 0
  MaxCommands = 0
  MaxDark <- DarkLimit
  MaxBoth <- BothLimit
INVARIANT TypeOK
INVARIANT BlackoutBounded
INVARIANT SplitBrainBounded
