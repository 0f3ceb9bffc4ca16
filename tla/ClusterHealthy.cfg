SPECIFICATION Spec
CONSTANTS
  Prim = Prim
  Stby = Stby
  None = None
  Other = Other
  hotcutovertime = 4
  ClusterInterval = 1
  ResponseTime = 1
  CredentialTimeout = 1
  CredentialFailMax = 1
  RetryDbxTime = 2
  RebuildTime = 1
  TakeOverWaitTime = 1
  RemindTime = 2
  HandoverDelay = 1
  RejectTime = 4
  ConnectOutcomes = {TRUE, FALSE}
  ReadOutcomes = {TRUE, FALSE}
  RouteTableAllocated = TRUE
  OtherSites = FALSE
  Commands = {}
  MaxDelay = 1
  MaxXMLready = 1
  MaxCrashes = 0
  MaxCuts = 0
  MaxReloads = 2
  MaxCommands = 0
  MaxDark <- DarkLimit
  MaxBoth <- BothLimit
INVARIANT HealthyPrimaryKept
