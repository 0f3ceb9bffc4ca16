SPECIFICATION Spec
CONSTANTS
  Prim = Prim
  Stby = Stby
  None = None
  Other = Other
  hotcutovertime = 2
  ClusterInterval = 1
  ResponseTime = 1
  CredentialTimeout = 0
  CredentialFailMax = 0
  RetryDbxTime = 0
  RebuildTime = 1
  TakeOverWaitTime = 1
  RemindTime = 2
  HandoverDelay = 0
  RejectTime = 0
  ConnectOutcomes = {TRUE}
  ReadOutcomes = {TRUE}
  RouteTableAllocated = FALSE
  OtherSites = TRUE
  Commands = {"takeover", "active"}
  MaxDelay = 0
  MaxXMLready = 0
  MaxCrashes = 0
  MaxCuts = 0
  MaxReloads = 0
  MaxCommands = 1
  MaxDark <- DarkLimit
  MaxBoth <- BothLimit
PROPERTY HandBackOnlyToAPrimaryHeard
