SPECIFICATION FairSpec
CONSTANTS
  Devs = {"radio", "base", "host", "nosock", "nocom"}
  TtyDevs = {"radio", "base", "nocom"}
  NTty = 2
  NSock = 1
  TtyDev <- TwoComPorts
  SockDev <- OneSocket
  RouteTable <- FanOutTable
  maxQcount = 2
  maxQage = 2
  PurgeBatch = 1
  MAX_WDC_PURGE = 1
  InBatch = 1
  MoveBatch = 1
  MaxMsg = 2
INVARIANTS TypeOK QueuesBounded ExactlyOnePlace OneLateSendPerThread
PROPERTIES ImplementsDelivery NothingStuck
