SPECIFICATION FairSpec
CONSTANTS
  Parts = {"launch", "mpi", "batch", "load", "start", "database", "performance"}
  Launches <- MCLaunches
  NumClients = 2
  MaxMessages <- MCMessages
  NumPackages = 3
  PackagePriority <- MCPriority
  Retries = 1
  NumberToKeep = 1
  NumLoadBrokers = 2
  Amounts <- MCAmounts
  Loads <- MCLoads
  NumStartRanks = 2
  FirstPackages = 2
  NumSamplers = 2
  NumPerformanceBrokers = 2
  NumBins = 2
  BinDelta = 2
  MinArgument = 3
  PackageNorm <- MCNorm
  LongestTime = 2
INVARIANTS
  PartsTypeOK
  MessagesAccounted
  WorkBalanced
PROPERTIES
  ModulesStart
  MessagesReceived
  PackagesReturned
  PackagesScheduled
  ResultsGetIn
CHECK_DEADLOCK FALSE
