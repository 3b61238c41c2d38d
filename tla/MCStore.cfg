SPECIFICATION Spec
CONSTANTS
  zero = zero
  runtime = runtime
  usr = usr
  x = x
  Name <- MCName
  ZeroName = zero
  RuntimeName = runtime
  UserName = usr
  AutoName <- MCAutoName
  CloneName <- MCCloneName
  NoName = NoName
  AgentNames = {runtime, usr, zero}
  DomainNames <- MCDomainNames
  SnapshotNames = {x}
  MaxAgents = 5
  MaxDomains = 3
  MaxThreads = 2
  MaxSnapshots = 1
  MaxDepth = 2
  Proc = {p1}
  MaxRunning = 1
  MaxFiles = 4
  MaxRecords = 3
INVARIANTS
  StoreTypeOK
  DomainThreads
  FramesInThread
  OtherCommitsSucceed
  TabResolves
  ChainIsLog
  LatestReplays
PROPERTIES
  DurableLog
CHECK_DEADLOCK FALSE
