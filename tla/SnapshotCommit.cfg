SPECIFICATION SSpec
CONSTANTS
  zero = zero
  runtime = runtime
  usr = usr
  x = x
  Name <- MCName
  ZeroName = zero
  RuntimeName = runtime
  UserName = usr
  AutoName <- MCAutoName
  CloneName <- MCCloneName
  NoName = NoName
  AgentNames = {runtime, usr}
  DomainNames <- MCDomainNames
  SnapshotNames = {x}
  MaxAgents = 5
  MaxDomains = 3
  MaxThreads = 2
  MaxSnapshots = 1
  MaxDepth = 2
INVARIANT CommitsSucceed
CHECK_DEADLOCK FALSE
