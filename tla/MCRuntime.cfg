SPECIFICATION FairSpec
CONSTANTS
  user = user
  runtime = runtime
  Global = Global
  NoAddress = NoAddress
  Nobody = Nobody
  zero = zero
  a = a
  b = b
  c = c
  t1 = t1
  t2 = t2
  MainThread = t1
  Agent <- MCAgent
  Thread <- MCThread
  Tag = {}
  ArenaHome <- MCArenaHome
  ArenaFlags <- MCArenaFlags
  MaxMessages = 30
  AgentOrder <- MCAgentOrder
  Unserved = {zero}
  Contacts <- MCContacts
  Peers <- MCPeers
  Noting = {a}
  Fragile = {b, c}
  MaxRequests = 3
  MaxCalls = 1
  MaxCrashes = 1
INVARIANTS
  RTypeOK
  NoCheckFails
  SendersMayWrite
  OneToken
  ServesFrames
  StoppedClean
PROPERTY
  Answered
  ShutdownEnds
CHECK_DEADLOCK FALSE
