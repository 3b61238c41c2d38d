SPECIFICATION FairSpec
CONSTANTS
  user = user
  runtime = runtime
  Global = Global
  NoAddress = NoAddress
  Nobody = Nobody
  zero = zero
  a = a
  b = b
  c = c
  t1 = t1
  t2 = t2
  MainThread = t1
  Agent <- MCAgent
  Thread <- MCThread
  Tag = {}
  ArenaHome <- MCArenaHome
  ArenaFlags <- MCArenaFlags
  MaxMessages = 30
  AgentOrder <- MCAgentOrder
  Unserved = {zero}
  Contacts <- MCExitContacts
  Peers <- MCPeers
  Noting = {a}
  Fragile = {}
  MaxRequests = 2
  MaxCalls = 1
  MaxCrashes = 0
PROPERTY
  ExitEnds
CHECK_DEADLOCK FALSE
