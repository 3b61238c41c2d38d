SPECIFICATION RSpec
CONSTANTS
  user = user
  runtime = runtime
  Global = Global
  NoAddress = NoAddress
  Nobody = Nobody
  zero = zero
  a = a
  b = b
  c = c
  t1 = t1
  t2 = t2
  MainThread = t1
  Agent <- MCAgent
  Thread <- MCThread
  Tag = {}
  ArenaHome <- MCArenaHome
  ArenaFlags <- MCArenaFlags
  MaxMessages = 30
  AgentOrder <- MCAgentOrder
  Unserved = {zero}
  Contacts <- MCContacts
  Peers <- MCPeers
  Noting = {a}
  Fragile = {c}
  MaxRequests = 1
  MaxCalls = 1
  MaxCrashes = 1
PROPERTY
  DeathReleases
CHECK_DEADLOCK FALSE
