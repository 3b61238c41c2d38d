SPECIFICATION RSpec
CONSTANTS
  user = user
  runtime = runtime
  Global = Global
  NoAddress = NoAddress
  Nobody = Nobody
  zero = zero
  a = a
  b = b
  c = c
  t1 = t1
  t2 = t2
  MainThread = t1
  Agent <- MCAgent
  Thread <- MCThread
  Tag = {}
  ArenaHome <- MCArenaHome
  ArenaFlags <- MCArenaFlags
  MaxMessages = 30
  AgentOrder <- MCAgentOrder
  Unserved = {zero}
  Contacts <- MCContacts
  Peers <- MCPeers
  Noting = {}
  Fragile = {a}
  MaxRequests = 2
  MaxCalls = 0
  MaxCrashes = 1
INVARIANT
  PollCheckHolds
CHECK_DEADLOCK FALSE
