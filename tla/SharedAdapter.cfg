SPECIFICATION RSpec
CONSTANTS
  user = user
  runtime = runtime
  Global = Global
  NoAddress = NoAddress
  Nobody = Nobody
  zero = zero
  a = a
  b = b
  c = c
  t1 = t1
  t2 = t2
  MainThread = t1
  Agent <- MCAgent
  Thread <- MCThread
  Tag = {}
  ArenaHome <- MCArenaHome
  ArenaFlags <- MCArenaFlags
  MaxMessages = 30
  AgentOrder <- MCAgentOrder
  Unserved = {zero}
  Contacts <- MCSharedContacts
  Peers <- MCPeers
  Noting = {}
  Fragile = {}
  MaxRequests = 2
  MaxCalls = 2
  MaxCrashes = 0
INVARIANT
  UiCheckHolds
CHECK_DEADLOCK FALSE
