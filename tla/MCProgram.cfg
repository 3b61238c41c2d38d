SPECIFICATION Spec
CONSTANTS
  user = user
  runtime = runtime
  Global = Global
  NoAddress = NoAddress
  g = g
  c = c
  n = n
  t1 = t1
  t2 = t2
  MainThread = t1
  Agent <- MCAgent
  Thread <- MCThread
  Tag = {"x"}
  ArenaHome <- MCArenaHome
  ArenaFlags <- MCArenaFlags
  MaxMessages = 5
INVARIANTS
  TypeOK
  FramesSound
  Accounting
  PendingAgrees
  TagsComeFromUser
PROPERTY
  CatchStops
  OneOwner
CHECK_DEADLOCK FALSE
