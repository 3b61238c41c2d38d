SPECIFICATION Spec
CONSTANTS
  TraceKeys = {"up", "down", "return"}
  Height = 2
  MaxTabs = 2
  MaxTrace = 3
  MaxInputs = 4
  LogLimit = 3
  LogHeights = {1, 2}
  MaxEntries = 6
  Bodies <- MCBodies
  Printed = {"a", "b", "nl", "csi"}
  MaxCalls = 3
  MaxPrinted = 3
  Commands <- MCCommands
  Sizes = {0, 1, 3}
  Capacity = 2
  MaxCommands = 2
  MaxMail = 2
  MaxAgents = 3
  MaxTemplates = 1
  MaxRecords = 5
  User = "user"
  Self = "m"
  Others = {"x"}
  Alias = "c"
  Clone = "c1"
  Nowhere = "nobody"
  Plans <- MCPlans
  MaxFrames = 4
  MaxLetters = 4
  PeerCount = 2
  PipeSize = 2
  Lengths = {1, 3}
  MaxAsked = 3
  MaxDeaths = 1
INVARIANT ReaderHasMessage
CHECK_DEADLOCK FALSE
