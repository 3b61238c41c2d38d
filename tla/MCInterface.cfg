SPECIFICATION ISpec
CONSTANTS
  t0 = t0
  t1 = t1
  Thread = {t0, t1}
  Main = t0
  Kinds = {"null", "cli", "tui", "web"}
  Arena <- MCArena
  MaxSends = 3
INVARIANTS
  ITypeOK
  OneCarrier
  MirrorReplays
  ShownAnswered
  SyscallAnswered
PROPERTIES
  EveryoneEnds
CHECK_DEADLOCK FALSE
