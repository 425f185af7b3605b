CONSTANTS
  Base = 2
  Limit = 7
  MaxVma = 2
  MaxLen = 3
  Fixed = {}
  MayFail = FALSE
SPECIFICATION MemorySpec
INVARIANTS ArenaAboveBrk
