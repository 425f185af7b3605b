CONSTANTS
  Readers = {1, 2}
  KbdSize = 4
  MouseSize = 9
  LineMax = 2
  PtySize = 3
  Letters = {"a"}
  TermLoads <- MCTermLoads
  Procs = {1, 2}
  Horizon = 4
  MsUnits = 2
  EvMax = 3
  PipeSize = 2
  MaxWatch = 2
  EventLoads <- MCEventLoads
  AddrMin = 1
  AddrMax = 40
  LowBase = 4
  LowLimit = 12
  InterpBase = 12
  StackBase = 16
  HeapBase = 18
  HeapDelta = 8
  HeapExtra = 2
  BigFile = 8
  LargeBase = 28
  LargeEnd = 38
  MaxPh = 3
  MaxArgs = 3
  ArgSize = 18
  Programs <- MCPrograms
  ArgLists <- MCArgLists
  Base = 2
  Limit = 5
  MaxVma = 3
  MaxLen = 4
  Fixed = {1, 3}
  MayFail = TRUE
SPECIFICATION Spec
INVARIANTS

TerminalExact
PollAgrees
CountersExact


StartIsRight
TrackedExact
GapIsHighest
PROPERTIES
FailedExecHarmless
NoPageGivenTwice
CHECK_DEADLOCK FALSE
