CONSTANTS
  Sectors = 3
  Value = {1, 2}
  CmdSlots = 2
  Batch = 3
  AtaMod = 2
  TagMod = 3
  DiskLoads <- MCAtaLoads
  RxN = 3
  TxN = 2
  IpQ = 2
  ReplyQ = 2
  RawQ = 3
  NicLoads <- MCNicLoads
  EvN = 4
  CmdN = 4
  TrN = 6
  Budget = 2
  HwSlots = 3
  Tracked = 2
  QhN = 30
  TdN = 64
  EnumDepth = 2
  StackDepth = 9
  UsbLoads <- MCUsbLoads
SPECIFICATION Spec
INVARIANT WritesLand
CHECK_DEADLOCK FALSE
