SPECIFICATION Spec
CONSTANTS
  NB = 10
  NI = 8
  BS = 2
  NPtr = 5
  NDirect = 3
  ExtMax = 2
  Loads <- MCFirstBlock
  Handles = {1, 2}
  Names = {"f", "g", "sbin", "init"}
  Disks <- MCDisks
  Order <- MCOrder
  DevNames = {"null", "ram0", "sda1"}
  Tree <- MCTree
  OnDisk <- MCOnDisk
  Tried <- MCTried
  Targets <- MCTargets
  MaxMounts = 3
  Steps = 3
INVARIANT NoBlockShared
CHECK_DEADLOCK FALSE
