CONSTANTS
  N = 4
  MaxPid = 5
  WaitSel <- MCWaitSel
  Loads <- MCOrphanLoads
SPECIFICATION Spec
INVARIANT OrphansAreReaped
