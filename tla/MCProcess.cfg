CONSTANTS
  N = 4
  MaxPid = 5
  WaitSel <- MCWaitSel
  Loads <- MCLoads
SPECIFICATION Spec
INVARIANTS SchedConsistent DeadStayOffCpu FamilyExact WaiterIsOwed
