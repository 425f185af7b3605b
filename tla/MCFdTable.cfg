CONSTANTS
  Proc = {p1, p2}
  First = p1
  MaxFd = 4
  MaxRef = 5
  Std = {0}
  Pipes = {"pipe1"}
  Ptys = {"pty1"}
  Events = {"event1"}
  PipeSize = 2
  MaxHold = 2
  Loads <- MCLoads
SPECIFICATION Spec
INVARIANTS EndsExact RefsExact CallKeepsPipe
