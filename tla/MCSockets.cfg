CONSTANTS
  Proc = {p1, p2}
  First = p1
  MaxSock = 3
  MaxPcb = 2
  MaxFd = 3
  AcceptQ = 2
  RxSize = 2
  Sender = {1, 2}
  Loads <- MCLoads
SPECIFICATION SockSpec
CONSTRAINT UntilRaced
INVARIANTS RefsExact LinksMutual ReceivedExact WaitIsOwed
