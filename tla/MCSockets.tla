----------------------------- MODULE MCSockets -----------------------------
(* Instances of Sockets for TLC *)
EXTENDS Sockets

\* A socket pair shared by fork; pairs closed and opened again; a server that closes
\* while connections come in; a client; and a socket that receives while interrupts
\* come.
MCLoads ==
  {[calls |-> {"pair", "send", "recv", "close", "fork"}, irq |-> FALSE,
    open |-> 2, bytes |-> 3, len |-> 2],
   [calls |-> {"unix", "pair", "send", "close", "fork", "exit"}, irq |-> FALSE,
    open |-> 4, bytes |-> 1, len |-> 1],
   [calls |-> {"tcp", "listen", "accept", "close", "fork"}, irq |-> TRUE,
    open |-> 3, bytes |-> 1, len |-> 1],
   [calls |-> {"tcp", "udp", "connect", "recv", "recvmsg", "close", "fork", "kill"}, irq |-> FALSE,
    open |-> 1, bytes |-> 3, len |-> 3],
   [calls |-> {"tcp", "udp", "connect", "recv", "recvmsg", "close"}, irq |-> TRUE,
    open |-> 2, bytes |-> 2, len |-> 2]}

\* Nothing is claimed of what follows a race, and raced stays TRUE.
UntilRaced == ~raced
=============================================================================
