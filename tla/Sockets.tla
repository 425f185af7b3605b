------------------------------ MODULE Sockets ------------------------------
(***************************************************************************)
(* The socket table of src/sys/syscall.c (g_sockets): local socket pairs,  *)
(* TCP and UDP sockets over lwIP, their reference counts, accept queues    *)
(* and receive buffers.                                                    *)
(*                                                                         *)
(* accept, connect, recvfrom and a sendto on a socket pair wait by polling *)
(* (wait_blocking_step) and keep their socket pointer meanwhile; other     *)
(* processes run only then.  The callbacks of lwIP run when such a call    *)
(* polls, and, if load.irq, in the timer interrupt (timer_handler), in the *)
(* middle of a call.  A call that changes the table is therefore a         *)
(* sequence of steps, mid, cut where it goes on with what it has read of   *)
(* state that a callback writes.  raced becomes TRUE when a callback       *)
(* changes just that: the code has no protection against it.               *)
(*                                                                         *)
(* A descriptor is a pair of a process and a socket (dup is in FdTable).   *)
(* A byte of a stream is its sender and its number there, a datagram the   *)
(* name of its sender.  Addresses and ports, ICMP, the sending side of TCP *)
(* and UDP, which leaves g_sockets alone, and interrupts inside lwIP's own *)
(* code are left out.                                                      *)
(***************************************************************************)
EXTENDS Integers, Sequences, FiniteSets

CONSTANTS Proc, First,   \* processes, and the one that is there from the start
          MaxSock,       \* EDGE_MAX_SOCKETS
          MaxPcb,        \* control blocks that lwIP has
          MaxFd,         \* descriptors per process
          AcceptQ,       \* EDGE_SOCK_ACCEPTQ
          RxSize,        \* the size of rx_buf
          Sender,        \* remote hosts that send datagrams
          Loads          \* workloads: the calls made, irq (interrupts inside calls), and
                         \* bounds: open (sockets), bytes (of a stream), len (of a call)

ASSUME SocketAssumption ==
  /\ First \in Proc /\ IsFiniteSet(Proc)
  /\ {MaxSock, MaxPcb, RxSize, AcceptQ} \subseteq Nat \ {0}
  /\ \A l \in Loads : l.irq \in BOOLEAN /\ l.len \in Nat

Sid == 0..(MaxSock - 1)
Pcb == 1..MaxPcb
NoCb == 0
NoPeer == -1
Source == Proc \cup {"net"}   \* who sends the bytes of a stream

VARIABLES net,   \* sock, pcb and hold: the tables
          task,  \* "none", "live" or "zombie"
          call,  \* the call in which a process waits
          mid,   \* the steps left of the call that is being executed
          raced, \* history: a callback has changed what such a call had read
          out,   \* the last datagram received, and the address reported with it
          load   \* in Loads

netvars == <<net, task, call, mid, raced, out, load>>

\* What memset leaves; unix_peer_id 0 is the number of a socket.
Blank == [kind |-> "free", refs |-> 0, conn |-> FALSE, inprog |-> FALSE, err |-> FALSE,
          closed |-> FALSE, rx |-> <<>>, from |-> 0, pcb |-> NoCb, peer |-> 0,
          listening |-> FALSE, head |-> 0, tail |-> 0, count |-> 0,
          ids |-> [k \in 0..(AcceptQ - 1) |-> 0],
          in |-> [s \in Source |-> 0],   \* history: bytes handed over,
          got |-> [s \in Source |-> 0],  \* bytes read,
          lost |-> FALSE]                \* some dropped for want of room
NoPcb == [st |-> "free", arg |-> NoPeer]
NoCall == [op |-> "none"]

Used(t, i) == t.sock[i].kind # "free"
FreeSids(t) == {i \in Sid : ~Used(t, i)}
FreePcbs(t) == {b \in Pcb : t.pcb[b].st = "free"}
Least(S) == CHOOSE x \in S : \A y \in S : x <= y

-----------------------------------------------------------------------------
(* References and the accept queue *)

\* The slot that socket_alloc has found, with the contents k that memset leaves.
socket_alloc(k, kind) == [k EXCEPT !.kind = kind, !.refs = 1]

\* What memset leaves of slot i: nothing, unless a callback has taken the slot since it
\* was found free; then its fields are cleared or not, as memset was past them or not.
Found(i) == {Blank, net.sock[i]}

socket_add_ref(k) == [k EXCEPT !.refs = @ + 1]

\* pending_sock_ids is a ring.
socket_pending_enqueue(t, l, i) ==
  [t EXCEPT !.sock[l].ids[t.sock[l].tail] = i,
            !.sock[l].tail = (@ + 1) % AcceptQ,
            !.sock[l].count = @ + 1]

\* n is the pending_count that the decrement has loaded.
socket_pending_dequeue(t, l, n) ==
  [t EXCEPT !.sock[l].head = (@ + 1) % AcceptQ, !.sock[l].count = n - 1]

FirstPending(k) == k.ids[k.head]

\* Mutant: connections nobody has accepted are forgotten with their listener.
no_pending(k) == FALSE

HasPending(k) == k.listening /\ k.count > 0

\* Mutant: the other end of a pair loses its peer and is not closed.
hang_up_half(t, i) ==
  LET j == t.sock[i].peer
  IN  IF t.sock[i].kind = "unix" /\ j # NoPeer /\ Used(t, j)
      THEN [t EXCEPT !.sock[j].peer = NoPeer] ELSE t

\* The other end of a pair learns that its peer goes.
HangUp(t, i) ==
  LET j == t.sock[i].peer
  IN  IF t.sock[i].kind = "unix" /\ j # NoPeer /\ Used(t, j)
      THEN [t EXCEPT !.sock[j].closed = TRUE, !.sock[j].peer = NoPeer] ELSE t

\* Mutant: lwIP still calls back for the socket that was freed.
keep_arg(t, b) == t

\* tcp_arg(tp, 0) and tcp_close, or udp_remove, for the control block that was loaded.
Detached(t, b) == IF b = NoCb THEN t ELSE [t EXCEPT !.pcb[b] = NoPcb]

Wiped(t, i) == [t EXCEPT !.sock[i] = Blank]

\* socket_drop_ref of a new connection, inside a callback.
DropChild(t, i) == Wiped(Detached(t, t.sock[i].pcb), i)

-----------------------------------------------------------------------------
(* Callbacks of lwIP *)

Bytes(s, lo, n) == [k \in 1..n |-> <<s, lo + k>>]
MinOf(a, b) == IF a <= b THEN a ELSE b

\* What does not fit in rx_buf is acknowledged all the same.
edge_tcp_recv_cb(t, i, n) ==
  LET room == RxSize - Len(t.sock[i].rx)
  IN  [t EXCEPT !.sock[i].rx = @ \o Bytes("net", t.sock[i].in["net"], MinOf(n, room)),
                !.sock[i].in["net"] = @ + n,
                !.sock[i].lost = @ \/ n > room]

edge_tcp_err_cb(t, b) ==
  LET i == t.pcb[b].arg
      u == [t EXCEPT !.pcb[b] = NoPcb]
  IN  IF i = NoPeer THEN u
      ELSE [u EXCEPT !.sock[i].err = TRUE, !.sock[i].inprog = FALSE,
                     !.sock[i].closed = TRUE, !.sock[i].pcb = NoCb]

edge_tcp_connected_cb(t, i) ==
  [t EXCEPT !.sock[i].inprog = FALSE, !.sock[i].err = FALSE, !.sock[i].conn = TRUE]

\* Without a free socket the new control block is aborted.
edge_tcp_accept_cb(t, l, b) ==
  LET i == Least(FreeSids(t))
      u == [t EXCEPT !.sock[i] = [socket_alloc(Blank, "tcp") EXCEPT !.conn = TRUE, !.pcb = b],
                     !.pcb[b] = [st |-> "open", arg |-> i]]
  IN  IF ~t.sock[l].listening \/ FreeSids(t) = {} THEN t
      ELSE IF u.sock[l].count >= AcceptQ THEN DropChild(u, i)
      ELSE socket_pending_enqueue(u, l, i)

edge_udp_recv_cb(t, i, h) ==
  IF t.sock[i].rx # <<>> THEN t ELSE [t EXCEPT !.sock[i].rx = <<h>>, !.sock[i].from = h]

-----------------------------------------------------------------------------
SockInit ==
  /\ net = [sock |-> [i \in Sid |-> Blank], pcb |-> [b \in Pcb |-> NoPcb],
            hold |-> [p \in Proc |-> {}]]
  /\ task = [p \in Proc |-> IF p = First THEN "live" ELSE "none"]
  /\ call = [p \in Proc |-> NoCall]
  /\ mid = <<>> /\ raced = FALSE /\ out = NoCall
  /\ load \in Loads

Calls(c) == c \in load.calls

\* The kernel runs p, which is not in a system call.
Runs(p) == mid = <<>> /\ task[p] = "live" /\ call[p] = NoCall

\* The kernel runs p inside a call that polls.
Polls(p, op) == mid = <<>> /\ task[p] = "live" /\ call[p].op = op

RoomForFd(p) == Cardinality(net.hold[p]) < MaxFd
Opened(t, p, i) == [t EXCEPT !.hold[p] = @ \cup {i}]
Open(n) == MaxSock - Cardinality(FreeSids(net)) + n <= load.open

\* The step of the call being executed, and the steps that take its place.
Doing(op) == mid # <<>> /\ Head(mid).op = op
Then(steps) == mid' = steps \o Tail(mid)
TablesOnly == UNCHANGED <<task, call, raced, out, load>>

DropOf(i) == [op |-> "drop", sid |-> i]
WipeOf(i) == [op |-> "wipe", sid |-> i]

-----------------------------------------------------------------------------
(* socket_drop_ref *)

\* The tests, until a step that the call cannot take back.  The queue is tested again
\* after each of its connections; a listener takes them all with it.
DropStep ==
  /\ Doing("drop")
  /\ LET i == Head(mid).sid
         k == net.sock[i]
     IN  IF ~Used(net, i) THEN UNCHANGED net /\ Then(<<>>)
         ELSE IF k.refs > 1 THEN net' = [net EXCEPT !.sock[i].refs = @ - 1] /\ Then(<<>>)
         ELSE IF HasPending(k)
         THEN UNCHANGED net /\ Then(<<[op |-> "take", sid |-> i, count |-> k.count], DropOf(i)>>)
         ELSE net' = HangUp(net, i) /\ Then(<<[op |-> "close", sid |-> i, pcb |-> k.pcb]>>)
  /\ TablesOnly

DropPending ==
  /\ Doing("take")
  /\ LET l == Head(mid).sid
     IN  /\ net' = socket_pending_dequeue(net, l, Head(mid).count)
         /\ Then(<<DropOf(FirstPending(net.sock[l]))>>)
  /\ TablesOnly

\* used is the first field that memset clears: from there on the slot may be taken.
DropClose ==
  /\ Doing("close")
  /\ net' = Wiped(Detached(net, Head(mid).pcb), Head(mid).sid)
  /\ Then(<<WipeOf(Head(mid).sid)>>)
  /\ TablesOnly

\* The rest of memset.  If a callback has taken the slot meanwhile, it clears what is
\* left of the new socket's fields.
WipeStep ==
  /\ Doing("wipe")
  /\ LET i == Head(mid).sid
         k == net.sock[i]
     IN  net' \in {net, [net EXCEPT !.sock[i] = [Blank EXCEPT !.kind = k.kind, !.refs = k.refs]]}
  /\ Then(<<>>) /\ TablesOnly

-----------------------------------------------------------------------------
(* Opening and closing *)

\* The free slot is found here, and taken one step later.
do_sys_socket(p, kind) ==
  /\ Calls(kind) /\ Runs(p) /\ RoomForFd(p) /\ Open(1) /\ FreeSids(net) # {}
  /\ mid' = <<[op |-> "socket", proc |-> p, kind |-> kind, sid |-> Least(FreeSids(net))]>>
  /\ UNCHANGED net /\ TablesOnly

\* No control block: the slot is cleared again.  No reference slot (file_ref_alloc):
\* the socket is dropped again.
SocketStep ==
  /\ Doing("socket")
  /\ LET p == Head(mid).proc
         i == Head(mid).sid
         kind == Head(mid).kind
         b == Least(FreePcbs(net))
     IN  IF kind # "unix" /\ FreePcbs(net) = {}
         THEN net' = Wiped(net, i) /\ Then(<<WipeOf(i)>>)
         ELSE \E k \in Found(i) :
                LET u == [net EXCEPT !.sock[i] = [socket_alloc(k, kind) EXCEPT !.peer = NoPeer]]
                    t == IF kind = "unix" THEN u
                         ELSE [u EXCEPT !.sock[i].pcb = b, !.pcb[b] =
                                 [st |-> IF kind = "tcp" THEN "closed" ELSE "udp", arg |-> i]]
                IN  \/ net' = Opened(t, p, i) /\ Then(<<>>)
                    \/ net' = t /\ Then(<<DropOf(i)>>)
  /\ TablesOnly

do_sys_socketpair(p) ==
  /\ Calls("pair") /\ Runs(p) /\ Cardinality(net.hold[p]) + 2 <= MaxFd
  /\ Open(2) /\ FreeSids(net) # {}
  /\ mid' = <<[op |-> "pair1", proc |-> p, sid |-> Least(FreeSids(net))]>>
  /\ UNCHANGED net /\ TablesOnly

\* The first end is allocated, and a slot for the second one looked for.
PairStep ==
  /\ Doing("pair1")
  /\ LET i == Head(mid).sid
     IN  \E k \in Found(i) :
           LET t == [net EXCEPT !.sock[i] = socket_alloc(k, "new")]
           IN  IF FreeSids(t) = {} THEN net' = Wiped(t, i) /\ Then(<<WipeOf(i)>>)
               ELSE /\ net' = t
                    /\ Then(<<[op |-> "pair2", proc |-> Head(mid).proc, other |-> i,
                               sid |-> Least(FreeSids(t))]>>)
  /\ TablesOnly

\* Both ends are dropped again when a reference slot is missing and when the numbers of
\* the descriptors cannot be stored.
PairStep2 ==
  /\ Doing("pair2")
  /\ LET p == Head(mid).proc
         i == Head(mid).other
         j == Head(mid).sid
         End(k, peer) == [socket_alloc(k, "unix") EXCEPT !.conn = TRUE, !.peer = peer]
     IN  \E k \in Found(j) :
           LET t == [net EXCEPT !.sock[i] = End(@, j), !.sock[j] = End(k, i)]
           IN  \/ net' = Opened(Opened(t, p, i), p, j) /\ Then(<<>>)
               \/ net' = t /\ Then(<<DropOf(i), DropOf(j)>>)
  /\ TablesOnly

do_sys_listen(p, i) ==
  /\ Calls("listen") /\ Runs(p) /\ i \in net.hold[p]
  /\ net.sock[i].kind = "tcp" /\ net.sock[i].pcb # NoCb /\ ~net.sock[i].listening
  /\ net.pcb[net.sock[i].pcb].st = "closed"
  /\ net' = [net EXCEPT !.sock[i].listening = TRUE, !.pcb[net.sock[i].pcb].st = "listen"]
  /\ UNCHANGED mid /\ TablesOnly

do_sys_close(p, i) ==
  /\ Calls("close") /\ Runs(p) /\ i \in net.hold[p]
  /\ net' = [net EXCEPT !.hold[p] = @ \ {i}]
  /\ mid' = <<DropOf(i)>>
  /\ TablesOnly

-----------------------------------------------------------------------------
(* Calls that wait *)

Enter(p, c) ==
  call' = [call EXCEPT ![p] = c] /\ out' = NoCall /\ UNCHANGED <<task, mid, raced, load>>
Return(p) == Enter(p, NoCall)

do_sys_accept(p, i) ==
  /\ Calls("accept") /\ Runs(p) /\ i \in net.hold[p] /\ net.sock[i].listening
  /\ UNCHANGED net /\ Enter(p, [op |-> "accept", sid |-> i])

\* The end of the waiting loop.
AcceptStep(p) ==
  /\ Polls(p, "accept") /\ net.sock[call[p].sid].count > 0
  /\ mid' = <<[op |-> "accept", proc |-> p, sid |-> call[p].sid,
               count |-> net.sock[call[p].sid].count]>>
  /\ UNCHANGED net /\ TablesOnly

\* The connection is dropped when there is no descriptor or reference for it, and
\* when the address cannot be stored.
AcceptTake ==
  /\ Doing("accept")
  /\ LET p == Head(mid).proc
         l == Head(mid).sid
         i == FirstPending(net.sock[l])
         t == socket_pending_dequeue(net, l, Head(mid).count)
     IN  /\ IF ~Used(net, i) THEN net' = t /\ Then(<<>>)
            ELSE \/ RoomForFd(p) /\ net' = Opened(t, p, i) /\ Then(<<>>)
                 \/ net' = t /\ Then(<<DropOf(i)>>)
         /\ call' = [call EXCEPT ![p] = NoCall]
  /\ UNCHANGED <<task, raced, out, load>>

\* A socket whose control block is gone (an earlier error) is marked connected at
\* once; a second connect fails and clears connect_in_progress, and so does a first
\* one that finds no route.
do_sys_connect(p, i) ==
  /\ Calls("connect") /\ Runs(p) /\ i \in net.hold[p] /\ net.sock[i].kind \in {"tcp", "udp"}
  /\ LET b == net.sock[i].pcb
     IN  IF net.sock[i].kind = "udp" \/ b = NoCb
         THEN net' = [net EXCEPT !.sock[i].conn = TRUE] /\ Return(p)
         ELSE IF net.pcb[b].st # "closed"
         THEN net' = [net EXCEPT !.sock[i].inprog = FALSE, !.sock[i].err = FALSE] /\ Return(p)
         ELSE \/ net' = [net EXCEPT !.sock[i].err = FALSE] /\ Return(p)
              \/ /\ net' = [net EXCEPT !.sock[i].inprog = TRUE, !.sock[i].err = FALSE,
                                       !.pcb[b].st = "syn"]
                 /\ Enter(p, [op |-> "connect", sid |-> i])

ConnectStep(p) ==
  /\ Polls(p, "connect") /\ ~net.sock[call[p].sid].inprog
  /\ UNCHANGED net /\ Return(p)

\* base numbers the bytes of the buffer, off of which have been sent.
do_sys_sendto(p, i, n) ==
  /\ Calls("send") /\ Runs(p) /\ i \in net.hold[p] /\ net.sock[i].kind = "unix"
  /\ LET j == net.sock[i].peer
         base == IF j = NoPeer THEN 0 ELSE net.sock[j].in[p]
     IN  /\ Cardinality({e \in Sid \X Source \X (1..load.bytes) :
                          e[3] <= net.sock[e[1]].in[e[2]]}) + n <= load.bytes
         /\ Enter(p, [op |-> "send", sid |-> i, base |-> base, off |-> 0, len |-> n])
  /\ UNCHANGED net

\* Mutant: a send that goes on takes its bytes from the beginning of the buffer again.
from_the_start(c, n) == [k \in 1..n |-> c.base + k]

\* The numbers of the next n bytes of the buffer.
Chunk(c, n) == [k \in 1..n |-> c.base + c.off + k]

\* One round of the loop: EPIPE if the other end is gone, else as much as there is
\* room for.
SendStep(p) ==
  /\ Polls(p, "send")
  /\ LET c == call[p]
         j == net.sock[c.sid].peer
     IN  IF j = NoPeer \/ ~Used(net, j) THEN UNCHANGED net /\ Return(p)
         ELSE LET n == MinOf(c.len - c.off, RxSize - Len(net.sock[j].rx))
              IN  /\ n > 0
                  /\ net' = [net EXCEPT !.sock[j].rx = @ \o [k \in 1..n |-> <<p, Chunk(c, n)[k]>>],
                                        !.sock[j].in[p] = @ + n]
                  /\ IF c.off + n = c.len THEN Return(p)
                     ELSE Enter(p, [c EXCEPT !.off = @ + n])

\* recvfrom reports the address itself, recvmsg after recvfrom has returned.
do_sys_recvfrom(p, i, n, msg) ==
  /\ Calls(IF msg THEN "recvmsg" ELSE "recv") /\ Runs(p) /\ i \in net.hold[p]
  /\ UNCHANGED net /\ Enter(p, [op |-> "recv", sid |-> i, len |-> n, msg |-> msg])

\* A signal, the time-out of the socket, or O_NONBLOCK ends the waiting; a send and a
\* receive also fail, and move nothing more, if the buffer of the caller is not mapped.
GaveUpAccept(c, k) == c.op = "accept" /\ k.count = 0
GaveUpConnect(c, k) == c.op = "connect" /\ k.inprog
GaveUpSend(c) == c.op = "send"
GaveUpRecv(c) == c.op = "recv"

GiveUp(p) ==
  /\ mid = <<>> /\ task[p] = "live" /\ call[p] # NoCall
  /\ LET c == call[p]
         k == net.sock[c.sid]
     IN  GaveUpAccept(c, k) \/ GaveUpConnect(c, k) \/ GaveUpSend(c) \/ GaveUpRecv(c)
  /\ UNCHANGED net /\ Return(p)

\* How many of the first n bytes of rx come from s.
From(rx, n, s) == Cardinality({k \in 1..n : rx[k][1] = s})

\* The copy to the user; past it the receive no longer waits.
RecvCopy(p) ==
  /\ Polls(p, "recv")
  /\ LET i == call[p].sid
         rx == net.sock[i].rx
         n == MinOf(call[p].len, Len(rx))
     IN  /\ n > 0
         /\ net' = IF net.sock[i].kind = "udp" THEN net
                   ELSE [net EXCEPT !.sock[i].got = [s \in Source |-> @[s] + From(rx, n, s)]]
         /\ mid' = <<[op |-> IF call[p].msg THEN "test" ELSE "addr", proc |-> p, sid |-> i,
                      n |-> n, len |-> 0, msg |-> call[p].msg, data |-> Head(rx)]>>
  /\ TablesOnly

Report ==
  LET c == Head(mid)
  IN  out' = IF net.sock[c.sid].kind = "udp"
             THEN [op |-> "got", data |-> c.data, from |-> net.sock[c.sid].from] ELSE out

RecvAddr ==
  /\ Doing("addr") /\ Report /\ mid' = <<[Head(mid) EXCEPT !.op = "test"]>>
  /\ UNCHANGED <<net, task, call, raced, load>>

\* The comparison of n with rx_len, before what it decides is done.
RecvTest ==
  /\ Doing("test")
  /\ LET c == Head(mid)
         len == Len(net.sock[c.sid].rx)
     IN  mid' = <<[c EXCEPT !.len = len,
                     !.op = IF net.sock[c.sid].kind # "udp" /\ c.n < len THEN "move" ELSE "clear"]>>
  /\ UNCHANGED net /\ TablesOnly

\* Mutant: what is left of a stream is thrown away like the rest of a datagram.
trim_as_datagram(rx, c) == {<<>>}

\* What is left in the buffer.  memmove and rx_len -= n use the rx_len of the test, or,
\* if more has come in since, the subtraction the new one.
Trimmed(rx, c) ==
  LET left(len) == [k \in 1..(len - c.n) |-> IF k + c.n <= c.len THEN rx[k + c.n] ELSE rx[k]]
  IN  IF c.op = "move" THEN {left(c.len), left(Len(rx))} ELSE {<<>>}

RecvTrim ==
  /\ Doing("move") \/ Doing("clear")
  /\ LET c == Head(mid)
     IN  /\ \E rx \in Trimmed(net.sock[c.sid].rx, c) : net' = [net EXCEPT !.sock[c.sid].rx = rx]
         /\ IF c.msg THEN mid' = <<[c EXCEPT !.op = "name"]>> /\ UNCHANGED call
            ELSE mid' = <<>> /\ call' = [call EXCEPT ![c.proc] = NoCall]
  /\ UNCHANGED <<task, raced, out, load>>

RecvName ==
  /\ Doing("name") /\ Report
  /\ mid' = <<>> /\ call' = [call EXCEPT ![Head(mid).proc] = NoCall]
  /\ UNCHANGED <<net, task, raced, load>>

\* The end of recvfrom on a stream whose other end is gone.
RecvEof(p) ==
  /\ Polls(p, "recv")
  /\ LET k == net.sock[call[p].sid] IN k.rx = <<>> /\ k.closed /\ k.kind # "udp"
  /\ UNCHANGED net /\ Return(p)

-----------------------------------------------------------------------------
(* Processes, and lwIP *)

fd_clone_after_fork(t, p, q) ==
  [t EXCEPT !.hold[q] = t.hold[p],
            !.sock = [i \in Sid |-> IF i \in t.hold[p] THEN socket_add_ref(t.sock[i]) ELSE t.sock[i]]]

Fork(p, q) ==
  /\ Calls("fork") /\ Runs(p) /\ task[q] = "none"
  /\ net' = fd_clone_after_fork(net, p, q)
  /\ task' = [task EXCEPT ![q] = "live"]
  /\ UNCHANGED <<call, mid, raced, out, load>>

\* One drop for every descriptor (in the order of the sockets' numbers), after which the
\* task is st.
fd_proc_release(p, st) ==
  /\ net' = [net EXCEPT !.hold[p] = {}]
  /\ mid' = SelectSeq([k \in 1..MaxSock |-> DropOf(k - 1)], LAMBDA s : s.sid \in net.hold[p])
            \o <<[op |-> "task", proc |-> p, st |-> st]>>
  /\ TablesOnly

Exit(p) ==
  Calls("exit") /\ Runs(p) /\ p # First /\ fd_proc_release(p, "zombie")

\* A task killed while it waits keeps its descriptors until it is reaped.
Killed(p) ==
  /\ Calls("kill") /\ mid = <<>> /\ task[p] = "live" /\ p # First
  /\ task' = [task EXCEPT ![p] = "zombie"] /\ call' = [call EXCEPT ![p] = NoCall]
  /\ UNCHANGED <<net, mid, raced, out, load>>

Reaped(p) ==
  mid = <<>> /\ task[p] = "zombie" /\ fd_proc_release(p, "none")

TaskStep ==
  /\ Doing("task")
  /\ task' = [task EXCEPT ![Head(mid).proc] = Head(mid).st]
  /\ Then(<<>>)
  /\ UNCHANGED <<net, call, raced, out, load>>

\* The callback that makes t of the tables comes after the step being executed has read
\* what it goes on with: a slot that was free or is being cleared, the queue of a
\* listener, a control block, the length of a buffer, the sender of a datagram.
Tears(t) ==
  /\ mid # <<>>
  /\ LET c == Head(mid)
         changes(f) == t.sock[c.sid][f] # net.sock[c.sid][f]
     IN  \/ c.op \in {"socket", "pair1", "pair2", "wipe"} /\ changes("kind")
         \/ c.op \in {"take", "accept", "close"} /\ changes("count")
         \/ c.op = "close" /\ changes("pcb")
         \/ c.op \in {"move", "clear"} /\ changes("rx")
         \/ c.op = "name" /\ changes("from")

\* Callbacks come when a call polls or in the timer interrupt.
Network(t) ==
  /\ mid # <<>> => load.irq
  /\ net' = t
  /\ raced' = (raced \/ Tears(t))
  /\ UNCHANGED <<task, call, mid, out, load>>

\* The control block b is in state st and has not been given up by its socket.
Attached(b, st) == net.pcb[b].st = st /\ net.pcb[b].arg # NoPeer

TcpData(b) ==
  \E n \in 1..load.len :
    /\ Attached(b, "open") /\ net.sock[net.pcb[b].arg].in["net"] + n <= load.bytes
    /\ Network(edge_tcp_recv_cb(net, net.pcb[b].arg, n))

TcpFin(b) ==
  /\ Attached(b, "open") /\ ~net.sock[net.pcb[b].arg].closed
  /\ Network([net EXCEPT !.sock[net.pcb[b].arg].closed = TRUE])

TcpError(b) ==
  net.pcb[b].st \in {"syn", "open"} /\ Network(edge_tcp_err_cb(net, b))

TcpConnected(b) ==
  /\ Attached(b, "syn")
  /\ Network(edge_tcp_connected_cb([net EXCEPT !.pcb[b].st = "open"], net.pcb[b].arg))

TcpNewConnection(b) ==
  /\ Attached(b, "listen") /\ FreePcbs(net) # {}
  /\ Network(edge_tcp_accept_cb(net, net.pcb[b].arg, Least(FreePcbs(net))))

UdpDatagram(b) ==
  \E h \in Sender : Attached(b, "udp") /\ Network(edge_udp_recv_cb(net, net.pcb[b].arg, h))

SockNext ==
  \/ \E p \in Proc :
       \/ \E kind \in {"unix", "tcp", "udp"} : do_sys_socket(p, kind)
       \/ do_sys_socketpair(p)
       \/ \E i \in Sid : do_sys_listen(p, i) \/ do_sys_close(p, i) \/ do_sys_accept(p, i)
                         \/ do_sys_connect(p, i)
       \/ \E i \in Sid, n \in 1..load.len :
            do_sys_sendto(p, i, n) \/ \E msg \in BOOLEAN : do_sys_recvfrom(p, i, n, msg)
       \/ AcceptStep(p) \/ ConnectStep(p) \/ SendStep(p) \/ GiveUp(p)
       \/ RecvCopy(p) \/ RecvEof(p)
       \/ \E q \in Proc : Fork(p, q)
       \/ Exit(p) \/ Killed(p) \/ Reaped(p)
  \/ SocketStep \/ PairStep \/ PairStep2 \/ AcceptTake
  \/ DropStep \/ DropPending \/ DropClose \/ WipeStep \/ TaskStep
  \/ RecvAddr \/ RecvTest \/ RecvTrim \/ RecvName
  \/ \E b \in Pcb : TcpData(b) \/ TcpFin(b) \/ TcpError(b) \/ TcpConnected(b)
                    \/ TcpNewConnection(b) \/ UdpDatagram(b)

SockSpec == SockInit /\ [][SockNext]_netvars

-----------------------------------------------------------------------------
(* Properties.  They are claimed until a callback tears a call (raced). *)

\* How many accept queues a socket is in, counting repetitions.
Queued(i) ==
  Cardinality({e \in Sid \X (0..(AcceptQ - 1)) :
                 /\ e[2] < net.sock[e[1]].count
                 /\ net.sock[e[1]].ids[(net.sock[e[1]].head + e[2]) % AcceptQ] = i})

\* Between calls a socket is counted once for every descriptor, of a dead task too, and
\* once while it waits to be accepted: it is freed when the last of them goes and not
\* before, through the error paths of socket, socketpair and accept as well, and with
\* callbacks coming in between the steps of these calls.
RefsExact ==
  ~raced /\ mid = <<>> =>
    \A i \in Sid : net.sock[i].refs = Cardinality({p \in Proc : i \in net.hold[p]}) + Queued(i)

\* A socket and its control block point at each other, in the middle of calls too: lwIP
\* never calls back with a socket that has been freed, or freed and handed out again.
\* So do the two ends of a socket pair, between calls, until one is freed: nothing sent on
\* a pair reaches a socket that took over the number of a closed one (socket_drop_ref).
LinksMutual ==
  ~raced =>
    /\ \A b \in Pcb : net.pcb[b].arg # NoPeer => net.sock[net.pcb[b].arg].pcb = b
    /\ \A i \in Sid : net.sock[i].pcb # NoCb => net.pcb[net.sock[i].pcb].arg = i
    /\ mid = <<>> => \A i \in Sid : net.sock[i].kind = "unix" /\ net.sock[i].peer # NoPeer =>
         LET j == net.sock[i].peer
         IN  net.sock[j].kind = "unix" /\ net.sock[j].peer = i

\* Between receives, the buffer of a socket pair holds of each sender exactly the bytes it
\* has sent and nobody has read, in the order of its buffers: none is lost, repeated or
\* overtaken however sends that found no room were cut and interleaved.  The same holds
\* for TCP as long as no segment met a buffer too small for it.  The address reported
\* with a datagram is its sender's, by recvfrom and by recvmsg.
ReceivedExact ==
  ~raced =>
    /\ \A i \in Sid, s \in Source :
         LET k == net.sock[i]
         IN  k.kind \in {"unix", "tcp"} /\ ~k.lost /\ ~(mid # <<>> /\ "n" \in DOMAIN Head(mid)
                                                       /\ Head(mid).sid = i)
             => SelectSeq(k.rx, LAMBDA byte : byte[1] = s) = Bytes(s, k.got[s], k.in[s] - k.got[s])
    /\ out # NoCall => out.from = out.data

\* Nobody polls for what cannot come: who waits in connect has a connection attempt
\* under way, who waits in accept a listening control block, and the reader of an
\* empty socket pair another end that is still open.
WaitIsOwed ==
  ~raced =>
    \A p \in Proc : task[p] = "live" /\ call[p] # NoCall =>
      LET k == net.sock[call[p].sid]
      IN  /\ k.kind # "free" /\ call[p].sid \in net.hold[p]
          /\ call[p].op = "connect" /\ k.inprog => k.pcb # NoCb /\ net.pcb[k.pcb].st = "syn"
          /\ call[p].op = "accept" => k.pcb # NoCb /\ net.pcb[k.pcb].st = "listen"
          /\ call[p].op = "recv" /\ k.kind = "unix" /\ k.conn /\ ~k.closed => k.peer # NoPeer
=============================================================================
