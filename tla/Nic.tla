-------------------------------- MODULE Nic --------------------------------
(***************************************************************************)
(* Frames between the wire and the ping sockets: the descriptor rings of   *)
(* src/drivers/e1000/e1000.c, the queues of ICMP packets that              *)
(* src/net/lwip_stack.c keeps beside lwIP, and the calls that read them.   *)
(*                                                                         *)
(* A process polls the ring in its system calls with interrupts on; the    *)
(* timer and, when the line is not shared, the card's interrupt poll it    *)
(* too.  An interrupt runs to its end before the process goes on.  Filling *)
(* in a transmit descriptor, and giving back a receive descriptor, are one *)
(* step each.  lwIP itself is external: of a frame it takes, only what its *)
(* raw callback queues and whether it answers matters here.                *)
(***************************************************************************)
EXTENDS Integers, Sequences, FiniteSets

CONSTANTS RxN, TxN,   \* E1000_RX_DESC_COUNT, E1000_TX_DESC_COUNT
          IpQ,        \* E1000_RX_QUEUE_MAX
          ReplyQ,     \* EDGE_ICMP_REPLY_Q and EDGE_ICMP6_REPLY_Q
          RawQ,       \* EDGE_ICMP_RAW_Q
          NicLoads    \* frames that arrive, calls made, whether the card interrupts

ASSUME NicAssumption == {RxN, TxN} \subseteq Nat \ {0, 1} /\ {IpQ, ReplyQ, RawQ} \subseteq Nat \ {0}

VARIABLES card,   \* head and tail registers, descriptors, pending cause
          drv,    \* g_rx_cur, g_tx_cur, g_rx_ip_count, g_ready of both files
          que,    \* g_reply_q, g_reply6_q, g_raw_icmp_q, and the sockets' rx_buf
          run,    \* what the process and the interrupt are doing
          log,    \* history: frames arrived, handled, given to the card, on the wire
          nload   \* in NicLoads

nvars == <<card, drv, que, run, log, nload>>

Rx == 0..(RxN - 1)
Tx == 0..(TxN - 1)
Socket == {"ping", "ping6", "raw"}
Empty == [no |-> 0, kind |-> "none"]

\* A frame is numbered; its kind says who cares: "echo" and "echo6" bear the id of a ping
\* socket's probe, "icmp" is another ICMP message, "ask" one lwIP answers, and the driver
\* refuses the length of "bad".
Sees(s) == CASE s = "ping" -> {"echo"} [] s = "ping6" -> {"echo6"} [] s = "raw" -> {"echo", "icmp"}
Size(s) == IF s = "raw" THEN RawQ ELSE ReplyQ

-----------------------------------------------------------------------------
(* The card *)

FreeRx == (card.rdt - card.rdh) % RxN

\* A frame is stored while the card has descriptors, and lost otherwise.
Arrive ==
  /\ log.arrived < Len(nload.frames)
  /\ log' = [log EXCEPT !.arrived = @ + 1,
                        !.stored = IF FreeRx = 0 THEN @ ELSE Append(@, log.arrived + 1)]
  /\ card' = IF FreeRx = 0 THEN card
             ELSE [card EXCEPT !.rx[card.rdh] = [no |-> log.arrived + 1,
                                                 kind |-> nload.frames[log.arrived + 1]],
                               !.dd = @ \cup {card.rdh}, !.rdh = (@ + 1) % RxN, !.icr = TRUE]
  /\ UNCHANGED <<drv, que, run, nload>>

Transmit ==
  /\ card.tdh # card.tdt
  /\ card' = [card EXCEPT !.tdd = @ \cup {card.tdh}, !.tdh = (@ + 1) % TxN]
  /\ log' = [log EXCEPT !.wire = Append(@, card.tx[card.tdh])]
  /\ UNCHANGED <<drv, que, run, nload>>

-----------------------------------------------------------------------------
(* e1000_send_frame, up to its wait *)


SendReady == drv.txcur \in card.tdd

Fill(cd, f) ==
  [cd EXCEPT !.tx[drv.txcur] = f, !.tdd = @ \ {drv.txcur}, !.tdt = (drv.txcur + 1) % TxN]

\* Each frame sent is a new number; a process's frame is reported, an answer is not.
Given == Len(log.given) + 1

-----------------------------------------------------------------------------
(* Handling a frame *)

\* The first free slot, else the first slot.
edge_queue_ipv4_icmp_packet(q, f) ==
  LET free == {i \in DOMAIN q : q[i] = Empty}
  IN  [q EXCEPT ![IF free = {} THEN 1 ELSE CHOOSE i \in free : \A j \in free : i <= j] = f]

\* Every IPv4 ICMP packet goes to the raw queue; those of a probe to the queue of replies too.
edge_queue_icmp_reply(f) ==
  [s \in Socket |-> IF f.kind \in Sees(s) THEN edge_queue_ipv4_icmp_packet(que.q[s], f) ELSE que.q[s]]

Queued(f) == drv.up /\ \E s \in Socket : f.kind \in Sees(s)

\* lwIP gets the frame once lwip_stack_init has finished.
edge_lwip_rx_frame_cb(f) ==
  que' = IF Queued(f) THEN [que EXCEPT !.q = edge_queue_icmp_reply(f)] ELSE que

Full(f) == \E s \in Socket : f.kind \in Sees(s) /\ \A i \in 1..Size(s) : que.q[s][i] # Empty

Answers(f) == drv.up /\ f.kind = "ask" /\ SendReady

e1000_handle_rx_frame(f) ==
  /\ edge_lwip_rx_frame_cb(f)
  /\ card' = IF Answers(f) THEN Fill(card, Given) ELSE card
  /\ drv' = [drv EXCEPT !.txcur = IF Answers(f) THEN (@ + 1) % TxN ELSE @,
                        !.ipq = IF f.kind \in {"echo", "icmp"} /\ @ < IpQ THEN @ + 1 ELSE @]
  /\ log' = [log EXCEPT !.handled = Append(@, f.no),
                        !.given = IF Answers(f) THEN Append(@, Given) ELSE @,
                        !.owed = IF Queued(f) THEN @ \cup {f.no} ELSE @,
                        !.over = @ \/ (Queued(f) /\ Full(f))]

-----------------------------------------------------------------------------
(* e1000_poll_rx, by the process or by an interrupt *)

Pending == drv.cur \in card.dd
Turn(who) == who = "irq" \/ run.irq.pc = "none"
Polls(who) == run[who].pc = "rx" /\ Turn(who)

\* A frame is handled; its descriptor is looked at again only when it is given back.
PollFrame(who) ==
  LET f == card.rx[drv.cur]
  IN  /\ Polls(who) /\ Pending
      /\ IF f.kind = "bad"
         THEN log' = [log EXCEPT !.handled = Append(@, f.no)] /\ UNCHANGED <<card, drv, que>>
         ELSE e1000_handle_rx_frame(f)
      /\ run' = [run EXCEPT ![who].pc = "give", ![who].d = drv.cur]
      /\ UNCHANGED nload

Cleared(d) == card.dd \ {d}

\* Mutant: the card is given the descriptor after the one that was handled.
TailAhead == (drv.cur + 1) % RxN

NewTail == drv.cur

\* The descriptor that was handled is cleared; the tail follows g_rx_cur as it is now.
PollGive(who) ==
  /\ run[who].pc = "give" /\ Turn(who)
  /\ card' = [card EXCEPT !.dd = Cleared(run[who].d), !.rdt = NewTail]
  /\ drv' = [drv EXCEPT !.cur = (@ + 1) % RxN]
  /\ run' = [run EXCEPT ![who].pc = "rx"]
  /\ UNCHANGED <<que, log, nload>>

PollEnd(who) ==
  /\ Polls(who) /\ ~Pending
  /\ run' = [run EXCEPT ![who].pc = CASE who = "irq" -> "none"
                                      [] run.task.call = "poll" -> "idle"
                                      [] OTHER -> "look"]
  /\ UNCHANGED <<card, drv, que, log, nload>>

\* The card's interrupt reads (and clears) the cause; the timer's tick polls in any case.
Interrupted == run.task.pc = "give"

e1000_irq_handler ==
  /\ nload.irq /\ card.icr /\ drv.ready /\ run.irq.pc = "none"
  /\ Interrupted => nload.nested
  /\ card' = [card EXCEPT !.icr = FALSE]
  /\ run' = [run EXCEPT !.irq.pc = "rx"]
  /\ log' = [log EXCEPT !.nested = @ \/ Interrupted]
  /\ UNCHANGED <<drv, que, nload>>

TimerTick ==
  /\ drv.up /\ run.irq.pc = "none" /\ Pending
  /\ Interrupted => nload.nested
  /\ run' = [run EXCEPT !.irq.pc = "rx"]
  /\ log' = [log EXCEPT !.nested = @ \/ Interrupted]
  /\ UNCHANGED <<card, drv, que, nload>>

-----------------------------------------------------------------------------
(* The calls of a process *)

CanCall == run.task.pc = "idle" /\ run.irq.pc = "none" /\ run.calls < nload.calls

\* lwip_stack_poll in a system call that waits.
CallPoll ==
  /\ CanCall /\ drv.up
  /\ run' = [run EXCEPT !.task.pc = "rx", !.task.call = "poll", !.calls = @ + 1]
  /\ UNCHANGED <<card, drv, que, log, nload>>

\* A read of a ping or a raw socket; one packet waits in the socket until it is read.
CallRecv(s) ==
  /\ CanCall /\ drv.up
  /\ run' = [run EXCEPT !.task.pc = IF que.sock[s] # Empty THEN "read" ELSE "rx",
                        !.task.call = s, !.calls = @ + 1]
  /\ UNCHANGED <<card, drv, que, log, nload>>

Waiting(s) == {i \in 1..Size(s) : que.q[s][i] # Empty}

\* lwip_stack_recv_icmp_reply_for_id and its likes: the first slot in use is copied to the socket...
RecvCopy ==
  LET s == run.task.call
      i == CHOOSE j \in Waiting(s) : \A m \in Waiting(s) : j <= m
  IN  /\ run.task.pc = "look" /\ Turn("task")
      /\ IF Waiting(s) = {}
         THEN run' = [run EXCEPT !.task.pc = "idle"] /\ UNCHANGED que
         ELSE /\ que' = [que EXCEPT !.sock[s] = que.q[s][i]]
              /\ run' = [run EXCEPT !.task.pc = "free", !.task.d = i]
      /\ UNCHANGED <<card, drv, log, nload>>

\* ...and marked free.
RecvFree ==
  LET s == run.task.call
  IN  /\ run.task.pc = "free" /\ Turn("task")
      /\ que' = [que EXCEPT !.q[s][run.task.d] = Empty]
      /\ run' = [run EXCEPT !.task.pc = "read"]
      /\ UNCHANGED <<card, drv, log, nload>>

Consumed == [que EXCEPT !.sock[run.task.call] = Empty]

RecvRead ==
  LET s == run.task.call
  IN  /\ run.task.pc = "read" /\ Turn("task")
      /\ log' = [log EXCEPT !.read[s] = Append(@, que.sock[s].no)]
      /\ que' = Consumed
      /\ run' = [run EXCEPT !.task.pc = "idle"]
      /\ UNCHANGED <<card, drv, nload>>

\* lwip_stack_send_icmp_echo, through edge_lwip_linkoutput, to e1000_send_frame.
CallSend ==
  /\ CanCall /\ drv.up
  /\ IF SendReady
     THEN /\ card' = Fill(card, Given)
          /\ drv' = [drv EXCEPT !.txcur = (@ + 1) % TxN]
          /\ log' = [log EXCEPT !.given = Append(@, Given)]
          /\ run' = [run EXCEPT !.task.pc = "sent", !.task.d = drv.txcur, !.task.no = Given,
                                !.calls = @ + 1]
     ELSE run' = [run EXCEPT !.calls = @ + 1] /\ UNCHANGED <<card, drv, log>>
  /\ UNCHANGED <<que, nload>>

SendWait ==
  /\ run.task.pc = "sent" /\ Turn("task") /\ run.task.d \in card.tdd
  /\ run' = [run EXCEPT !.task.pc = "idle"]
  /\ log' = [log EXCEPT !.reported = @ \cup {run.task.no}]
  /\ UNCHANGED <<card, drv, que, nload>>

\* The frame stays with the card, and may still go out.
SendTimeout ==
  /\ run.task.pc = "sent" /\ Turn("task") /\ run.task.d \notin card.tdd
  /\ run' = [run EXCEPT !.task.pc = "idle"]
  /\ UNCHANGED <<card, drv, que, log, nload>>

-----------------------------------------------------------------------------
(* Boot *)

e1000_init ==
  /\ ~drv.ready
  /\ card' = [card EXCEPT !.rdt = RxN - 1, !.tdd = Tx]
  /\ drv' = [drv EXCEPT !.ready = TRUE]
  /\ UNCHANGED <<que, run, log, nload>>

\* Between the two, frames are handled without lwIP.
lwip_stack_init ==
  /\ drv.ready /\ ~drv.up /\ run.irq.pc = "none"
  /\ drv' = [drv EXCEPT !.up = TRUE]
  /\ UNCHANGED <<card, que, run, log, nload>>

NicInit ==
  /\ nload \in NicLoads
  /\ card = [rdh |-> 0, rdt |-> 0, dd |-> {}, rx |-> [i \in Rx |-> Empty], icr |-> FALSE,
             tdh |-> 0, tdt |-> 0, tdd |-> {}, tx |-> [i \in Tx |-> 0]]
  /\ drv = [cur |-> 0, txcur |-> 0, ipq |-> 0, ready |-> FALSE, up |-> FALSE]
  /\ que = [q |-> [s \in Socket |-> [i \in 1..Size(s) |-> Empty]],
            sock |-> [s \in Socket |-> Empty]]
  /\ run = [task |-> [pc |-> "idle", call |-> "poll", d |-> 0, no |-> 0],
            irq |-> [pc |-> "none", d |-> 0], calls |-> 0]
  /\ log = [arrived |-> 0, stored |-> <<>>, handled |-> <<>>, given |-> <<>>, wire |-> <<>>,
            reported |-> {}, owed |-> {}, read |-> [s \in Socket |-> <<>>], over |-> FALSE, nested |-> FALSE]

NicNext ==
  \/ e1000_init \/ lwip_stack_init
  \/ Arrive \/ Transmit \/ e1000_irq_handler \/ TimerTick
  \/ \E who \in {"task", "irq"} : PollFrame(who) \/ PollGive(who) \/ PollEnd(who)
  \/ CallPoll \/ CallSend \/ SendWait \/ SendTimeout
  \/ \E s \in Socket : CallRecv(s)
  \/ RecvCopy \/ RecvFree \/ RecvRead

-----------------------------------------------------------------------------
IsPrefixOf(s, t) == Len(s) <= Len(t) /\ s = SubSeq(t, 1, Len(s))
Numbers(s) == {s[i] : i \in DOMAIN s}

\* The frames the card stores are handled once each and in the order of their arrival, by
\* whichever of the process, the card's interrupt and the timer polls, as long as no
\* interrupt polls between a process's handling of a frame and its giving back the
\* descriptor.
FramesOnceInOrder == ~log.nested => IsPrefixOf(log.handled, log.stored)

\* With the same proviso, whenever nobody is polling and no frame waits at g_rx_cur, the
\* card holds all its receive descriptors but one: reception never starves.
ReceiverFed ==
  (/\ ~log.nested /\ drv.ready
   /\ run.task.pc \notin {"rx", "give"} /\ run.irq.pc = "none" /\ ~Pending)
    => FreeRx = RxN - 1

\* What goes out on the wire is what was given to the card, unaltered and in order: no
\* buffer is filled again while the card may still read it, even after e1000_send_frame
\* has timed out.
WireFollowsSends == IsPrefixOf(log.wire, log.given)

\* A frame that e1000_send_frame reports as sent has gone out.
ReportedIsSent == log.reported \subseteq Numbers(log.wire)

\* Until a queue overflows, every ICMP packet a socket should see is in its queue, held by
\* the socket, or has been read from it, and none is read twice: the interrupts that queue
\* packets while a call looks for one lose and repeat nothing.
Owed(s) == {n \in log.owed : nload.frames[n] \in Sees(s)}

RepliesReadOnce ==
  ~log.over /\ ~log.nested
    => \A s \in Socket :
         /\ \A i, j \in DOMAIN log.read[s] : log.read[s][i] = log.read[s][j] => i = j
         /\ Owed(s) = Numbers(log.read[s]) \cup {que.q[s][i].no : i \in Waiting(s)}
                       \cup ({que.sock[s].no} \ {0})
         /\ que.sock[s].no \notin Numbers(log.read[s])

\* e1000_poll_rx and the reads of ping sockets: no frame is lost, repeated or overtaken on its
\* way from the card, the card keeps its descriptors, and a socket reads each ICMP packet
\* meant for it once.
ReceptionExact == FramesOnceInOrder /\ ReceiverFed /\ RepliesReadOnce

=============================================================================
