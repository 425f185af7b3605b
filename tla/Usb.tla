-------------------------------- MODULE Usb --------------------------------
(***************************************************************************)
(* USB mice, from the host controller to the mouse buffer: usb.c, uhci.c   *)
(* and xhci.c of src/drivers/usb.                                          *)
(*                                                                         *)
(* usb_init brings controllers up and enumerates devices with interrupts   *)
(* on; usb_poll does the rest from the timer interrupt.  Both wait for the *)
(* xHCI by polling its event ring, and what they find there may enumerate  *)
(* or drop a device, which waits in turn: the calls in progress are the    *)
(* stack stk, with an interrupt's calls above those it interrupted.        *)
(* Descriptors are abstracted to the kind of device.  A timer tick that    *)
(* would find nothing to do, and a poll that finds no event, change        *)
(* nothing and are left out; so is the hand-over from the BIOS.            *)
(***************************************************************************)
EXTENDS Integers, Sequences, FiniteSets

CONSTANTS EvN, CmdN, TrN,   \* entries of the event, command and transfer rings
          Budget,           \* events one call of xhci_consume_events handles
          HwSlots, Tracked, \* slots of the controller, XHCI_MAX_TRACKED_SLOTS
          QhN, TdN,         \* UHCI_QH_POOL_COUNT, UHCI_TD_POOL_COUNT
          EnumDepth,        \* USB_MAX_ENUM_DEPTH
          StackDepth,       \* how deep the kernel stack lets calls nest
          UsbLoads          \* controllers, devices, reports, faults and plugging

ASSUME UsbAssumption == {EvN, CmdN, TrN, StackDepth} \subseteq Nat \ {0, 1} /\ Tracked <= HwSlots

VARIABLES usb,   \* what usb_controller_t, uhci_controller_t and xhci_controller_t hold
          hc,    \* rings, contexts and registers the controllers read and write
          stk,   \* the calls in progress
          ulog,  \* history
          uload  \* in UsbLoads

uvars == <<usb, hc, stk, ulog, uload>>

Port == 1..Len(uload.ports)
Nothing == [kind |-> "none", kids |-> <<>>]
NoPtr == -1
HidEp == 3     \* the doorbell index of the mouse's endpoint
Mouse == [kind |-> "mouse", kids |-> <<>>]

-----------------------------------------------------------------------------
(* Calls in progress *)

Frame(pc) == [pc |-> pc, port |-> 0, slot |-> 0, no |-> 0, n |-> 1, csc |-> FALSE, r |-> "start", dev |-> Nothing]
Top == stk[Len(stk)]
At(pc) == stk # <<>> /\ Top.pc = pc
Under == SubSeq(stk, 1, Len(stk) - 1)
Now(f) == Append(Under, f)

\* The top call goes on as g once its callee f has returned.
Enter(g, f) == IF Len(stk) >= StackDepth THEN <<Frame("overflow")>> ELSE Append(Now(g), f)
Results(r) == [Under EXCEPT ![Len(Under)].r = r]
InIrq == \E i \in DOMAIN stk : stk[i].pc \in {"poll", "ack"}
Waits == \E i \in DOMAIN stk : stk[i].pc \in {"cwait", "xwait"}

-----------------------------------------------------------------------------
(* Rings.  A transfer request block bears the cycle bit of the lap it was  *)
(* written in; the last entry of a ring links to the first and toggles.    *)

xhci_ring_init(n) ==
  [enq |-> 0, ccs |-> 1, deq |-> 0, hcs |-> 1, n |-> n - 1,
   trb |-> [i \in 0..(n - 2) |-> [cyc |-> 0, op |-> "none", slot |-> 0, no |-> 0]]]

xhci_ring_enqueue(r, op, s, no) ==
  [r EXCEPT !.trb[r.enq] = [cyc |-> r.ccs, op |-> op, slot |-> s, no |-> no],
            !.enq = (@ + 1) % r.n,
            !.ccs = IF r.enq = r.n - 1 THEN 1 - @ ELSE @]

\* The controller's side: a block is its own when the cycle bits agree.
Has(r) == r.trb[r.deq].cyc = r.hcs
AtHead(r) == r.trb[r.deq]
Advance(r) == [r EXCEPT !.deq = (@ + 1) % r.n, !.hcs = IF r.deq = r.n - 1 THEN 1 - @ ELSE @]

\* An event, written when there is room up to the pointer the driver last reported.
EvRoom == (hc.enq + 1) % EvN # hc.erdp
Event(type) == [cyc |-> 0, type |-> type, port |-> 0, ptr |-> NoPtr, slot |-> 0, ep |-> 0, ok |-> TRUE, no |-> 0]
Post(h, e) == [h EXCEPT !.ev[h.enq] = [e EXCEPT !.cyc = h.pcs],
                        !.enq = (@ + 1) % EvN, !.pcs = IF h.enq = EvN - 1 THEN 1 - @ ELSE @]

-----------------------------------------------------------------------------
(* The xHCI controller and its devices *)

MayFail == ulog.faults < uload.faults
Counted(ok) == [ulog EXCEPT !.faults = IF ok THEN @ ELSE @ + 1]
FreeSlots == (1..HwSlots) \ hc.on

HcCommand ==
  LET t == AtHead(hc.cmd)
      s == IF t.op # "enable" THEN t.slot
           ELSE IF FreeSlots = {} THEN 0 ELSE CHOOSE x \in FreeSlots : \A y \in FreeSlots : x <= y
  IN  /\ usb.running /\ Has(hc.cmd) /\ EvRoom
      /\ \E ok \in {TRUE} \cup {~MayFail} :
           /\ hc' = Post([hc EXCEPT !.cmd = Advance(@),
                                    !.on = IF ~ok THEN @ ELSE IF t.op = "disable" THEN @ \ {s} ELSE (@ \cup {s}) \ {0}],
                         [Event("cmd") EXCEPT !.ptr = hc.cmd.deq, !.slot = s, !.ok = ok /\ s # 0, !.no = t.no])
           /\ ulog' = [Counted(ok) EXCEPT !.again = @ \/ t.no <= ulog.ran, !.ran = t.no]
      /\ UNCHANGED <<usb, stk, uload>>

\* The blocks of a control transfer up to its last.
Status(r) == LET two == Advance(r) IN IF AtHead(two).op = "data" THEN Advance(two) ELSE two

\* A stalled control endpoint answers no more: the driver never resets it.
HcControl(s) ==
  LET r == hc.ep0[s]
      dev == hc.dev[usb.slot[s].port]
  IN  /\ s \in hc.on /\ Has(r) /\ <<s, 1>> \notin hc.halted /\ dev # Nothing /\ EvRoom
      /\ \E ok \in {TRUE} \cup {~MayFail} :
           /\ hc' = IF ok
                    THEN Post([hc EXCEPT !.ep0[s] = Advance(Status(r)), !.ctrl[s] = [no |-> AtHead(r).no, dev |-> dev]],
                              [Event("xfer") EXCEPT !.ptr = Status(r).deq, !.slot = s, !.ep = 1, !.no = AtHead(r).no])
                    ELSE Post([hc EXCEPT !.halted = @ \cup {<<s, 1>>}],
                              [Event("xfer") EXCEPT !.ptr = r.deq, !.slot = s, !.ep = 1, !.ok = FALSE, !.no = AtHead(r).no])
           /\ ulog' = Counted(ok)
      /\ UNCHANGED <<usb, stk, uload>>

\* A mouse reports while a block waits on its interrupt endpoint; an error stops that too.
HcReport(s) ==
  LET r == hc.intr[s]
      no == Len(ulog.made) + 1
  IN  /\ s \in hc.on /\ Has(r) /\ <<s, HidEp>> \notin hc.halted /\ EvRoom
      /\ hc.dev[usb.slot[s].port] = Mouse /\ no <= Len(uload.reports)
      /\ \E ok \in {TRUE} \cup {~MayFail} :
           /\ hc' = Post([hc EXCEPT !.intr[s] = Advance(@), !.rep[s] = IF ok THEN no ELSE @,
                                    !.halted = IF ok THEN @ ELSE @ \cup {<<s, HidEp>>}],
                         [Event("xfer") EXCEPT !.ptr = r.deq, !.slot = s, !.ep = HidEp, !.ok = ok, !.no = AtHead(r).no])
           /\ ulog' = [Counted(ok) EXCEPT !.made = IF ok THEN Append(@, no) ELSE @]
      /\ UNCHANGED <<usb, stk, uload>>

\* A device comes or goes; the port reports a change it has not reported yet.
Plug(p) ==
  /\ usb.running /\ ulog.plugs < uload.plugs /\ EvRoom
  /\ LET h == [hc EXCEPT !.dev[p] = IF @ = Nothing THEN Mouse ELSE Nothing, !.csc = @ \cup {p}]
     IN  hc' = IF p \in hc.csc THEN h ELSE Post(h, [Event("port") EXCEPT !.port = p])
  /\ ulog' = [ulog EXCEPT !.plugs = @ + 1]
  /\ UNCHANGED <<usb, stk, uload>>

-----------------------------------------------------------------------------
(* Commands and transfers, and waiting for them *)

NoWait == [ptr |-> NoPtr, done |-> FALSE, ok |-> FALSE, slot |-> 0, ep |-> 0, no |-> 0]

\* xhci_cmd_submit_wait up to its loop, for a caller that goes on as g.
Submit(g, u, h, op, s) ==
  /\ usb' = [u EXCEPT !.cmdw = [NoWait EXCEPT !.ptr = hc.cmd.enq]]
  /\ hc' = [h EXCEPT !.cmd = xhci_ring_enqueue(@, op, s, ulog.no + 1)]
  /\ stk' = Enter(g, [Frame("cwait") EXCEPT !.no = ulog.no + 1])
  /\ ulog' = [ulog EXCEPT !.no = @ + 1]

\* The blocks of a control transfer; one with no data has two.
Staged(r, s, data, no) ==
  LET one == xhci_ring_enqueue(r, "setup", s, no)
      two == IF data THEN xhci_ring_enqueue(one, "data", s, no) ELSE one
  IN  [ring |-> xhci_ring_enqueue(two, "status", s, no), ptr |-> two.enq]

\* xhci_control_transfer up to the loop of xhci_wait_transfer.
Transfer(g, s, data) ==
  LET t == Staged(hc.ep0[s], s, data, ulog.no + 1)
  IN  /\ usb' = [usb EXCEPT !.xferw = [NoWait EXCEPT !.ptr = t.ptr, !.slot = s, !.ep = 1]]
      /\ hc' = [hc EXCEPT !.ep0[s] = t.ring]
      /\ stk' = Enter(g, [Frame("xwait") EXCEPT !.slot = s, !.no = ulog.no + 1, !.n = IF data THEN 3 ELSE 2])
      /\ ulog' = [ulog EXCEPT !.no = @ + 1]

EventWaits == hc.ev[usb.deq].cyc = usb.ccs

xhci_poll_events ==
  /\ At("cwait") \/ At("xwait")
  /\ EventWaits
  /\ stk' = Enter(Top, [Frame("events") EXCEPT !.n = Budget])
  /\ UNCHANGED <<usb, hc, ulog, uload>>

\* The result is the one the wait was given, whoever it was meant for.
WaitDone ==
  /\ At("cwait") /\ usb.cmdw.done
  /\ usb' = [usb EXCEPT !.cmdw.ptr = NoPtr]
  /\ LET c == Results(IF usb.cmdw.ok THEN "ok" ELSE "fail")
     IN  stk' = IF c[Len(c)].pc = "enabled" THEN [c EXCEPT ![Len(c)].slot = usb.cmdw.slot] ELSE c
  /\ ulog' = [ulog EXCEPT !.wrong = @ \/ (usb.cmdw.ok /\ usb.cmdw.no # Top.no)]
  /\ UNCHANGED <<hc, uload>>

TransferDone ==
  /\ At("xwait") /\ usb.xferw.done
  /\ usb' = [usb EXCEPT !.xferw.ptr = NoPtr]
  /\ stk' = Results(IF usb.xferw.ok THEN "ok" ELSE "fail")
  /\ ulog' = [ulog EXCEPT !.wrong = @ \/ (usb.xferw.ok /\ hc.ctrl[Top.slot].no # Top.no)]
  /\ UNCHANGED <<hc, uload>>

\* The controller is slow, or will never answer.
Silent == IF At("cwait") THEN ~Has(hc.cmd)
          ELSE \/ ~Has(hc.ep0[Top.slot]) \/ <<Top.slot, 1>> \in hc.halted
               \/ Top.slot \notin hc.on \/ hc.dev[usb.slot[Top.slot].port] = Nothing

UsbTimeout ==
  /\ \/ At("cwait") /\ ~usb.cmdw.done /\ usb' = [usb EXCEPT !.cmdw.ptr = NoPtr]
     \/ At("xwait") /\ ~usb.xferw.done /\ usb' = [usb EXCEPT !.xferw.ptr = NoPtr]
  /\ ~EventWaits
  /\ ~Silent => MayFail
  /\ stk' = Results("fail")
  /\ ulog' = [ulog EXCEPT !.faults = IF Silent THEN @ ELSE @ + 1]
  /\ UNCHANGED <<hc, uload>>

-----------------------------------------------------------------------------
(* Reports *)

\* usb_hid_process_boot_report: what the report says; a first byte that can be a report
\* number is taken for one when another byte follows the three.
Decoded(rep) ==
  LET off == IF Len(rep) >= 4 /\ rep[1] < 8 /\ rep[2] < 32 THEN 1 ELSE 0
  IN  [buttons |-> rep[off + 1] % 8, dx |-> rep[off + 2], dy |-> rep[off + 3],
       wheel |-> IF off + 4 <= Len(rep) THEN rep[off + 4] ELSE 0]

usb_hid_process_boot_report(l, no) == [l EXCEPT !.got = Append(@, [no |-> no, says |-> Decoded(uload.reports[no])])]

xhci_hid_rearm_interrupt(h, s) == [h EXCEPT !.intr[s] = xhci_ring_enqueue(@, "normal", s, 0)]

\* Mutant: any completion ends a wait.
AnyEvent(w, e) == w.ptr # NoPtr

OwnEvent(w, e) == w.ptr # NoPtr /\ e.ptr = w.ptr

\* An error ends the wait whichever block of the endpoint it is about.
ForWait(w, e) == w.ptr # NoPtr /\ e.slot = w.slot /\ e.ep = w.ep /\ (OwnEvent(w, e) \/ ~e.ok)

ForMouse(e) ==
  e.slot \in DOMAIN usb.slot /\ usb.slot[e.slot].ready /\ e.ep = HidEp /\ e.ptr = usb.slot[e.slot].pend

xhci_handle_transfer_event(e) ==
  CASE ForWait(usb.xferw, e) ->
         /\ usb' = [usb EXCEPT !.xferw = [@ EXCEPT !.done = TRUE, !.ok = e.ok]]
         /\ UNCHANGED <<hc, ulog>>
    [] ~ForWait(usb.xferw, e) /\ ForMouse(e) ->
         /\ hc' = xhci_hid_rearm_interrupt(hc, e.slot)
         /\ usb' = [usb EXCEPT !.slot[e.slot].pend = hc.intr[e.slot].enq, !.mouse = @ \/ e.ok]
         /\ ulog' = IF e.ok THEN usb_hid_process_boot_report(ulog, hc.rep[e.slot]) ELSE ulog
    [] OTHER -> UNCHANGED <<usb, hc, ulog>>

-----------------------------------------------------------------------------
(* xhci_consume_events *)

Mapped(p) == usb.p2s[p] # 0
Plugged(p) == hc.dev[p] # Nothing

\* What a call started while another waits for the controller makes of the rest.
Nested(l) == [l EXCEPT !.hot = @ \/ Waits]

HandleEvent ==
  LET e == hc.ev[usb.deq]
      on == [Top EXCEPT !.pc = "advance"]
  IN  /\ At("events") /\ EventWaits /\ Top.n > 0
      /\ CASE e.type = "port" /\ ~Plugged(e.port) ->
                stk' = Enter(on, [Frame("gone") EXCEPT !.port = e.port]) /\ ulog' = Nested(ulog) /\ UNCHANGED <<usb, hc>>
           [] e.type = "port" /\ Plugged(e.port) /\ e.port \in hc.csc ->
                stk' = Enter(on, [Frame("enum") EXCEPT !.port = e.port]) /\ ulog' = Nested(ulog) /\ UNCHANGED <<usb, hc>>
           [] e.type = "cmd" ->
                /\ usb' = IF OwnEvent(usb.cmdw, e)
                          THEN [usb EXCEPT !.cmdw = [@ EXCEPT !.done = TRUE, !.ok = e.ok, !.slot = e.slot, !.no = e.no]]
                          ELSE usb
                /\ stk' = Now(on) /\ UNCHANGED <<hc, ulog>>
           [] e.type = "xfer" -> xhci_handle_transfer_event(e) /\ stk' = Now(on)
           [] OTHER -> stk' = Now(on) /\ UNCHANGED <<usb, hc, ulog>>
      /\ UNCHANGED uload

NextEvent ==
  /\ At("advance")
  /\ usb' = [usb EXCEPT !.deq = (@ + 1) % EvN, !.ccs = IF usb.deq = EvN - 1 THEN 1 - @ ELSE @]
  /\ stk' = Now([Top EXCEPT !.pc = "events", !.n = @ - 1])
  /\ UNCHANGED <<hc, ulog, uload>>

\* The controller learns how far the driver has come.
EventsDone ==
  /\ At("events") /\ (EventWaits => Top.n = 0)
  /\ hc' = [hc EXCEPT !.erdp = usb.deq]
  /\ stk' = Under
  /\ UNCHANGED <<usb, ulog, uload>>

-----------------------------------------------------------------------------
(* xhci_enumerate_root_port and xhci_mark_port_disconnected *)

NoSlotYet == [online |-> FALSE, port |-> 0, ready |-> FALSE, pend |-> NoPtr]
Online(p) == Mapped(p) /\ usb.slot[usb.p2s[p]].online

EnumStart ==
  /\ At("enum")
  /\ IF ~Plugged(Top.port) \/ Online(Top.port)
     THEN stk' = Under /\ UNCHANGED <<usb, hc, ulog>>
     ELSE Submit([Top EXCEPT !.pc = "enabled"], usb, hc, "enable", 0)
  /\ UNCHANGED uload

\* Blocks come from a pool that nothing is given back to.
EnumSlot ==
  LET s == Top.slot
      f == [Top EXCEPT !.pc = IF usb.dma >= 4 THEN "addressed" ELSE "failed"]
      u == [usb EXCEPT !.slot[s] = [NoSlotYet EXCEPT !.online = usb.dma >= 4, !.port = Top.port],
                       !.p2s[Top.port] = IF usb.dma >= 4 THEN s ELSE 0,
                       !.dma = IF @ >= 4 THEN @ - 4 ELSE 0]
  IN  /\ At("enabled")
      /\ IF Top.r = "fail" \/ s \notin DOMAIN usb.slot
         THEN stk' = Under /\ UNCHANGED <<usb, hc, ulog>>
         ELSE Submit(f, u, [hc EXCEPT !.ep0[s] = xhci_ring_init(TrN), !.intr[s] = xhci_ring_init(TrN),
                                       !.halted = @ \ {<<s, 1>>, <<s, HidEp>>}],
                     IF usb.dma >= 4 THEN "address" ELSE "disable", s)
      /\ UNCHANGED uload

EnumAddressed ==
  LET u == [usb EXCEPT !.slot[Top.slot].online = FALSE, !.p2s[Top.port] = 0]
  IN  /\ At("addressed")
      /\ IF Top.r = "ok"
         THEN stk' = Now([Top EXCEPT !.pc = "config", !.n = 1, !.r = "start"]) /\ UNCHANGED <<usb, hc, ulog>>
         ELSE Submit([Top EXCEPT !.pc = "failed"], u, hc, "disable", Top.slot)
      /\ UNCHANGED uload

EnumFailed ==
  /\ At("failed") /\ stk' = Under /\ UNCHANGED <<usb, hc, ulog, uload>>

GoneStart ==
  /\ At("gone")
  /\ IF ~Mapped(Top.port) THEN stk' = Under /\ UNCHANGED <<usb, hc, ulog>>
     ELSE Submit([Top EXCEPT !.pc = "unmap"], [usb EXCEPT !.slot[usb.p2s[Top.port]].online = FALSE], hc,
                 "disable", usb.p2s[Top.port])
  /\ UNCHANGED uload

GoneEnd ==
  /\ At("unmap")
  /\ usb' = [usb EXCEPT !.p2s[Top.port] = 0]
  /\ stk' = Under
  /\ UNCHANGED <<hc, ulog, uload>>

\* xhci_configure_hid.  Steps 1 to 3 fetch descriptors, 4 and 5 configure the endpoint
\* without and with endpoint 0, 6 sets the configuration, 7 the protocol, 8 the idle rate.
xhci_parse_hid_config(s) == hc.ctrl[s].dev.kind = "mouse"

AfterStep(n, r) ==
  CASE n = 3 /\ r = "ok" /\ xhci_parse_hid_config(Top.slot) /\ usb.dma >= 2 -> 4
    [] n \in {1, 2} /\ r = "ok" -> n + 1
    [] n = 4 -> IF r = "ok" THEN 6 ELSE 5
    [] n \in {5, 6} /\ r = "ok" -> n + 1
    [] n \in {7, 8} -> n + 1
    [] OTHER -> 0

\* The step to take now: the first, or the one after the step that has just returned.
StepNow == IF Top.r = "start" THEN 1 ELSE AfterStep(Top.n, Top.r)

Configure ==
  LET s == Top.slot
      n == StepNow
      f == [Top EXCEPT !.n = n]
  IN  /\ At("config")
      /\ CASE n \in {4, 5} ->
                Submit(f, IF n = 4 THEN [usb EXCEPT !.dma = @ - 2] ELSE usb,
                       IF n = 4 THEN [hc EXCEPT !.intr[s] = xhci_ring_init(TrN)] ELSE hc, "config", s)
           [] n \in {1, 2, 3, 6, 7, 8} /\ usb.slot[s].online -> Transfer(f, s, n <= 3)
           [] n \in {1, 2, 3, 6, 7, 8} /\ ~usb.slot[s].online ->
                stk' = Now([f EXCEPT !.r = "fail"]) /\ UNCHANGED <<usb, hc, ulog>>
           [] n = 9 ->
                /\ usb' = [usb EXCEPT !.slot[s].ready = TRUE, !.slot[s].pend = hc.intr[s].enq]
                /\ hc' = xhci_hid_rearm_interrupt(hc, s)
                /\ stk' = Under /\ UNCHANGED ulog
           [] OTHER -> stk' = Under /\ UNCHANGED <<usb, hc, ulog>>
      /\ UNCHANGED uload

-----------------------------------------------------------------------------
(* UHCI: transfers, enumeration and the mouse's queue *)

\* uhci_control_transfer: a queue head, blocks for the request and its data, the descriptors,
\* and the outcome.  Nothing is given back, so that a transfer that timed out can still
\* complete without harm.
Blocks(tds) == IF tds > 2 THEN 2 ELSE 1
Capped(a, b) == IF a <= b THEN a ELSE b
Spent(tds) == IF usb.qh = 0 \/ tds = 0 THEN usb
              ELSE [usb EXCEPT !.qh = @ - 1, !.dma = @ - Capped(@, Blocks(tds)),
                               !.td = IF usb.dma < Blocks(tds) THEN @ ELSE @ - Capped(@, tds)]
Short(tds) == tds > 0 /\ (usb.qh = 0 \/ usb.dma < Blocks(tds) \/ usb.td < tds)
Outcomes(tds) == IF Short(tds) THEN {FALSE} ELSE {TRUE} \cup {~MayFail}

\* The transfers of usb_enumerate_uhci_addr and, for each port, of the two loops over ports:
\* how many descriptors (none for the reset of a root port), and whether the device is given
\* up when it fails.
Step(tds, must) == [tds |-> tds, must |-> must]
uhci_port_reset_enable == Step(0, TRUE)
Script(pc) ==
  CASE pc = "uaddr" -> <<Step(5, TRUE), Step(4, TRUE), Step(7, TRUE), Step(2, FALSE)>>
    [] pc = "uroot" -> <<uhci_port_reset_enable, Step(3, TRUE), Step(2, TRUE)>>
    [] pc = "uhub" -> <<Step(2, FALSE), Step(3, TRUE), Step(2, FALSE), Step(2, FALSE), Step(2, FALSE), Step(3, TRUE),
                        Step(3, TRUE), Step(2, TRUE)>>
    [] pc = "udesc" -> <<Step(3, TRUE)>>
    [] pc = "umouse" -> <<Step(2, FALSE), Step(2, FALSE)>>
Uhci == {"uaddr", "uroot", "uhub", "udesc", "umouse"}

\* The devices below a frame; a port's device is enumerated while the loop stands at it.
Kid(f) == f.dev.kids[f.port]
Loop(f) == f.pc \in {"uroot", "uhub"}
Absent(f) == Loop(f) /\ f.n = (IF f.pc = "uroot" THEN 1 ELSE 3) /\ Kid(f) = Nothing

\* The frame goes to its next port, or returns.
Onward(f) == IF Loop(f) /\ f.port < Len(f.dev.kids) THEN Now([f EXCEPT !.port = @ + 1, !.n = 1]) ELSE Under

UhciStep ==
  LET f == Top
  IN  /\ stk # <<>> /\ Top.pc \in Uhci /\ f.n <= Len(Script(f.pc))
      /\ IF Absent(f) THEN stk' = Onward(f) /\ UNCHANGED <<usb, ulog>>
         ELSE \E ok \in Outcomes(Script(f.pc)[f.n].tds) :
                /\ usb' = Spent(Script(f.pc)[f.n].tds)
                /\ stk' = IF Script(f.pc)[f.n].must /\ ~ok THEN Onward(f) ELSE Now([f EXCEPT !.n = @ + 1])
                /\ ulog' = IF Short(Script(f.pc)[f.n].tds) THEN ulog ELSE Counted(ok)
      /\ UNCHANGED <<hc, uload>>

\* usb_parse_cfg_for_classes: what the interfaces of a device's configuration make it.
HasClass(dev, class) == dev.kind = class

\* The queue of the mouse: a queue head, a descriptor and a block, in that order.
uhci_intr_queue_open ==
  /\ usb' = [usb EXCEPT !.qh = @ - Capped(@, 1), !.td = IF usb.qh = 0 THEN @ ELSE @ - Capped(@, 1),
                        !.dma = IF 0 \in {usb.qh, usb.td} THEN @ ELSE @ - Capped(@, 1),
                        !.uready = 0 \notin {usb.qh, usb.td, usb.dma}, !.tog = 0]
  /\ hc' = [hc EXCEPT !.uactive = usb'.uready]

\* The transfers of a frame are done: a port's device is enumerated, a hub's ports are
\* visited unless it is too deep, and the first mouse of the controller gets a queue.
UhciDone ==
  LET f == Top
      next == Onward(f)
  IN  /\ stk # <<>> /\ Top.pc \in Uhci /\ f.n > Len(Script(f.pc))
      /\ CASE Loop(f) ->
                stk' = Append(next, [Frame("uaddr") EXCEPT !.dev = Kid(f), !.no = f.no + (IF f.pc = "uhub" THEN 1 ELSE 0)])
                /\ UNCHANGED <<usb, hc>>
           [] f.pc = "uaddr" ->
                stk' = (IF HasClass(f.dev, "hub") THEN Now([f EXCEPT !.pc = "udesc", !.n = 1])
                        ELSE IF HasClass(f.dev, "mouse") /\ ~usb.uready THEN Now([f EXCEPT !.pc = "umouse", !.n = 1])
                        ELSE Under)
                /\ UNCHANGED <<usb, hc>>
           [] f.pc = "udesc" ->
                stk' = (IF f.no < EnumDepth /\ f.dev.kids # <<>>
                        THEN Now([f EXCEPT !.pc = "uhub", !.n = 1, !.port = 1, !.no = @ + 1]) ELSE Under)
                /\ UNCHANGED <<usb, hc>>
           [] f.pc = "umouse" -> uhci_intr_queue_open /\ stk' = Under
      /\ UNCHANGED <<ulog, uload>>

\* The mouse answers the descriptor with the toggle it expects, or not at all; a report with
\* the other toggle is dropped by the controller.
UhciReport ==
  /\ hc.uactive /\ Len(ulog.made) < Len(uload.reports)
  /\ \E ok \in {TRUE} \cup {~MayFail} :
       /\ hc' = IF ok /\ hc.utog # usb.tog THEN [hc EXCEPT !.utog = 1 - @]
                ELSE [hc EXCEPT !.uactive = FALSE, !.uerror = ~ok, !.utog = IF ok THEN 1 - @ ELSE @,
                                   !.urep = IF ok THEN Len(ulog.made) + 1 ELSE @]
       /\ ulog' = [Counted(ok) EXCEPT !.made = IF ok THEN Append(@, Len(@) + 1) ELSE @]
  /\ UNCHANGED <<usb, stk, uload>>


NextToggle(ok) == IF ok THEN 1 - usb.tog ELSE usb.tog

\* uhci_intr_queue_poll and usb_poll_mouse_queues, the last thing a tick does.
MouseQueues ==
  /\ At("poll") /\ Top.n > Len(uload.ports)
  /\ stk' = Under
  /\ IF usb.uready /\ ~hc.uactive
     THEN /\ usb' = [usb EXCEPT !.tog = NextToggle(~hc.uerror), !.mouse = @ \/ ~hc.uerror]
          /\ hc' = [hc EXCEPT !.uactive = TRUE, !.uerror = FALSE]
          /\ ulog' = IF hc.uerror THEN ulog ELSE usb_hid_process_boot_report(ulog, hc.urep)
     ELSE UNCHANGED <<usb, hc, ulog>>
  /\ UNCHANGED uload

-----------------------------------------------------------------------------
(* The timer's tick: usb_poll and xhci_poll_controller *)

PortWork(p) == (~Plugged(p) /\ Mapped(p)) \/ p \in hc.csc
Work4Xhci == usb.running /\ (EventWaits \/ \E p \in Port : PortWork(p))
Work4Uhci == usb.uready /\ ~hc.uactive

\* Ticks fall between any two steps but those of an earlier tick.
UsbTick ==
  /\ ~InIrq /\ ~At("overflow") /\ (Work4Xhci \/ Work4Uhci)
  /\ ~uload.nested => ~\E i \in DOMAIN stk : stk[i].pc = "advance"
  /\ LET t == [Frame("poll") EXCEPT !.n = IF usb.running THEN 0 ELSE Len(uload.ports) + 1]
     IN  stk' = IF Len(stk) >= StackDepth THEN <<Frame("overflow")>> ELSE Append(stk, t)
  /\ ulog' = [ulog EXCEPT !.nested = @ \/ \E i \in DOMAIN stk : stk[i].pc = "advance"]
  /\ UNCHANGED <<usb, hc, uload>>

TickEvents ==
  /\ At("poll") /\ Top.n = 0
  /\ stk' = Enter([Top EXCEPT !.n = 1], [Frame("events") EXCEPT !.n = Budget])
  /\ UNCHANGED <<usb, hc, ulog, uload>>

\* The change bits are read before the work and cleared after it.
TickPort ==
  LET p == Top.n
      g == [Top EXCEPT !.pc = "ack", !.csc = p \in hc.csc]
  IN  /\ At("poll") /\ Top.n \in Port
      /\ CASE ~Plugged(p) /\ Mapped(p) -> stk' = Enter(g, [Frame("gone") EXCEPT !.port = p]) /\ ulog' = Nested(ulog)
           [] Plugged(p) /\ p \in hc.csc -> stk' = Enter(g, [Frame("enum") EXCEPT !.port = p]) /\ ulog' = Nested(ulog)
           [] OTHER -> stk' = Now(g) /\ UNCHANGED ulog
      /\ UNCHANGED <<usb, hc, uload>>

TickAck ==
  /\ At("ack")
  /\ hc' = IF Top.csc THEN [hc EXCEPT !.csc = @ \ {Top.n}] ELSE hc
  /\ stk' = Now([Top EXCEPT !.pc = "poll", !.n = @ + 1])
  /\ UNCHANGED <<usb, ulog, uload>>

-----------------------------------------------------------------------------
(* usb_init *)

UhciRoot == [Frame("uroot") EXCEPT !.port = 1, !.dev = [kind |-> "hub", kids |-> uload.uhci]]

\* xHCI first, which takes four blocks for its rings and tables; the ports are powered and reset, and their changes cleared, before it runs.
InitXhci ==
  LET up == "xhci" \in uload.ctrls /\ uload.xok /\ usb.dma >= 4
  IN  /\ At("init")
      /\ usb' = IF up THEN [usb EXCEPT !.running = TRUE, !.primary = "xhci", !.dma = @ - 4] ELSE usb
      /\ stk' = IF up THEN Enter([Top EXCEPT !.pc = "rest"], Frame("ports")) ELSE Now([Top EXCEPT !.pc = "rest"])
      /\ UNCHANGED <<hc, ulog, uload>>

xhci_enumerate_root_ports ==
  /\ At("ports")
  /\ stk' = IF Top.n \in Port THEN Enter([Top EXCEPT !.n = @ + 1], [Frame("enum") EXCEPT !.port = Top.n]) ELSE Under
  /\ UNCHANGED <<usb, hc, ulog, uload>>

\* The idle schedule takes a queue head and a descriptor.
uhci_init_controller(u) == [u EXCEPT !.qh = QhN - 1, !.td = TdN - 1, !.dma = @ - 3]

\* Without xHCI the first UHCI that starts is the primary one; beside it, UHCI is started as
\* long as no mouse has reported.  It needs three blocks.  EHCI and OHCI never start.
InitRest ==
  /\ At("rest")
  /\ IF "uhci" \in uload.ctrls /\ (usb.primary = "none" \/ ~usb.mouse) /\ usb.dma >= 3
     THEN /\ usb' = uhci_init_controller([usb EXCEPT !.primary = IF @ = "none" THEN "uhci" ELSE @])
          /\ stk' = Now(UhciRoot)
     ELSE stk' = Under /\ UNCHANGED usb
  /\ UNCHANGED <<hc, ulog, uload>>

UsbInit ==
  /\ uload \in UsbLoads
  /\ usb = [cmdw |-> NoWait, xferw |-> NoWait, deq |-> 0, ccs |-> 1, p2s |-> [p \in Port |-> 0],
            slot |-> [s \in 1..Tracked |-> NoSlotYet], running |-> FALSE, primary |-> "none", mouse |-> FALSE,
            dma |-> uload.dma, qh |-> 0, td |-> 0, uready |-> FALSE, tog |-> 0]
  /\ hc = [cmd |-> xhci_ring_init(CmdN), ep0 |-> [s \in 1..Tracked |-> xhci_ring_init(TrN)],
           intr |-> [s \in 1..Tracked |-> xhci_ring_init(TrN)], rep |-> [s \in 1..Tracked |-> 0],
           ctrl |-> [s \in 1..Tracked |-> [no |-> 0, dev |-> Nothing]],
           ev |-> [i \in 0..(EvN - 1) |-> Event("none")], enq |-> 0, pcs |-> 1, erdp |-> 0,
           on |-> {}, halted |-> {}, dev |-> [p \in Port |-> uload.ports[p]], csc |-> {},
           uactive |-> FALSE, uerror |-> FALSE, utog |-> 0, urep |-> 0]
  /\ stk = <<Frame("init")>>
  /\ ulog = [no |-> 0, ran |-> 0, again |-> FALSE, wrong |-> FALSE, hot |-> FALSE, nested |-> FALSE,
             faults |-> 0, plugs |-> 0, made |-> <<>>, got |-> <<>>]

UsbNext ==
  \/ InitXhci \/ xhci_enumerate_root_ports \/ InitRest \/ UhciStep \/ UhciDone
  \/ xhci_poll_events \/ WaitDone \/ TransferDone \/ UsbTimeout
  \/ HandleEvent \/ NextEvent \/ EventsDone
  \/ EnumStart \/ EnumSlot \/ EnumAddressed \/ EnumFailed \/ Configure \/ GoneStart \/ GoneEnd
  \/ UsbTick \/ TickEvents \/ TickPort \/ TickAck \/ MouseQueues
  \/ HcCommand \/ UhciReport
  \/ \E s \in DOMAIN usb.slot : HcControl(s) \/ HcReport(s)
  \/ \E p \in Port : Plug(p)

-----------------------------------------------------------------------------
\* What xhci_cmd_submit_wait and xhci_control_transfer report as done is done: the result
\* and the data are those of the command or transfer that was waited for, also when an
\* earlier one timed out and is answered late, and the calls end.  This holds as long as no
\* device comes or goes while one waits (hot): then the waits, which share one result, take
\* each other's, and the event of the port, which is still the first, calls its handler
\* again until the stack is full.  The controller runs each command once in any case.
UsbResultsOwn == ~ulog.again /\ (~ulog.hot => ~ulog.wrong /\ ~At("overflow"))

\* The bytes of a report as a mouse without report numbers means them.
Meant(rep) == [buttons |-> rep[1] % 8, dx |-> rep[2], dy |-> rep[3], wheel |-> IF Len(rep) > 3 THEN rep[4] ELSE 0]
LooksNumbered(rep) == Len(rep) >= 4 /\ rep[1] < 8 /\ rep[2] < 32

\* What waits for the mouse's next report, or carries one: a block of the controller's, an
\* event not yet handled, a descriptor.
Waiting4(s) ==
  \/ Has(hc.intr[s]) \/ <<s, HidEp>> \in hc.halted
  \/ \E i \in 0..(EvN - 1) : /\ (i - usb.deq) % EvN < (hc.enq - usb.deq) % EvN
                             /\ hc.ev[i].slot = s /\ hc.ev[i].ep = HidEp /\ hc.ev[i].ptr = usb.slot[s].pend

=============================================================================
