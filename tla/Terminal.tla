------------------------------ MODULE Terminal ------------------------------
(***************************************************************************)
(* Characters on their way to and from processes: the keyboard and mouse   *)
(* rings that interrupts fill (src/keyboard.c), the line discipline of the *)
(* console and the pseudo-terminals (src/sys/syscall.c).                   *)
(*                                                                         *)
(* A process gives up the CPU only in wait_blocking_step; cpu is the       *)
(* console reader that has it.  Interrupts come between any two steps.     *)
(* The rings are sequences of at most the buffer's size.  A character is   *)
(* an ordinary one, or one that the line discipline tells apart; typed, \r *)
(* is \n and 127 is \b; what the console displays is left out.             *)
(*                                                                         *)
(* A behaviour exercises the console, a pty or the mouse (tload.dev).      *)
(***************************************************************************)
EXTENDS FiniteSets, Lists

CONSTANTS Readers,             \* processes that read the console, each its own group
          KbdSize, MouseSize,  \* KBD_BUF_SIZE, MOUSE_BUF_SIZE
          LineMax,             \* sizeof(g_tty_linebuf) - 1
          PtySize,             \* EDGE_PTY_BUF_SIZE
          Letters,             \* the ordinary characters
          TermLoads            \* the device, its settings, what is typed and asked for

\* With those that the line discipline tells apart and those that it puts out.
Chars == Letters \cup {"nl", "cr", "erase", "intr", "eof", "bs", "sp", "^", "C"}

ASSUME TermAssumption == /\ {KbdSize, MouseSize, LineMax, PtySize} \subseteq Nat \ {0}
                         /\ \A l \in TermLoads : l.writes \subseteq Seq(Chars) /\ l.lens \subseteq Nat

VARIABLES con,    \* console: the ring, g_sigint_pending, the line, the foreground group
          rd,     \* what each reader of the console is doing
          tty,    \* g_tty_termios, or the pty's: ICANON, ISIG, ECHO, OPOST with ONLCR
          pt,     \* the pty
          end,    \* what the process at each end of the pty is doing
          ms,     \* the mouse
          tlog,   \* history
          tload   \* in TermLoads

tvars == <<con, rd, tty, pt, end, ms, tlog, tload>>

Modes == [canon : BOOLEAN, isig : BOOLEAN, echo : BOOLEAN, onlcr : BOOLEAN]
Nobody == 0
Idle == [pc |-> "idle", len |-> 0, got |-> <<>>]

-----------------------------------------------------------------------------
(* Lines as they should be: the reference *)

\* One character of input to a line of at most max characters.
EditChar(st, c, max) ==
  CASE c = "erase" -> [st EXCEPT !.cur = IF @ = <<>> THEN @ ELSE Front(@)]
    [] c = "nl"    -> [out |-> st.out \o (IF Len(st.cur) < max THEN Append(st.cur, c) ELSE st.cur),
                       cur |-> <<>>]
    [] OTHER       -> [st EXCEPT !.cur = IF Len(@) < max THEN Append(@, c) ELSE @]

\* What a program should see of the characters in.
Edited(in, max) ==
  LET st == FoldLeft(LAMBDA s, c : EditChar(s, c, max), [out |-> <<>>, cur |-> <<>>], in)
  IN  st.out \o st.cur

-----------------------------------------------------------------------------
(* The keyboard *)

kbd_buf_push_char(ring, c) == IF Len(ring) < KbdSize - 1 THEN Append(ring, c) ELSE ring

\* An arrow is three characters; Ctrl-C is one, and is also counted.
keyboard_handler(key) ==
  /\ tload.dev = "console" /\ tlog.keys < tload.keys
  /\ LET chars == IF key = "arrow" THEN <<"esc", "[", "A">> ELSE <<key>>
     IN  con' = [con EXCEPT !.ring = FoldLeft(kbd_buf_push_char, @, chars),
                            !.pend = IF key = "intr" THEN @ + 1 ELSE @]
  /\ tlog' = [tlog EXCEPT !.keys = @ + 1, !.unsent = @ \/ key = "intr"]
  /\ UNCHANGED <<rd, pt, end, ms, tty, tload>>

\* process_send_signal_pgid: the history forgets the Ctrl-C it was for.
Signalled(l) == [l EXCEPT !.unsent = FALSE, !.sent = TRUE]

syscall_tty_irq_poll ==
  /\ con.pend > 0
  /\ con' = [con EXCEPT !.pend = 0]
  /\ tlog' = Signalled(tlog)
  /\ UNCHANGED <<rd, pt, end, ms, tty, tload>>

\* TIOCSCTTY and TIOCGPGRP make the caller's group the foreground one, TIOCSPGRP a given one.
SetForeground(p) ==
  /\ tload.dev = "console" /\ con.cpu = Nobody /\ tload.toggle /\ con.fg # p
  /\ con' = [con EXCEPT !.fg = p]
  /\ UNCHANGED <<rd, pt, end, ms, tlog, tty, tload>>

\* TCSETS, TCSETSW and, with flush, TCSETSF, by a process while others wait.
SetMode(m, flush) ==
  /\ tload.toggle /\ con.cpu = Nobody /\ tty # m /\ tlog.calls < tload.calls
  /\ tty' = m
  /\ con' = IF flush /\ tload.dev = "console" THEN [con EXCEPT !.line = <<>>, !.pos = 0] ELSE con
  /\ tlog' = [tlog EXCEPT !.calls = @ + 1]
  /\ UNCHANGED <<rd, pt, end, ms, tload>>

\* do_sys_spawn forgets what was typed at the previous program.
Spawn ==
  /\ tload.spawn /\ con.cpu = Nobody /\ con.pend > 0
  /\ con' = [con EXCEPT !.pend = 0]
  /\ tlog' = [tlog EXCEPT !.unsent = FALSE]
  /\ UNCHANGED <<rd, pt, end, ms, tty, tload>>

-----------------------------------------------------------------------------
(* do_sys_read *)

\* The reader's group becomes the foreground one.
ReadCall(p, n) ==
  /\ tload.dev = "console" /\ con.cpu = Nobody /\ rd[p].pc = "idle" /\ tlog.calls < tload.calls
  /\ rd' = [rd EXCEPT ![p] = [pc |-> IF tty.canon THEN "copy" ELSE "raw", len |-> n, got |-> <<>>]]
  /\ con' = [con EXCEPT !.cpu = p, !.fg = p]
  /\ tlog' = [tlog EXCEPT !.calls = @ + 1]
  /\ UNCHANGED <<pt, end, ms, tty, tload>>

Resume(p) ==
  /\ con.cpu = Nobody /\ rd[p].pc \in {"line", "raw"} /\ con.ring # <<>>
  /\ con' = [con EXCEPT !.cpu = p]
  /\ UNCHANGED <<rd, pt, end, ms, tlog, tty, tload>>

Returns(p, r) ==
  /\ rd' = [rd EXCEPT ![p] = Idle]
  /\ tlog' = [tlog EXCEPT !.read = @ \o r]

\* The characters of the collected line, up to its end.
CopyLine(p) ==
  LET r == rd[p]
      c == con.line[con.pos + 1]
      g == Append(r.got, c)
  IN  /\ con.cpu = p /\ r.pc = "copy"
      /\ IF Len(r.got) >= r.len
         THEN Returns(p, r.got) /\ con' = [con EXCEPT !.cpu = Nobody]
         ELSE IF con.pos < Len(con.line)
         THEN /\ con' = [con EXCEPT !.pos = @ + 1, !.cpu = IF c = "nl" THEN Nobody ELSE @]
              /\ IF c = "nl" THEN Returns(p, g)
                 ELSE rd' = [rd EXCEPT ![p].got = g] /\ UNCHANGED tlog
         ELSE /\ con' = [con EXCEPT !.line = <<>>, !.pos = 0]
              /\ rd' = [rd EXCEPT ![p].pc = "line"] /\ UNCHANGED tlog
      /\ UNCHANGED <<pt, end, ms, tty, tload>>

Wait(p) ==
  /\ con.cpu = p /\ rd[p].pc \in {"line", "raw"} /\ con.ring = <<>>
  /\ IF rd[p].got # <<>> /\ rd[p].pc = "raw" THEN Returns(p, rd[p].got) ELSE UNCHANGED <<rd, tlog>>
  /\ con' = [con EXCEPT !.cpu = Nobody]
  /\ UNCHANGED <<pt, end, ms, tty, tload>>

\* Ctrl-C ends the call; a canonical one loses what it had copied.
Interrupt(p) ==
  LET r == rd[p]
  IN  /\ con.cpu = p /\ r.pc \in {"line", "raw"} /\ con.ring # <<>>
      /\ Head(con.ring) = "intr" /\ tty.isig
      /\ con' = [con EXCEPT !.ring = Tail(@), !.pend = 0, !.cpu = Nobody]
      /\ rd' = [rd EXCEPT ![p] = Idle]
      /\ tlog' = [Signalled(tlog) EXCEPT !.read = IF r.pc = "raw" THEN @ \o r.got ELSE @]
      /\ UNCHANGED <<pt, end, ms, tty, tload>>


Taken(d, c) == [d EXCEPT !.ring = Tail(@)]

Ordinary(p) == con.cpu = p /\ con.ring # <<>> /\ (Head(con.ring) = "intr" => ~tty.isig)

LineWith(line, c) ==
  IF c = "erase" THEN (IF line = <<>> THEN line ELSE Front(line))
  ELSE IF Len(line) < LineMax THEN Append(line, c) ELSE line

CollectLine(p) ==
  LET c == Head(con.ring)
  IN  /\ Ordinary(p) /\ rd[p].pc = "line"
      /\ con' = [Taken(con, c) EXCEPT !.line = LineWith(@, c)]
      /\ rd' = [rd EXCEPT ![p].pc = IF c = "nl" THEN "copy" ELSE "line"]
      /\ tlog' = [tlog EXCEPT !.took = Append(@, c)]
      /\ UNCHANGED <<pt, end, ms, tty, tload>>

ReadRaw(p) ==
  LET c == Head(con.ring)
      g == Append(rd[p].got, c)
  IN  /\ Ordinary(p) /\ rd[p].pc = "raw"
      /\ con' = [Taken(con, c) EXCEPT !.cpu = IF Len(g) >= rd[p].len THEN Nobody ELSE @]
      /\ IF Len(g) >= rd[p].len
         THEN /\ rd' = [rd EXCEPT ![p] = Idle]
              /\ tlog' = [tlog EXCEPT !.took = Append(@, c), !.read = @ \o g]
         ELSE /\ rd' = [rd EXCEPT ![p].got = g]
              /\ tlog' = [tlog EXCEPT !.took = Append(@, c)]
      /\ UNCHANGED <<pt, end, ms, tty, tload>>

-----------------------------------------------------------------------------
(* The pty: "m" is the master's end, "s" the slave's *)

Room(ring) == PtySize - Len(ring)
pty_ring_push(ring, c) == IF Len(ring) < PtySize THEN Append(ring, c) ELSE ring

PushRounds(ring, chars) ==
  LET done[i \in 0..Len(chars)] == IF i = 0 THEN ring ELSE pty_ring_push(done[i - 1], chars[i])
  IN  done

Echo(p, chars) == IF tty.echo THEN [p EXCEPT !.s2m = PushRounds(@, chars)[Len(chars)]] ELSE p
NewLine == IF tty.onlcr THEN <<"cr", "nl">> ELSE <<"nl">>
Echoed(c) == IF c \in {"cr", "nl"} /\ tty.onlcr THEN <<"cr", "nl">> ELSE <<c>>

\* Mutant: a backspace can take back the end of the line before.
EraseAnything(ring) == ring # <<>>

CanErase(ring) == ring # <<>> /\ Last(ring) # "nl"

\* One character from the master.
MasterChar(p, c) ==
  IF c = "intr" /\ tty.isig THEN [Echo(p, <<"^", "C", "nl">>) EXCEPT !.sig = @ \cup {p.fg}]
  ELSE IF c = "erase" /\ tty.canon
  THEN IF CanErase(p.m2s) THEN Echo([p EXCEPT !.m2s = Front(@)], <<"bs", "sp", "bs">>) ELSE p
  ELSE [Echo(p, Echoed(c)) EXCEPT !.m2s = Append(@, c)]

NeedSlots(c) == IF c = "nl" THEN Len(NewLine) ELSE 1

SlaveChar(p, c) == [p EXCEPT !.s2m = @ \o (IF c = "nl" THEN NewLine ELSE <<c>>)]

Ring(x, p) == IF x = "m" THEN p.m2s ELSE p.s2m
SlotsFor(x, c) == IF x = "m" THEN 1 ELSE NeedSlots(c)

\* At most as many characters as there is room for when the write starts; it stops before
\* one that does not fit.
WriteChar(x, a, c) ==
  IF a.stop \/ Room(Ring(x, a.p)) < SlotsFor(x, c) THEN [a EXCEPT !.stop = TRUE]
  ELSE [a EXCEPT !.p = IF x = "m" THEN MasterChar(@, c) ELSE SlaveChar(@, c), !.n = @ + 1]

WriteRounds(x, chars) ==
  LET done[i \in 0..Len(chars)] ==
        IF i = 0 THEN [p |-> pt, n |-> 0, stop |-> FALSE] ELSE WriteChar(x, done[i - 1], chars[i])
  IN  done

Written(x, chars) ==
  WriteRounds(x, chars)[IF Room(Ring(x, pt)) < Len(chars) THEN Room(Ring(x, pt)) ELSE Len(chars)]

Peer(x) == IF x = "m" THEN "s" ELSE "m"
PtyCall(x) == tload.dev = "pty" /\ end[x].pc = "idle" /\ x \in pt.open /\ tlog.calls < tload.calls

WriteCall(x, chars) ==
  /\ PtyCall(x)
  /\ end' = [end EXCEPT ![x] = [pc |-> "write", len |-> 0, got |-> chars]]
  /\ tlog' = [tlog EXCEPT !.calls = @ + 1]
  /\ UNCHANGED <<con, rd, pt, ms, tty, tload>>

PtyReadCall(x, n) ==
  /\ PtyCall(x)
  /\ end' = [end EXCEPT ![x] = [pc |-> "read", len |-> n, got |-> <<>>]]
  /\ tlog' = [tlog EXCEPT !.calls = @ + 1]
  /\ UNCHANGED <<con, rd, pt, ms, tty, tload>>

DoWrite(x) ==
  LET w == Written(x, end[x].got)
  IN  /\ end[x].pc = "write" /\ Room(Ring(x, pt)) > 0
      /\ pt' = w.p
      /\ tlog' = [tlog EXCEPT !.wrote[x] = @ \o SubSeq(end[x].got, 1, w.n)]
      /\ end' = [end EXCEPT ![x] = Idle]
      /\ UNCHANGED <<con, rd, ms, tty, tload>>

EndsLine(c) == c \in {"nl", "eof"}

pty_slave_input_have_canonical_line == \E i \in DOMAIN pt.m2s : EndsLine(pt.m2s[i])

pty_slave_read_limit(req) ==
  LET n == IF req > Len(pt.m2s) THEN Len(pt.m2s) ELSE req
      stops == {i \in 1..n : tty.canon /\ EndsLine(pt.m2s[i])}
  IN  IF stops = {} THEN n ELSE CHOOSE i \in stops : \A j \in stops : i <= j

Readable(x) ==
  IF x = "m" THEN pt.s2m # <<>>
  ELSE pt.m2s # <<>> /\ (tty.canon => pty_slave_input_have_canonical_line)

DoRead(x) ==
  LET src == Ring(Peer(x), pt)
      n == IF x = "s" THEN pty_slave_read_limit(end[x].len)
           ELSE IF end[x].len > Len(src) THEN Len(src) ELSE end[x].len
      rest == SubSeq(src, n + 1, Len(src))
  IN  /\ end[x].pc = "read" /\ Readable(x)
      /\ pt' = IF x = "s" THEN [pt EXCEPT !.m2s = rest] ELSE [pt EXCEPT !.s2m = rest]
      /\ end' = [end EXCEPT ![x] = Idle]
      /\ tlog' = [tlog EXCEPT !.seen[x] = @ \o SubSeq(src, 1, n),
                              !.last = IF x = "s" THEN SubSeq(src, 1, n) ELSE @]
      /\ UNCHANGED <<con, rd, ms, tty, tload>>

\* A call that cannot go on ends: the other end is closed, it is not to wait, or a signal
\* is pending.
GivesUp(x) ==
  /\ \/ end[x].pc = "read" /\ ~Readable(x)
     \/ end[x].pc = "write" /\ Room(Ring(x, pt)) = 0
  /\ Peer(x) \in pt.open => (tload.nonblock \/ x \in pt.sig)
  /\ end' = [end EXCEPT ![x] = Idle]
  /\ pt' = IF Peer(x) \in pt.open /\ ~tload.nonblock THEN [pt EXCEPT !.sig = @ \ {x}] ELSE pt
  /\ UNCHANGED <<con, rd, ms, tlog, tty, tload>>

\* What poll_fd_revents says of an end: about reading, and about writing.
PtyReadable(x) ==
  {e \in {"in"} : Ring(Peer(x), pt) # <<>>} \cup {e \in {"hup"} : Peer(x) \notin pt.open}

PtyWritable(x) ==
  IF Peer(x) \notin pt.open THEN {"err"} ELSE {e \in {"out"} : Len(Ring(x, pt)) < PtySize}

\* TIOCSPTLCK by the master, and the openat of the unlocked slave.  Until there is a
\* foreground group, Ctrl-C signals the writer's own.
Unlock ==
  /\ tload.dev = "pty" /\ "m" \in pt.open /\ ~pt.unlocked /\ end["m"].pc = "idle"
  /\ pt' = [pt EXCEPT !.unlocked = TRUE]
  /\ UNCHANGED <<con, rd, end, ms, tlog, tty, tload>>

OpenSlave ==
  /\ tload.dev = "pty" /\ pt.open = {"m"} /\ pt.unlocked /\ ~pt.opened
  /\ pt' = [pt EXCEPT !.open = {"m", "s"}, !.fg = "s", !.opened = TRUE]
  /\ UNCHANGED <<con, rd, end, ms, tlog, tty, tload>>

Close(x) ==
  /\ tload.dev = "pty" /\ x \in pt.open /\ end[x].pc = "idle" /\ tload.close
  /\ pt' = [pt EXCEPT !.open = @ \ {x}]
  /\ UNCHANGED <<con, rd, end, ms, tlog, tty, tload>>

-----------------------------------------------------------------------------
(* The mouse *)

mouse_buf_push_byte(ring, b) == IF Len(ring) < MouseSize - 1 THEN Append(ring, b) ELSE ring

PacketLength(present) == IF present \/ ms.wheel THEN 4 ELSE 3

\* A packet of a mouse with or without a wheel, or of the arrow keys; b is the place of a byte
\* in its packet.
mouse_emit_ps2_packet(present) ==
  /\ tload.dev = "mouse" /\ tlog.keys < tload.keys
  /\ LET bytes == [i \in 1..PacketLength(present) |-> [no |-> tlog.keys + 1, b |-> i]]
     IN  /\ ms' = [ms EXCEPT !.ring = FoldLeft(mouse_buf_push_byte, @, bytes), !.wheel = @ \/ present]
         /\ tlog' = [tlog EXCEPT !.keys = @ + 1,
                                 !.over = @ \/ Len(ms.ring) + Len(bytes) > MouseSize - 1]
  /\ UNCHANGED <<con, rd, pt, end, tty, tload>>

\* keyboard_mouse_read by a process whose call does not wait.
MouseRead(n) ==
  LET k == IF n > Len(ms.ring) THEN Len(ms.ring) ELSE n
  IN  /\ tload.dev = "mouse" /\ tlog.calls < tload.calls
      /\ ms' = [ms EXCEPT !.ring = SubSeq(@, k + 1, Len(@))]
      /\ tlog' = [tlog EXCEPT !.bytes = @ \o SubSeq(ms.ring, 1, k), !.calls = @ + 1]
      /\ UNCHANGED <<con, rd, pt, end, tty, tload>>

-----------------------------------------------------------------------------
TermInit ==
  /\ tload \in TermLoads
  /\ con = [ring |-> <<>>, pend |-> 0, line |-> <<>>, pos |-> 0, fg |-> Nobody, cpu |-> Nobody]
  /\ rd = [p \in Readers |-> Idle]
  /\ pt = [m2s |-> <<>>, s2m |-> <<>>, open |-> {"m"}, unlocked |-> FALSE, opened |-> FALSE,
           fg |-> "m", sig |-> {}]
  /\ tty = tload.mode
  /\ end = [x \in {"m", "s"} |-> Idle]
  /\ ms = [ring |-> <<>>, wheel |-> FALSE]
  /\ tlog = [keys |-> 0, calls |-> 0, unsent |-> FALSE, sent |-> FALSE, took |-> <<>>, read |-> <<>>,
             wrote |-> [x \in {"m", "s"} |-> <<>>], seen |-> [x \in {"m", "s"} |-> <<>>], last |-> <<>>,
             over |-> FALSE, bytes |-> <<>>]

TermNext ==
  \/ \E key \in tload.alphabet : keyboard_handler(key)
  \/ syscall_tty_irq_poll \/ Spawn \/ Unlock \/ OpenSlave
  \/ \E p \in Readers : SetForeground(p)
  \/ \E m \in Modes, flush \in BOOLEAN : SetMode(m, flush)
  \/ \E p \in tload.readers :
       \/ \E n \in tload.lens : ReadCall(p, n)
       \/ Resume(p) \/ CopyLine(p) \/ Wait(p) \/ Interrupt(p) \/ CollectLine(p) \/ ReadRaw(p)
  \/ \E x \in {"m", "s"} :
       \/ \E chars \in tload.writes : WriteCall(x, chars)
       \/ \E n \in tload.lens : PtyReadCall(x, n)
       \/ DoWrite(x) \/ DoRead(x) \/ GivesUp(x) \/ Close(x)
  \/ \E present \in BOOLEAN : mouse_emit_ps2_packet(present)
  \/ \E n \in tload.lens : MouseRead(n)

-----------------------------------------------------------------------------
\* One canonical reader of the console gets what was typed with its corrections made, in
\* order, whatever the lengths it asks for, however its waits and the keys interleave, and
\* for lines longer than the buffer: the line discipline of do_sys_read agrees with the
\* reference.  (A Ctrl-C loses what the interrupted call had copied.)
ConsoleReadsLines ==
  tload.dev = "console" /\ tty.canon /\ ~tload.toggle /\ Cardinality(tload.readers) = 1 /\ ~tlog.sent
    => LET p == CHOOSE q \in tload.readers : TRUE
       IN  tlog.read \o rd[p].got \o SubSeq(con.line, con.pos + 1, Len(con.line))
             = Edited(tlog.took, LineMax)


\* The slave's end of a canonical pty gets what was written to the master with its
\* corrections made, in order; on a raw one it gets exactly what was written.
PtyInputEdited ==
  tload.dev = "pty" /\ ~tload.toggle
    => LET in == SelectSeq(tlog.wrote["m"], LAMBDA c : c = "intr" => ~tty.isig)
       IN  tlog.seen["s"] \o pt.m2s = IF tty.canon THEN Edited(in, Len(in)) ELSE in

\* A canonical read of the slave ends with the line.
PtyReadsOneLine == tty.canon /\ ~tload.toggle => \A i \in DOMAIN tlog.last : EndsLine(tlog.last[i]) => i = Len(tlog.last)

\* Without echo, the master's end gets the characters that the slave's writes returned as
\* written, each newline whole, across short writes into a full buffer; echo or not, no write
\* (do_sys_fd_write) puts more into a buffer than it has places.
PtyOutputWhole ==
  /\ Len(pt.m2s) <= PtySize /\ Len(pt.s2m) <= PtySize
  /\ tload.dev = "pty" /\ ~tty.echo /\ ~tload.toggle
       => tlog.seen["m"] \o pt.s2m
            = FlattenSeq([i \in DOMAIN tlog.wrote["s"] |->
                IF tlog.wrote["s"][i] = "nl" THEN NewLine ELSE <<tlog.wrote["s"][i]>>])

\* poll and a pty agree but for a line that is not finished: whenever a call on an end would
\* wait for the other one, poll does not report that end, except a canonical slave that
\* holds part of a line; and poll reports every end on which a call does not wait.
PtyPollAgrees ==
  tload.dev = "pty" => \A x \in pt.open :
    /\ PtyReadable(x) # {} <=> (Readable(x) \/ Peer(x) \notin pt.open
                                 \/ (x = "s" /\ tty.canon /\ pt.m2s # <<>>))
    /\ PtyWritable(x) # {} <=> (Room(Ring(x, pt)) > 0 \/ Peer(x) \notin pt.open)

\* Until the mouse buffer overflows, a reader that counts bytes can tell where packets
\* start: all packets after the first one of four bytes have four.
PacketsUniform ==
  ~tlog.over
    => LET s == tlog.bytes \o ms.ring
       IN  \A i \in DOMAIN s : s[i].b = 4 =>
             \A j \in DOMAIN s : s[j].no > s[i].no /\ s[j].b = 3 =>
               j < Len(s) /\ s[j + 1].b = 4

\* Keys, characters from a master, movements of the mouse (do_sys_fd_read) and what a slave
\* writes (do_sys_fd_write) reach their reader as lines, packets and output that are whole,
\* come once and in order.
TerminalExact ==
  ConsoleReadsLines /\ PtyInputEdited /\ PtyReadsOneLine /\ PacketsUniform /\ PtyOutputWhole
=============================================================================
