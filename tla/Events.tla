------------------------------- MODULE Events -------------------------------
(***************************************************************************)
(* Waiting and waking (src/sys/syscall.c): poll, select and epoll_wait,    *)
(* sleeps, futexes, eventfds, timerfds, signalfds, the interval timer and  *)
(* the signals that end a wait.                                            *)
(*                                                                         *)
(* Nothing wakes a waiter: every blocking call is a loop that looks at the *)
(* state and calls wait_blocking_step, where other processes run.  A step  *)
(* of Iterate is one turn of such a loop; ecpu is the process between the  *)
(* start of its call and its first wait.  The clock runs all the time.     *)
(*                                                                         *)
(* The descriptors are an eventfd "e", a timerfd "t", a signalfd "s" and   *)
(* an epoll "ep", inherited by all processes, the two ends "pr" and "pw"   *)
(* of a pipe, each held by one process, and "x", which is not open.        *)
(* Time is counted in units of which a millisecond has MsUnits, up to      *)
(* Horizon; a call is made early enough for its timeout to fit.            *)
(***************************************************************************)
EXTENDS Lists

CONSTANTS Procs,       \* processes
          Horizon,     \* bound on the clock
          MsUnits,     \* units of time per millisecond
          EvMax,       \* UINT64_MAX - 1, the largest value of an eventfd's counter
          PipeSize,    \* EDGE_PIPE_SIZE
          MaxWatch,    \* EDGE_EPOLL_MAX_WATCH
          EventLoads   \* a sequence: the calls, signals and handlers of a behaviour

Forever == -1
Signals == {"INT", "TERM", "CHLD", "ALRM"}

\* What a process may ask for: the call, the descriptors and events it is about, a value, an
\* interval, a timeout, and the flags O_NONBLOCK and TFD_TIMER_ABSTIME.
Ops == {"poll", "select", "epoll", "nanosleep", "clock", "futex", "evread", "evwrite", "tfread", "sfread",
        "pread", "pwrite", "pclose", "setitimer", "settime", "add", "mod", "del"}
Fds == {"e", "t", "s", "ep", "pr", "pw", "x"}
Requests == [op : Ops, fds : SUBSET Fds, fd : Fds, ev : SUBSET {"in", "out"}, v : Nat, interval : Nat,
             t : Nat \cup {Forever}, nb : BOOLEAN, abs : BOOLEAN]
Workloads == [calls : [Procs -> SUBSET Requests], n : Nat, handler : [Signals -> {"user", "dfl", "ign"}],
              sigs : SUBSET Signals, nsig : Nat, smask : SUBSET Signals, sem : BOOLEAN, store : BOOLEAN]

ASSUME EventAssumption == /\ Procs \subseteq Nat \ {0}
                          /\ {Horizon, MsUnits, EvMax, PipeSize, MaxWatch} \subseteq Nat \ {0}
                          /\ \A i \in DOMAIN EventLoads : EventLoads[i] \in Workloads

VARIABLES now,    \* boottime_monotonic_us
          ob,     \* the objects behind the descriptors, and a futex word
          tk,     \* per process: its interval timer, pending signals, whether it is alive
          wt,     \* per process: the call it is in
          ecpu,   \* the process that has not waited yet in its call, or 0
          elog,   \* history
          eload   \* which of EventLoads, and all of it but the calls

evars == <<now, ob, tk, wt, ecpu, elog, eload>>

Work == eload.work
NoCall == [op |-> "none"]
Off == [active |-> FALSE, next |-> 0, interval |-> 0]
NoReturn == [op |-> "none", r |-> "ok", took |-> 0, asked |-> 0, handled |-> FALSE, alrm |-> FALSE]

-----------------------------------------------------------------------------
(* Timers and signals *)

\* The expirations of a timerfd that have not been read.
timerfd_expire_count(t) ==
  IF ~t.active \/ now < t.next THEN 0
  ELSE IF t.interval > 0 THEN 1 + ((now - t.next) \div t.interval) ELSE 1

\* Mutant: a periodic timer starts anew when it is read.
Drifts(t, n) == IF t.interval > 0 THEN [t EXCEPT !.next = now + t.interval] ELSE [t EXCEPT !.active = FALSE]

ConsumeExpirations(t, n) ==
  IF t.interval > 0 THEN [t EXCEPT !.next = @ + n * t.interval] ELSE [t EXCEPT !.active = FALSE]

\* An interval timer that is due makes SIGALRM pending and moves on past now.
task_timer_poll(t) ==
  LET i == t.timer
  IN  IF ~i.active \/ now < i.next THEN t
      ELSE [t EXCEPT !.pend = @ \cup {"ALRM"},
                     !.timer = IF i.interval > 0
                               THEN [i EXCEPT !.next = @ + (1 + ((now - @) \div i.interval)) * i.interval]
                               ELSE [i EXCEPT !.active = FALSE, !.next = 0]]

Checked == <<"INT", "TERM", "CHLD", "ALRM">>
Delivered == <<"INT", "TERM", "ALRM", "CHLD">>


\* Whether a pending signal ends a wait, or is dropped by the check, or just stays.
EndsWait(s) == Work.handler[s] = "user" \/ (s \in {"INT", "TERM"} /\ Work.handler[s] = "dfl")
DropsAway(s) == Work.handler[s] = "ign" \/ (s = "CHLD" /\ Work.handler[s] = "dfl")

\* The check every waiting loop makes: the task it leaves, and whether the wait ends.
signal_pending_interrupt(t0) ==
  LET t == task_timer_poll(t0)
      hits == {i \in DOMAIN Checked : Checked[i] \in t.pend /\ EndsWait(Checked[i])}
      gone == {Checked[i] : i \in {j \in DOMAIN Checked :
                 DropsAway(Checked[j]) /\ \A h \in hits : j < h}}
  IN  [task |-> [t EXCEPT !.pend = @ \ gone], hit |-> hits # {}]

\* maybe_deliver_signal_on_sysret: at most one signal is dealt with on the way out of a call.
Deliver(t0) ==
  LET t == task_timer_poll(t0)
      at == {i \in DOMAIN Delivered : Delivered[i] \in t.pend}
      s == Delivered[CHOOSE i \in at : \A j \in at : i <= j]
      dies == Work.handler[s] = "dfl" /\ s \in {"INT", "TERM"}
  IN  IF at = {} THEN [task |-> t, handled |-> FALSE]
      ELSE [task |-> [t EXCEPT !.pend = @ \ {s}, !.alive = ~dies],
            handled |-> dies \/ Work.handler[s] = "user"]

-----------------------------------------------------------------------------
(* Readiness *)

SignalIn(t) == t.pend \cap ob.smask

Open(f) == f # "x" /\ (f = "pr" => ob.pipe.rd > 0) /\ (f = "pw" => ob.pipe.wr > 0)

ReadableFd(t, f) ==
  CASE f = "e" -> ob.counter > 0
    [] f = "t" -> timerfd_expire_count(ob.tf) > 0
    [] f = "s" -> SignalIn(t) # {}
    [] OTHER   -> FALSE

WritableFd(f) == f = "e" => ob.counter < EvMax

\* The two ends of a pipe: each is always ready for what cannot be done with it.
PipeReader(ev) ==
  {e \in ev : e = "in" => ob.pipe.n > 0} \cup {e \in {"hup"} : "in" \in ev /\ ob.pipe.wr = 0}

\* Mutant: a writer is not told that the reader has gone.
WriterUntold(ev) == {e \in ev : e = "out" => ob.pipe.rd > 0 /\ ob.pipe.n < PipeSize}

PipeWriter(ev) ==
  {e \in ev : e = "out" => ob.pipe.rd > 0 /\ ob.pipe.n < PipeSize}
    \cup {e \in {"err"} : "out" \in ev /\ ob.pipe.rd = 0}

\* poll_fd_revents, of anything but an epoll.
Revents(t, f, ev) ==
  CASE ~Open(f)  -> {"nval"}
    [] f = "pr"  -> PipeReader(ev)
    [] f = "pw"  -> PipeWriter(ev)
    [] OTHER     -> {e \in ev : IF e = "in" THEN ReadableFd(t, f) ELSE WritableFd(f)}

\* An epoll is readable if one of its watches is ready.
poll_fd_revents(t, f, ev) ==
  IF f # "ep" THEN Revents(t, f, ev)
  ELSE {e \in ev : e = "in" => \E i \in DOMAIN ob.watch :
                                   Revents(t, ob.watch[i].fd, ob.watch[i].ev) \ {"nval"} # {}}

\* What epoll_wait reports of a watch; without events of its own, it is asked for both.
EpollEvents(t, w) ==
  IF ~Open(w.fd) THEN {}
  ELSE Revents(t, w.fd, IF w.ev = {} THEN {"in", "out"} ELSE w.ev) \cap (w.ev \cup {"err", "hup"})

\* What select reports: an error counts for both sets, the end of a stream for reading.
SelectReady(t, f, ev) ==
  LET rev == poll_fd_revents(t, f, ev)
  IN  ("in" \in ev /\ rev \cap {"in", "hup", "err"} # {}) \/ ("out" \in ev /\ rev \cap {"out", "err"} # {})

-----------------------------------------------------------------------------
(* Calls *)

Timeout(c) == IF c.op \in {"nanosleep", "select"} THEN (c.t \div MsUnits) * MsUnits ELSE c.t

TimedOut(p) == wt[p].call.t # Forever /\ now - wt[p].start >= Timeout(wt[p].call)

BeginCall(p) ==
  /\ ecpu = 0 /\ tk[p].alive /\ wt[p].call.op = "none" /\ elog.calls < Work.n
  /\ \E c \in EventLoads[eload.at].calls[p] :
       /\ c.t # Forever => now + c.t <= Horizon
       /\ wt' = [wt EXCEPT ![p] = [call |-> c, start |-> now]]
  /\ ecpu' = p
  /\ elog' = [elog EXCEPT !.calls = @ + 1, !.last = NoReturn]
  /\ UNCHANGED <<now, ob, tk, eload>>

\* The call returns r with the objects o and the history l, leaving the task t.
EndCall(p, r, t, o, l) ==
  LET d == Deliver(t)
      c == wt[p].call
  IN  /\ tk' = [tk EXCEPT ![p] = d.task]
      /\ wt' = [wt EXCEPT ![p] = [call |-> NoCall, start |-> 0]]
      /\ ob' = o
      /\ ecpu' = 0
      /\ elog' = [l EXCEPT !.last = [op |-> c.op, r |-> r, took |-> now - wt[p].start, asked |-> c.t,
                                     handled |-> d.handled,
                                     alrm |-> "ALRM" \in t.pend /\ Work.handler["ALRM"] # "user"]]
      /\ UNCHANGED <<now, eload>>

\* wait_blocking_step.
Block(p, t) ==
  /\ tk' = [tk EXCEPT ![p] = t]
  /\ ecpu' = 0
  /\ UNCHANGED <<now, ob, wt, elog, eload>>

AtTurn(p, ops) == ecpu \in {p, 0} /\ tk[p].alive /\ wt[p].call.op \in ops

\* do_sys_poll, do_sys_ppoll, do_sys_select and do_sys_pselect6: the signals, the descriptors,
\* the time.
PollTurn(p) ==
  LET c == wt[p].call
      s == signal_pending_interrupt(tk[p])
      ready == {f \in c.fds : IF c.op = "select" THEN SelectReady(s.task, f, c.ev)
                              ELSE poll_fd_revents(s.task, f, c.ev) # {}}
  IN  /\ AtTurn(p, {"poll", "select"})
      /\ IF s.hit THEN EndCall(p, "EINTR", s.task, ob, elog)
         ELSE IF c.op = "select" /\ \E f \in c.fds : ~Open(f) THEN EndCall(p, "EBADF", s.task, ob, elog)
         ELSE IF ready # {} THEN EndCall(p, "ready", s.task, ob, elog)
         ELSE IF TimedOut(p) THEN EndCall(p, "timeout", s.task, ob, elog)
         ELSE Block(p, s.task)

\* do_sys_epoll_wait looks at the signals last.
EpollTurn(p) ==
  LET s == signal_pending_interrupt(tk[p])
  IN  /\ AtTurn(p, {"epoll"})
      /\ IF \E i \in DOMAIN ob.watch : EpollEvents(tk[p], ob.watch[i]) # {}
         THEN EndCall(p, "ready", tk[p], ob, elog)
         ELSE IF TimedOut(p) THEN EndCall(p, "timeout", tk[p], ob, elog)
         ELSE IF s.hit THEN EndCall(p, "EINTR", s.task, ob, elog)
         ELSE Block(p, s.task)

\* do_sys_sleep (also for nanosleep) and do_sys_clock_nanosleep.
SleepTurn(p) ==
  LET s == signal_pending_interrupt(tk[p])
  IN  /\ AtTurn(p, {"nanosleep", "clock"})
      /\ IF TimedOut(p) THEN EndCall(p, "ok", tk[p], ob, elog)
         ELSE IF s.hit THEN EndCall(p, "EINTR", s.task, ob, elog)
         ELSE Block(p, s.task)

\* do_sys_futex: FUTEX_WAIT looks at the word on each turn; FUTEX_WAKE does nothing.
FutexTurn(p) ==
  LET s == signal_pending_interrupt(tk[p])
  IN  /\ AtTurn(p, {"futex"})
      /\ IF ob.word # wt[p].call.v THEN EndCall(p, "ok", tk[p], ob, elog)
         ELSE IF s.hit THEN EndCall(p, "EINTR", s.task, ob, elog)
         ELSE IF TimedOut(p) THEN EndCall(p, "timeout", s.task, ob, elog)
         ELSE Block(p, s.task)

\* A turn of a read or write that cannot go on.
NotNow(p) ==
  LET s == signal_pending_interrupt(tk[p])
  IN  IF wt[p].call.nb THEN EndCall(p, "EAGAIN", tk[p], ob, elog)
      ELSE IF s.hit THEN EndCall(p, "EINTR", s.task, ob, elog)
      ELSE Block(p, s.task)

\* Whether a read, or a write of v, has to wait.
WaitsToRead(t, f) ==
  CASE f = "e"  -> ob.counter = 0
    [] f = "t"  -> timerfd_expire_count(ob.tf) = 0
    [] f = "s"  -> SignalIn(t) = {}
    [] f = "pr" -> ob.pipe.n = 0 /\ ob.pipe.wr > 0

HasRoom(v) == EvMax - ob.counter >= v

WaitsToWrite(f, v) == IF f = "e" THEN ~HasRoom(v) ELSE ob.pipe.n >= PipeSize /\ ob.pipe.rd > 0

EventfdRead(p) ==
  /\ AtTurn(p, {"evread"})
  /\ IF WaitsToRead(tk[p], "e") THEN NotNow(p)
     ELSE LET v == IF Work.sem THEN 1 ELSE ob.counter
          IN  EndCall(p, "ok", tk[p], [ob EXCEPT !.counter = @ - v], [elog EXCEPT !.taken = @ + v])

EventfdWrite(p) ==
  /\ AtTurn(p, {"evwrite"})
  /\ IF WaitsToWrite("e", wt[p].call.v) THEN NotNow(p)
     ELSE LET v == wt[p].call.v
          IN  EndCall(p, "ok", tk[p], [ob EXCEPT !.counter = (@ + v) % (EvMax + 2)],
                      [elog EXCEPT !.wrote = @ + v])

TimerfdRead(p) ==
  LET n == timerfd_expire_count(ob.tf)
  IN  /\ AtTurn(p, {"tfread"})
      /\ IF WaitsToRead(tk[p], "t") THEN NotNow(p)
         ELSE EndCall(p, "ok", tk[p], [ob EXCEPT !.tf = ConsumeExpirations(@, n)],
                      [elog EXCEPT !.fired = @ + n])

\* A read of a signalfd is not ended by other signals, nor does it look at the timer.
SignalfdRead(p) ==
  LET at == {i \in DOMAIN Delivered : Delivered[i] \in SignalIn(tk[p])}
      s == Delivered[CHOOSE i \in at : \A j \in at : i <= j]
  IN  /\ AtTurn(p, {"sfread"})
      /\ IF ~WaitsToRead(tk[p], "s") THEN EndCall(p, "ok", [tk[p] EXCEPT !.pend = @ \ {s}], ob, elog)
         ELSE IF wt[p].call.nb THEN EndCall(p, "EAGAIN", tk[p], ob, elog)
         ELSE Block(p, tk[p])

\* The ends of the pipe.  A writer looks for a reader when it starts and while the pipe is
\* full: one that waited for room may write to nobody.
Fewer(a, b) == IF a < b THEN a ELSE b

PipeRead(p) ==
  /\ AtTurn(p, {"pread"})
  /\ IF ~Open("pr") THEN EndCall(p, "EBADF", tk[p], ob, elog)
     ELSE IF WaitsToRead(tk[p], "pr") THEN NotNow(p)
     ELSE LET n == Fewer(wt[p].call.v, ob.pipe.n)
          IN  EndCall(p, IF n = 0 THEN "eof" ELSE "ok", tk[p], [ob EXCEPT !.pipe.n = @ - n], elog)

PipeWrite(p) ==
  /\ AtTurn(p, {"pwrite"})
  /\ IF ~Open("pw") THEN EndCall(p, "EBADF", tk[p], ob, elog)
     ELSE IF ob.pipe.rd = 0 /\ (ecpu = p \/ ob.pipe.n >= PipeSize) THEN EndCall(p, "EPIPE", tk[p], ob, elog)
     ELSE IF WaitsToWrite("pw", wt[p].call.v) THEN NotNow(p)
     ELSE LET n == Fewer(wt[p].call.v, PipeSize - ob.pipe.n)
          IN  EndCall(p, "ok", tk[p], [ob EXCEPT !.pipe.n = @ + n], elog)

PipeClose(p) ==
  /\ AtTurn(p, {"pclose"})
  /\ IF ~Open(wt[p].call.fd) THEN EndCall(p, "EBADF", tk[p], ob, elog)
     ELSE EndCall(p, "ok", tk[p], IF wt[p].call.fd = "pr" THEN [ob EXCEPT !.pipe.rd = 0]
                                  ELSE [ob EXCEPT !.pipe.wr = 0], elog)

\* Calls that do not wait.  do_sys_setitimer and do_sys_alarm forget a pending SIGALRM.
Setitimer(p) ==
  LET c == wt[p].call
  IN  /\ AtTurn(p, {"setitimer"})
      /\ EndCall(p, "ok", [tk[p] EXCEPT !.pend = @ \ {"ALRM"},
                                       !.timer = IF c.v = 0 THEN [Off EXCEPT !.interval = c.interval]
                                                 ELSE [active |-> TRUE, next |-> now + c.v, interval |-> c.interval]],
                 ob, elog)

do_sys_timerfd_settime(p) ==
  LET c == wt[p].call
      t == IF c.v = 0 THEN [Off EXCEPT !.interval = c.interval]
           ELSE [active |-> TRUE, next |-> (IF c.abs THEN c.v ELSE now + c.v), interval |-> c.interval]
  IN  /\ AtTurn(p, {"settime"})
      /\ EndCall(p, "ok", tk[p], [ob EXCEPT !.tf = t],
                 [elog EXCEPT !.fired = 0, !.first = t.next, !.armed = t.active, !.every = t.interval])

\* The last watch takes the place of the one removed.
RemoveWatch(i) ==
  [j \in 1..(Len(ob.watch) - 1) |-> IF j = i THEN Last(ob.watch) ELSE ob.watch[j]]

do_sys_epoll_ctl(p) ==
  LET c == wt[p].call
      at == {i \in DOMAIN ob.watch : ob.watch[i].fd = c.fd}
      i == CHOOSE j \in at : \A k \in at : j <= k
      Set(w, m) == EndCall(p, "ok", tk[p], [ob EXCEPT !.watch = w], [elog EXCEPT !.map = m])
  IN  /\ AtTurn(p, {"add", "mod", "del"})
      /\ IF c.op = "add" /\ at = {} /\ Len(ob.watch) < MaxWatch
         THEN Set(Append(ob.watch, [fd |-> c.fd, ev |-> c.ev]), elog.map \cup {[fd |-> c.fd, ev |-> c.ev]})
         ELSE IF c.op = "mod" /\ at # {}
         THEN Set([ob.watch EXCEPT ![i].ev = c.ev],
                  {m \in elog.map : m.fd # c.fd} \cup {[fd |-> c.fd, ev |-> c.ev]})
         ELSE IF c.op = "del" /\ at # {}
         THEN Set(RemoveWatch(i), {m \in elog.map : m.fd # c.fd})
         ELSE EndCall(p, "fails", tk[p], ob, elog)

-----------------------------------------------------------------------------
(* Around the calls: the clock, signals from elsewhere, a store to the futex word *)

Tick ==
  /\ now < Horizon
  /\ now' = now + 1
  /\ elog' = [elog EXCEPT !.last = NoReturn]
  /\ UNCHANGED <<ob, tk, wt, ecpu, eload>>

SendSignal(p, s) ==
  /\ ecpu = 0 /\ tk[p].alive /\ s \in Work.sigs /\ elog.sent < Work.nsig
  /\ tk' = [tk EXCEPT ![p].pend = @ \cup {s}]
  /\ elog' = [elog EXCEPT !.sent = @ + 1, !.last = NoReturn]
  /\ UNCHANGED <<now, ob, wt, ecpu, eload>>

Store ==
  /\ ecpu = 0 /\ Work.store /\ ob.word = 0
  /\ ob' = [ob EXCEPT !.word = 1]
  /\ UNCHANGED <<now, tk, wt, ecpu, elog, eload>>

-----------------------------------------------------------------------------
EventsInit ==
  /\ \E i \in DOMAIN EventLoads : eload = [at |-> i, work |-> [EventLoads[i] EXCEPT !.calls = <<>>]]
  /\ now = 0
  /\ ob = [counter |-> 0, tf |-> Off, smask |-> Work.smask, watch |-> <<>>, word |-> 0,
           pipe |-> [n |-> 0, rd |-> 1, wr |-> 1]]
  /\ tk = [p \in Procs |-> [timer |-> Off, pend |-> {}, alive |-> TRUE]]
  /\ wt = [p \in Procs |-> [call |-> NoCall, start |-> 0]]
  /\ ecpu = 0
  /\ elog = [calls |-> 0, sent |-> 0, wrote |-> 0, taken |-> 0, fired |-> 0, first |-> 0, armed |-> FALSE,
             every |-> 0, map |-> {},
             last |-> NoReturn]

Iterate(p) ==
  \/ PollTurn(p) \/ EpollTurn(p) \/ SleepTurn(p) \/ FutexTurn(p)
  \/ EventfdRead(p) \/ EventfdWrite(p) \/ TimerfdRead(p) \/ SignalfdRead(p)
  \/ PipeRead(p) \/ PipeWrite(p) \/ PipeClose(p)
  \/ Setitimer(p) \/ do_sys_timerfd_settime(p) \/ do_sys_epoll_ctl(p)

EventsNext ==
  \/ Tick \/ Store
  \/ \E p \in Procs : \/ BeginCall(p)
                      \/ Iterate(p)
                      \/ \E s \in Work.sigs : SendSignal(p, s)

-----------------------------------------------------------------------------
\* Readers and writers of an eventfd, waiting at its limits, lose nothing: what was written
\* is what was read and what is left.
EventTotal == elog.wrote = elog.taken + ob.counter

\* The counts a periodic timerfd gives to its readers add up to the periods since it was set,
\* however late, often and by whomever it is read.
TimerTotal ==
  elog.armed => elog.fired + timerfd_expire_count(ob.tf)
                  = IF now < elog.first THEN 0
                    ELSE IF elog.every = 0 THEN 1
                    ELSE 1 + ((now - elog.first) \div elog.every)

\* poll_fd_revents and the reads and writes agree: a descriptor is reported, be it for an
\* error or the end of a stream, exactly when reading or writing it does not wait.
PollAgreesWithCalls ==
  \A p \in Procs :
    /\ \A f \in {"e", "t", "s", "pr"} :
         Open(f) => (poll_fd_revents(tk[p], f, {"in"}) = {} <=> WaitsToRead(tk[p], f))
    /\ \A f \in {"e", "pw"} :
         Open(f) => (poll_fd_revents(tk[p], f, {"out"}) = {} <=> WaitsToWrite(f, 1))

\* A sleep or a timed wait that ends for no other reason has lasted as long as asked, but for
\* the fraction of a millisecond that nanosleep, ppoll and select leave out.
NotTooSoon ==
  LET l == elog.last
  IN  /\ l.op = "clock" /\ l.r = "ok" => l.took >= l.asked
      /\ (l.op = "nanosleep" /\ l.r = "ok") \/ l.r = "timeout" => l.took + MsUnits > l.asked

\* A call that fails with EINTR does so for a signal: a handler runs or the process dies on
\* the way out of it.  (maybe_deliver_signal_on_sysret looks at SIGALRM before SIGCHLD and
\* signal_pending_interrupt the other way round: an uncaught SIGALRM takes its place.)
InterruptedIsDelivered ==
  elog.last.r = "EINTR" /\ ~elog.last.alrm => elog.last.handled

\* The watches of an epoll are those added, last changed and not removed, one for each
\* descriptor.
WatchesKept ==
  /\ {ob.watch[i] : i \in DOMAIN ob.watch} = elog.map
  /\ \A i, j \in DOMAIN ob.watch : ob.watch[i].fd = ob.watch[j].fd => i = j

\* The readers of an eventfd or a timerfd are told of every event once.
CountersExact == EventTotal /\ TimerTotal

=============================================================================
