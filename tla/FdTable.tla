------------------------------ MODULE FdTable ------------------------------
(***************************************************************************)
(* The descriptor tables of src/sys/syscall.c: one table per process       *)
(* (g_fd_procs), the reference slots every descriptor holds (g_file_refs), *)
(* and the objects behind descriptors with their own counts: pipes         *)
(* (readers, writers), ptys (masters, slaves) and eventfds, which stand    *)
(* for the kinds with a single count (timerfd, signalfd, epoll).           *)
(*                                                                         *)
(* System calls do not yield here except the two that poll a pipe, so each *)
(* of the others is one step; a read or a write that finds the pipe empty  *)
(* or full stays in the call, with its pointers to the descriptor and to   *)
(* the pipe, while other processes run.                                    *)
(*                                                                         *)
(* load, chosen at the start, is what a behaviour exercises: the system    *)
(* calls that programs make and the sizes of the two tables.               *)
(***************************************************************************)
EXTENDS Naturals, FiniteSets

CONSTANTS Proc, First,           \* process slots, and the one init runs in
          MaxFd, MaxRef,         \* bounds on the sizes of the tables
          Std,                   \* the descriptors fd_ensure_stdio opens
          Pipes, Ptys, Events,   \* the object pools, disjoint sets
          PipeSize,              \* EDGE_PIPE_SIZE
          MaxHold,               \* bound on g_fb_console_hold_count
          Loads                  \* records of calls, fds (at most MaxFd) and refs

ASSUME PoolAssumption ==
  /\ First \in Proc /\ IsFiniteSet(Proc) /\ Std \subseteq 0..MaxFd
  /\ {MaxFd, MaxRef, PipeSize, MaxHold} \subseteq Nat
  /\ \A l \in Loads : l.fds \in 0..MaxFd /\ l.refs \in 0..MaxRef
  /\ Pipes \cap Ptys = {} /\ Pipes \cap Events = {} /\ Ptys \cap Events = {}

Fd == 0..MaxFd
Ref == 1..MaxRef
Obj == Pipes \cup Ptys \cup Events

VARIABLES s,     \* has, fd, refs, obj and hold: the tables
          task,  \* "none", "live" or "zombie"
          call,  \* the pipe call a process is in, and on which object
          lost,  \* history: references that no descriptor has any more, per slot
          load   \* in Loads

vars == <<s, task, call, lost, load>>

Free == [end |-> "NONE"]
Idle == [op |-> "none"]

Used(e) == e.end # "NONE"

\* The count of its object a descriptor is counted in.
Side(e) == IF e.end \in {"PIPE_W", "PTY_S"} THEN "b" ELSE "a"
Counted(e) == e.end \in {"PIPE_R", "PIPE_W", "PTY_M", "PTY_S", "EVENTFD"}

\* A loop over a table of descriptors has a round for each: after i rounds, those
\* below i are done.
Rounds == 0..(MaxFd + 1)

-----------------------------------------------------------------------------
(* Reference slots and objects *)

FreeRefs(t) == {r \in 1..load.refs : t.refs[r] = 0}

file_ref_alloc(t) ==
  IF FreeRefs(t) = {} THEN 0 ELSE CHOOSE r \in FreeRefs(t) : \A q \in FreeRefs(t) : r <= q

file_ref_get(t, r) == [t EXCEPT !.refs[r] = @ + 1]

file_ref_put(t, r) == [t EXCEPT !.refs[r] = IF @ > 0 THEN @ - 1 ELSE @]

Empty == [used |-> FALSE, a |-> 0, b |-> 0, n |-> 0]

add_ref(t, e) ==
  IF Counted(e) /\ t.obj[e.obj].used THEN [t EXCEPT !.obj[e.obj][Side(e)] = @ + 1] ELSE t

\* Mutant: the object is reset as soon as one side is empty.
drop_ref_one_side(t, e) ==
  IF ~Counted(e) \/ ~t.obj[e.obj].used THEN t
  ELSE LET o == [t.obj[e.obj] EXCEPT ![Side(e)] = IF @ > 0 THEN @ - 1 ELSE @]
       IN  [t EXCEPT !.obj[e.obj] = IF o[Side(e)] = 0 THEN Empty ELSE o]

\* pipe_drop_reader, pipe_drop_writer, pty_drop_ref, eventfd_drop_ref and the like.
drop_ref(t, e) ==
  IF ~Counted(e) \/ ~t.obj[e.obj].used THEN t
  ELSE LET o == [t.obj[e.obj] EXCEPT ![Side(e)] = IF @ > 0 THEN @ - 1 ELSE @]
       IN  [t EXCEPT !.obj[e.obj] = IF o.a = 0 /\ o.b = 0 THEN Empty ELSE o]

obj_alloc(t, pool) == {o \in pool : ~t.obj[o].used}

-----------------------------------------------------------------------------
(* Descriptors *)

Entry(end, obj, ref, cx) == [end |-> end, obj |-> obj, ref |-> ref, cx |-> cx]

\* fd_ensure_stdio, one descriptor; it gives up when no reference slot is left.
EnsureOne(t, p, f) ==
  IF Used(t.fd[p][f]) \/ file_ref_alloc(t) = 0 THEN t
  ELSE [t EXCEPT !.fd[p][f] = Entry("CONSOLE", 0, file_ref_alloc(t), FALSE),
                 !.refs[file_ref_alloc(t)] = 1]

StdRounds(t, p) ==
  LET done[i \in Rounds] ==
        IF i = 0 THEN t
        ELSE IF i - 1 \in Std THEN EnsureOne(done[i - 1], p, i - 1) ELSE done[i - 1]
  IN  done

fd_ensure_stdio(t, p) == StdRounds(t, p)[MaxFd + 1]

fd_proc_with_stdio(t, p) == fd_ensure_stdio([t EXCEPT !.has[p] = TRUE], p)

FreeFds(t, p, min) == {f \in min..load.fds : ~Used(t.fd[p][f])}

fd_alloc(t, p, min) == CHOOSE f \in FreeFds(t, p, min) : \A g \in FreeFds(t, p, min) : f <= g

\* What fd_alloc leaves of descriptor f, what file_ref_alloc and the assignments after it
\* make of it, and the memset of the error paths.
Claimed(t, p, f) == [t EXCEPT !.fd[p][f] = Entry("NEW", 0, 0, FALSE)]

Filled(t, p, f, end, obj, cx) ==
  [t EXCEPT !.fd[p][f] = Entry(end, obj, file_ref_alloc(t), cx), !.refs[file_ref_alloc(t)] = 1]

Zeroed(t, p, f) == [t EXCEPT !.fd[p][f] = Free]

\* A new descriptor with a reference slot of its own (openat, alloc_special_fd).
Install(t, p, end, obj, cx) ==
  LET f == fd_alloc(t, p, 0)
      u == Claimed(t, p, f)
  IN  IF FreeFds(t, p, 0) = {} THEN t
      ELSE IF file_ref_alloc(u) = 0 THEN Zeroed(u, p, f)
      ELSE Filled(u, p, f, end, obj, cx)

CanInstall(t, p) == FreeFds(t, p, 0) # {} /\ file_ref_alloc(t) # 0

\* The references a descriptor holds.
DropAll(t, e) == drop_ref(file_ref_put(t, e.ref), e)

\* hold is g_fb_console_hold_count, which keeps the console off the framebuffer.
do_sys_close(t, p, f) ==
  LET e == t.fd[p][f]
  IN  [DropAll(t, e) EXCEPT !.fd[p][f] = Free,
                            !.hold = IF e.end = "FB" /\ @ > 0 THEN @ - 1 ELSE @]

\* Copying a descriptor, by dup, dup2 or fork, takes a reference on all it names.
Copy(t, e, p, f, cx) ==
  add_ref([file_ref_get(t, e.ref) EXCEPT !.fd[p][f] = [e EXCEPT !.cx = cx]], e)

dup2(t, p, f, g) ==
  IF f = g THEN t
  ELSE Copy(IF Used(t.fd[p][g]) THEN do_sys_close(t, p, g) ELSE t, t.fd[p][f], p, g, FALSE)

\* fd_proc_for_pid first opens stdio for the child, and fd_clone_after_fork then
\* clears that table: the references it took are not given back.
CloneRounds(t, p, c) ==
  LET done[i \in Rounds] ==
        IF i = 0 THEN [fd_proc_with_stdio(t, c) EXCEPT !.fd[c] = [f \in Fd |-> Free]]
        ELSE LET e == t.fd[p][i - 1]
             IN  IF Used(e) THEN Copy(done[i - 1], e, c, i - 1, e.cx) ELSE done[i - 1]
  IN  done

fd_clone_after_fork(t, p, c) == IF ~t.has[p] THEN t ELSE CloneRounds(t, p, c)[MaxFd + 1]

\* Mutant: releasing a table leaves the pipes and ptys it refers to counted.
release_keeps_ends(t, p) ==
  LET done[i \in Rounds] ==
        IF i = 0 THEN t
        ELSE LET e == t.fd[p][i - 1]
             IN  IF Used(e) THEN file_ref_put(done[i - 1], e.ref) ELSE done[i - 1]
  IN  done

\* The references go one descriptor after the other, and the table at the end.
ReleaseRounds(t, p) ==
  LET done[i \in Rounds] ==
        IF i = 0 THEN t
        ELSE LET e == t.fd[p][i - 1]
             IN  IF Used(e) THEN DropAll(done[i - 1], e) ELSE done[i - 1]
  IN  done

fd_proc_release(t, p) ==
  IF ~t.has[p] THEN t
  ELSE [ReleaseRounds(t, p)[MaxFd + 1] EXCEPT !.has[p] = FALSE, !.fd[p] = [f \in Fd |-> Free]]

\* execve closes what is marked close-on-exec, but keeps descriptors 0 to 2 open.
ExecRounds(t, p) ==
  LET done[i \in Rounds] ==
        IF i = 0 THEN t
        ELSE LET u == done[i - 1]
                 e == t.fd[p][i - 1]
             IN  IF ~Used(e) \/ ~e.cx THEN u
                 ELSE IF i - 1 \in Std THEN [u EXCEPT !.fd[p][i - 1] = [e EXCEPT !.cx = FALSE]]
                 ELSE do_sys_close(u, p, i - 1)
  IN  done

exec_close(t, p) == ExecRounds(t, p)[MaxFd + 1]

\* The descriptors, over every process, that are counted on a side of an object, and
\* those that name a reference slot.
Held(t, x) == t.fd[x[1]][x[2]]

Ends(t, o, side) ==
  {x \in Proc \X Fd : Counted(Held(t, x)) /\ Held(t, x).obj = o /\ Side(Held(t, x)) = side}

Names(t, r) == {x \in Proc \X Fd : Used(Held(t, x)) /\ Held(t, x).ref = r}

-----------------------------------------------------------------------------
(* System calls *)

Runs(p, op) == op \in load.calls /\ task[p] = "live" /\ call[p] = Idle

\* O_CLOEXEC matters where programs are executed.
Cx == IF "exec" \in load.calls THEN BOOLEAN ELSE {FALSE}

\* Every call below first makes sure that the table and stdio exist.
Ready(p) == fd_proc_with_stdio(s, p)

Open(p) ==
  /\ Runs(p, "open")
  /\ \E cx \in Cx : s' = Install(Ready(p), p, "VFS", 0, cx)
  /\ UNCHANGED <<task, call, lost, load>>

\* /dev/fb0 takes the screen from the console until it is closed.
OpenFb(p) ==
  /\ Runs(p, "fb") /\ s.hold < MaxHold
  /\ \E cx \in Cx :
       s' = [Install(Ready(p), p, "FB", 0, cx)
               EXCEPT !.hold = IF CanInstall(Ready(p), p) THEN @ + 1 ELSE @]
  /\ UNCHANGED <<task, call, lost, load>>

NewSlave(t, p, o, cx) ==
  IF CanInstall(t, p)
  THEN add_ref(Install(t, p, "PTY_S", o, cx), Entry("PTY_S", o, 0, cx)) ELSE t

\* /dev/tty is the controlling terminal, the console or a pty.  Without one the
\* descriptor is cleared again, and the reference slot it got is not.
OpenTty(p) ==
  /\ Runs(p, "tty")
  /\ LET t == Ready(p)
     IN  \E cx \in Cx :
           \/ s' = Install(t, p, "CONSOLE", 0, cx) /\ UNCHANGED lost
           \/ \E o \in Ptys : s.obj[o].used /\ s' = NewSlave(t, p, o, cx) /\ UNCHANGED lost
           \/ /\ CanInstall(t, p)
              /\ s' = Zeroed(Install(t, p, "CONSOLE", 0, cx), p, fd_alloc(t, p, 0))
              /\ lost' = [lost EXCEPT ![file_ref_alloc(t)] = @ + 1]
  /\ UNCHANGED <<task, call, load>>

Unmade(t, o) == [t EXCEPT !.obj[o] = Empty]

\* Mutant: when the second reference slot is missing, the first is not put back.
pipe_undo_leaks(t, p, r, w, o) == Unmade(Zeroed(Zeroed(t, p, r), p, w), o)

\* The second reference slot is missing: the first is put back, then all is cleared.
PipeUndo(t, p, r, w, o) ==
  Unmade(Zeroed(Zeroed(file_ref_put(t, t.fd[p][r].ref), p, r), p, w), o)

\* What becomes of pipe o and its two descriptors, with the undoing of do_sys_pipe's error
\* paths; the last one closes both ends when their numbers cannot be stored.
PipeEnds(t, p, o, cx) ==
  LET t1 == [t EXCEPT !.obj[o] = [Empty EXCEPT !.used = TRUE]]
      r == fd_alloc(t1, p, 0)
      t2 == Claimed(t1, p, r)
      w == fd_alloc(t2, p, 0)
      t3 == Claimed(t2, p, w)
      t4 == Filled(t3, p, r, "PIPE_R", o, cx)
      t5 == [Filled(t4, p, w, "PIPE_W", o, cx) EXCEPT !.obj[o].a = @ + 1, !.obj[o].b = @ + 1]
  IN  IF FreeFds(t1, p, 0) = {} THEN {Unmade(t1, o)}
      ELSE IF FreeFds(t2, p, 0) = {} THEN {Unmade(Zeroed(t2, p, r), o)}
      ELSE IF file_ref_alloc(t3) = 0 THEN {Unmade(Zeroed(Zeroed(t3, p, r), p, w), o)}
      ELSE IF file_ref_alloc(t4) = 0 THEN {PipeUndo(t4, p, r, w, o)}
      ELSE {t5, do_sys_close(do_sys_close(t5, p, r), p, w)}

Pipe(p) ==
  /\ Runs(p, "pipe")
  /\ LET t == Ready(p)
     IN  IF obj_alloc(t, Pipes) = {} THEN s' = t
         ELSE \E cx \in Cx : s' \in PipeEnds(t, p, CHOOSE o \in obj_alloc(t, Pipes) : TRUE, cx)
  /\ UNCHANGED <<task, call, lost, load>>

\* pty_alloc and eventfd_alloc_obj: the object comes with one reference, on its a side.
Made(t, o) == [t EXCEPT !.obj[o] = [Empty EXCEPT !.used = TRUE, !.a = 1]]

\* /dev/ptmx: the descriptor is claimed first; what is there is given back when the pty
\* or the reference slot is missing.
Ptmx(p) ==
  /\ Runs(p, "pty")
  /\ LET t == Ready(p)
         f == fd_alloc(t, p, 0)
         u == Claimed(t, p, f)
         o == CHOOSE q \in obj_alloc(u, Ptys) : TRUE
         v == Made(u, o)
     IN  IF FreeFds(t, p, 0) = {} THEN s' = t
         ELSE IF obj_alloc(u, Ptys) = {} THEN s' = Zeroed(u, p, f)
         ELSE IF file_ref_alloc(v) = 0
         THEN s' = Zeroed(drop_ref(v, Entry("PTY_M", o, 0, FALSE)), p, f)
         ELSE \E cx \in Cx : s' = Filled(v, p, f, "PTY_M", o, cx)
  /\ UNCHANGED <<task, call, lost, load>>

\* eventfd2: the object comes first, and is dropped when alloc_special_fd fails.
Eventfd(p) ==
  /\ Runs(p, "eventfd")
  /\ LET o == CHOOSE q \in obj_alloc(s, Events) : TRUE
         t == Made(Ready(p), o)
     IN  IF obj_alloc(s, Events) = {} THEN s' = s
         ELSE \E cx \in Cx :
                s' = IF CanInstall(t, p) THEN Install(t, p, "EVENTFD", o, cx)
                     ELSE drop_ref(Install(t, p, "EVENTFD", o, cx), Entry("EVENTFD", o, 0, cx))
  /\ UNCHANGED <<task, call, lost, load>>

\* /dev/pts/N, once the master has unlocked it (TIOCSPTLCK; n = 1 here).
Unlockpt(p) ==
  /\ Runs(p, "pty")
  /\ \E f \in Fd : /\ s.fd[p][f].end = "PTY_M"
                   /\ s' = [Ready(p) EXCEPT !.obj[s.fd[p][f].obj].n = 1]
  /\ UNCHANGED <<task, call, lost, load>>

OpenPts(p) ==
  /\ Runs(p, "pty")
  /\ \E o \in Ptys, cx \in Cx :
       s.obj[o].used /\ s.obj[o].n = 1 /\ s' = NewSlave(Ready(p), p, o, cx)
  /\ UNCHANGED <<task, call, lost, load>>

\* F_DUPFD and dup.
Dup(p) ==
  /\ Runs(p, "dup")
  /\ LET t == Ready(p)
     IN  \E f \in Fd, min \in {0, load.fds}, cx \in Cx :
           /\ Used(t.fd[p][f])
           /\ s' = IF FreeFds(t, p, min) = {} THEN t
                   ELSE Copy(t, t.fd[p][f], p, fd_alloc(t, p, min), cx)
  /\ UNCHANGED <<task, call, lost, load>>

\* dup2 and dup3.
Dup2(p) ==
  /\ Runs(p, "dup")
  /\ LET t == Ready(p)
     IN  \E f, g \in 0..load.fds, cx \in Cx :
           /\ Used(t.fd[p][f])
           /\ s' = [dup2(t, p, f, g) EXCEPT !.fd[p][g].cx = IF f = g THEN @ ELSE cx]
  /\ UNCHANGED <<task, call, lost, load>>

\* fcntl F_SETFD.
SetFd(p) ==
  /\ Runs(p, "exec")
  /\ LET t == Ready(p)
     IN  \E f \in Fd, cx \in BOOLEAN : Used(t.fd[p][f]) /\ s' = [t EXCEPT !.fd[p][f].cx = cx]
  /\ UNCHANGED <<task, call, lost, load>>

Close(p) ==
  /\ Runs(p, "close")
  /\ \E f \in Fd : /\ s.has[p] /\ Used(s.fd[p][f])
                   /\ s' = do_sys_close(s, p, f)
  /\ UNCHANGED <<task, call, lost, load>>

-----------------------------------------------------------------------------
(* Reading and writing a pipe *)

\* The descriptor and its pipe are looked up once ...
Finds(p, f, end) ==
  LET e == Ready(p).fd[p][f] IN Used(e) /\ e.end = end /\ Ready(p).obj[e.obj].used

Starts(p, op, f) ==
  /\ s' = Ready(p)
  /\ call' = [call EXCEPT ![p] = [op |-> op, fd |-> f, obj |-> Ready(p).fd[p][f].obj]]
  /\ UNCHANGED <<task, lost, load>>

ReadStart(p) ==
  /\ Runs(p, "io")
  /\ \E f \in Fd : Finds(p, f, "PIPE_R") /\ Starts(p, "read", f)

\* ... and polls until there is data or no writer is left (end of file), unless it is
\* nonblocking (EAGAIN) or a signal arrives (EINTR).
ReadDone(p) ==
  /\ task[p] = "live" /\ call[p].op = "read"
  /\ LET o == call[p].obj
     IN  \/ s.obj[o].n > 0 /\ \E k \in 1..s.obj[o].n : s' = [s EXCEPT !.obj[o].n = @ - k]
         \/ s.obj[o].n = 0 /\ UNCHANGED s
  /\ call' = [call EXCEPT ![p] = Idle]
  /\ UNCHANGED <<task, lost, load>>

\* Without a reader: EPIPE.
WriteStart(p) ==
  /\ Runs(p, "io")
  /\ \E f \in Fd : /\ Finds(p, f, "PIPE_W") /\ Ready(p).obj[Ready(p).fd[p][f].obj].a > 0
                   /\ Starts(p, "write", f)

\* Space is checked before the readers: a write into a pipe that lost its last
\* reader after the call began succeeds if there is room.
WriteDone(p) ==
  /\ task[p] = "live" /\ call[p].op = "write"
  /\ LET o == call[p].obj
     IN  \/ \E k \in 1..(PipeSize - s.obj[o].n) : s' = [s EXCEPT !.obj[o].n = @ + k]
         \/ s.obj[o].n >= PipeSize /\ UNCHANGED s   \* EPIPE, EAGAIN or EINTR
  /\ call' = [call EXCEPT ![p] = Idle]
  /\ UNCHANGED <<task, lost, load>>

-----------------------------------------------------------------------------
(* Processes *)

\* The references of the child's stdio, which fork forgets.
ForkLoses(p, c, r) ==
  IF s.has[p] THEN {x \in Names(fd_proc_with_stdio(s, c), r) : x[1] = c} ELSE {}

Fork(p) ==
  /\ Runs(p, "fork")
  /\ \E c \in Proc : /\ task[c] = "none"
                     /\ task' = [task EXCEPT ![c] = "live"]
                     /\ s' = fd_clone_after_fork(s, p, c)
                     /\ lost' = [r \in Ref |-> lost[r] + Cardinality(ForkLoses(p, c, r))]
  /\ UNCHANGED <<call, load>>

\* A program that turns out unloadable once the old image is gone ends the task, which
\* gives its descriptors back first (elf_loader_exec, the heap check).
Execve(p) ==
  /\ Runs(p, "exec")
  /\ LET t == IF s.has[p] THEN exec_close(s, p) ELSE s
     IN  \/ s' = t /\ UNCHANGED task
         \/ /\ p # First
            /\ s' = fd_proc_release(t, p) /\ task' = [task EXCEPT ![p] = "zombie"]
  /\ UNCHANGED <<call, lost, load>>

\* exit releases the descriptors at once; a task that a signal or a fault ends keeps
\* them until its parent reaps it.
Exit(p) ==
  /\ Runs(p, "exit") /\ p # First
  /\ s' = fd_proc_release(s, p)
  /\ task' = [task EXCEPT ![p] = "zombie"]
  /\ UNCHANGED <<call, lost, load>>

Killed(p) ==
  /\ "kill" \in load.calls /\ task[p] = "live" /\ p # First
  /\ task' = [task EXCEPT ![p] = "zombie"]
  /\ UNCHANGED <<s, call, lost, load>>

\* process_wait_pid calls syscall_release_process_fds.
Reap(p) ==
  /\ task[p] = "zombie"
  /\ s' = fd_proc_release(s, p)
  /\ task' = [task EXCEPT ![p] = "none"]
  /\ call' = [call EXCEPT ![p] = Idle]
  /\ UNCHANGED <<lost, load>>

Init ==
  /\ s = [has |-> [p \in Proc |-> FALSE], fd |-> [p \in Proc |-> [f \in Fd |-> Free]],
          refs |-> [r \in Ref |-> 0], obj |-> [o \in Obj |-> Empty], hold |-> 0]
  /\ task = [p \in Proc |-> IF p = First THEN "live" ELSE "none"]
  /\ call = [p \in Proc |-> Idle]
  /\ lost = [r \in Ref |-> 0]
  /\ load \in Loads

Next == \E p \in Proc :
  \/ Open(p) \/ OpenFb(p) \/ OpenTty(p) \/ Pipe(p) \/ Ptmx(p) \/ Eventfd(p)
  \/ Unlockpt(p) \/ OpenPts(p) \/ Dup(p) \/ Dup2(p) \/ SetFd(p) \/ Close(p)
  \/ ReadStart(p) \/ ReadDone(p) \/ WriteStart(p) \/ WriteDone(p)
  \/ Fork(p) \/ Execve(p) \/ Exit(p) \/ Killed(p) \/ Reap(p)

Spec == Init /\ [][Next]_vars

-----------------------------------------------------------------------------
(* Properties *)

\* A pipe has exactly as many readers and writers as there are open descriptors of
\* its ends, over all processes, and so for ptys and eventfds; an object is in use
\* while one of them is left.  An end of file or a broken pipe depends on it.
EndsExact ==
  \A o \in Obj :
    /\ s.obj[o].a = Cardinality(Ends(s, o, "a")) /\ s.obj[o].b = Cardinality(Ends(s, o, "b"))
    /\ s.obj[o].used <=> Ends(s, o, "a") \cup Ends(s, o, "b") # {}

\* A reference slot counts exactly the descriptors, in all processes, that name it, and
\* the references that fork and a failing open of /dev/tty are known to forget: nothing
\* else ever loses one, on the error paths of pipe, openat and execve either, so no
\* slot is handed out while a descriptor holds it (file_ref_get, file_ref_put).
RefsExact == \A r \in Ref : s.refs[r] = Cardinality(Names(s, r)) + lost[r]

\* The pointers that a polling read or write keeps across wait_blocking_step stay
\* good: its descriptor is still open on the pipe it started with, still in use.
CallKeepsPipe ==
  \A p \in Proc : task[p] = "live" /\ call[p] # Idle =>
    /\ s.fd[p][call[p].fd].end = (IF call[p].op = "read" THEN "PIPE_R" ELSE "PIPE_W")
    /\ s.fd[p][call[p].fd].obj = call[p].obj
    /\ s.obj[call[p].obj].used
=============================================================================
