------------------------------ MODULE Process ------------------------------
(***************************************************************************)
(* The task table of src/sys/process.c: fork, spawn, exit, wait and        *)
(* signals, the family tree as the code links it (parent, first_child and  *)
(* sibling pointers), composed with the functions of module Scheduler.     *)
(*                                                                         *)
(* A system call runs on the current task until it yields, and is cut into *)
(* the steps between which a terminal interrupt matters: wait4 between its *)
(* scan, its blocking and its yield; fork and spawn between linking,       *)
(* blocking and publishing the child.  pc says where each task is.         *)
(*                                                                         *)
(* load, chosen at the start, is what a behaviour exercises: the system    *)
(* calls that programs make, how many pids they use up, and whether an     *)
(* interrupt is taken inside a system call (the code: syscall_handler      *)
(* starts with sti) or only in user mode.                                  *)
(*                                                                         *)
(* All tasks are in one session (setsid is not used here), SIGINT stands   *)
(* for the catchable signals and SIGKILL for itself, and Ctrl-C may hit    *)
(* any process group, since any task may make any group the foreground.    *)
(***************************************************************************)
EXTENDS Integers, Sequences, FiniteSets

CONSTANTS N,            \* slots of g_tasks that task_alloc may hand out
          MaxPid,       \* bound on g_next_pid
          WaitSel,      \* the pid arguments given to wait4
          Loads         \* records of calls, pids (at most MaxPid) and irq

ASSUME NAssumption == N \in Nat \ {0}

Slot == 1..N
Boot == 1       \* pid 1, the task that runs kmain
NULL == 0

VARIABLES kern,    \* sched, fam and proc: the task table
          pc,      \* where each task is
          sel,     \* the pid argument of the wait a task is in
          fresh,   \* the child the current task is creating
          nextPid, \* g_next_pid
          initPid, \* init_pid of kmain
          load     \* in Loads

vars == <<kern, pc, sel, fresh, nextPid, initPid, load>>

S == INSTANCE Scheduler
  WITH Task <- Slot, Boot <- Boot, Idle <- NULL, sched <- kern.sched,
       fresh <- IF fresh = NULL \/ kern.sched.state[fresh] = "UNUSED" THEN NULL ELSE fresh

State(k, t) == k.sched.state[t]
Cur == kern.sched.current
At(l) == Cur # NULL /\ pc[Cur] = l

-----------------------------------------------------------------------------
(* The family tree: f is a record of parent, first, prev and next *)

\* Mutant: the next sibling keeps its pointer to the task that left.
unlink_keeps_prev(f, c) ==
  LET p == f.parent[c]
      d == IF f.prev[c] # NULL THEN [f EXCEPT !.next[f.prev[c]] = f.next[c]]
           ELSE IF p # NULL THEN [f EXCEPT !.first[p] = f.next[c]] ELSE f
  IN  [d EXCEPT !.prev[c] = NULL, !.next[c] = NULL, !.parent[c] = NULL]

task_child_unlink(f, c) ==
  LET p == f.parent[c]
      d == IF f.prev[c] # NULL THEN [f EXCEPT !.next[f.prev[c]] = f.next[c]]
           ELSE IF p # NULL THEN [f EXCEPT !.first[p] = f.next[c]] ELSE f
      e == IF f.next[c] # NULL THEN [d EXCEPT !.prev[f.next[c]] = f.prev[c]] ELSE d
  IN  [e EXCEPT !.prev[c] = NULL, !.next[c] = NULL, !.parent[c] = NULL]

task_child_link(f, p, c) ==
  LET d == [task_child_unlink(f, c) EXCEPT !.parent[c] = p]
      e == IF d.first[p] # NULL THEN [d EXCEPT !.prev[d.first[p]] = c] ELSE d
  IN  [e EXCEPT !.next[c] = d.first[p], !.first[p] = c]

\* The tasks met from first_child along sibling_next: the first one at 0, NULL past
\* the last one.  No list is longer than the table.
ChildAt(f, p) ==
  LET at[i \in 0..N] == IF i = 0 THEN f.first[p]
                        ELSE IF at[i - 1] = NULL THEN NULL ELSE f.next[at[i - 1]]
  IN  at

\* The loop, round by round: the tree, and the task to move next, which was read
\* before the one in front of it moved.
AdoptRounds(f, t) ==
  LET done[i \in 0..N] ==
        IF i = 0 THEN [fam |-> f, at |-> f.first[t]]
        ELSE LET d == done[i - 1]
             IN  IF d.at = NULL THEN d
                 ELSE [fam |-> task_child_link(d.fam, Boot, d.at), at |-> d.fam.next[d.at]]
  IN  done

\* Mutant: the next sibling is read after the task in front of it has moved.
adopt_reads_late(f, t) ==
  IF f.first[t] = NULL THEN f ELSE task_child_link(f, Boot, f.first[t])

process_adopt_orphans(f, t) == AdoptRounds(f, t)[N].fam

-----------------------------------------------------------------------------
(* Helpers on the whole table, k = kern *)

Free(k) == {t \in Slot : State(k, t) = "UNUSED"}

task_alloc(k) == CHOOSE t \in Free(k) : \A u \in Free(k) : t <= u

Found(k, pid) == {t \in Slot : State(k, t) # "UNUSED" /\ k.proc.pid[t] = pid}

\* Mutant: a zombie is woken like a blocked task.
notify_wakes_zombie(k, p) ==
  IF p # NULL /\ State(k, p) \in {"BLOCKED", "ZOMBIE"}
  THEN [k EXCEPT !.sched = S!scheduler_task_make_runnable(@, p)] ELSE k

\* Mutant: the parent is told but not woken.
notify_without_wake(k, p) == k

\* Mutant: the state is written without going through the scheduler.
notify_sets_state(k, p) ==
  IF p # NULL /\ State(k, p) = "BLOCKED" THEN [k EXCEPT !.sched.state[p] = "RUNNABLE"] ELSE k

process_notify_parent_sigchld(k, p) ==
  IF p # NULL /\ State(k, p) = "BLOCKED"
  THEN [k EXCEPT !.sched = S!scheduler_task_make_runnable(@, p)] ELSE k

\* What process_exit_current and process_kill_pid do to their victim: its children
\* go to pid 1, and so does it if its parent ignores SIGCHLD; then it is a zombie
\* and the parent, or pid 1 in its place, is told.
Terminate(k, t) ==
  LET f  == process_adopt_orphans(k.fam, t)
      p  == f.parent[t]
      ig == p # NULL /\ k.proc.chld[p] = "IGN"
      k2 == [k EXCEPT !.fam = IF ig THEN task_child_link(f, Boot, t) ELSE f,
                      !.sched = S!scheduler_task_set_zombie(@, t)]
  IN  process_notify_parent_sigchld(k2, IF ig THEN Boot ELSE p)

process_signal_one(k, t, sig) ==
  IF State(k, t) \in {"UNUSED", "ZOMBIE"} THEN k
  ELSE IF sig = "KILL" \/ k.proc.int[t] = "DFL"
       THEN IF t = Boot THEN k ELSE Terminate(k, t)
  ELSE IF k.proc.int[t] = "IGN" THEN k
  ELSE LET k2 == [k EXCEPT !.proc.pending[t] = TRUE]
       IN  IF State(k, t) = "BLOCKED"
           THEN [k2 EXCEPT !.sched = S!scheduler_task_make_runnable(@, t)] ELSE k2

\* The loop over g_tasks: the table when the slots up to i are done.
SignalRounds(k, g, sig) ==
  LET done[i \in 0..N] ==
        IF i = 0 THEN k
        ELSE IF done[i - 1].proc.pgid[i] = g THEN process_signal_one(done[i - 1], i, sig)
        ELSE done[i - 1]
  IN  done

process_send_signal_pgid(k, g, sig) == IF g <= 0 THEN k ELSE SignalRounds(k, g, sig)[N]

\* task_child_unlink, scheduler_task_set_unused and memset of a slot.
Release(k, c) ==
  LET f == task_child_unlink(k.fam, c)
  IN  [sched |-> [S!scheduler_task_set_unused(k.sched, c) EXCEPT !.need[c] = FALSE],
       fam   |-> [f EXCEPT !.parent[c] = NULL, !.first[c] = NULL,
                           !.prev[c] = NULL, !.next[c] = NULL],
       proc  |-> [k.proc EXCEPT !.pid[c] = 0, !.pgid[c] = 0, !.chld[c] = "DFL",
                                !.int[c] = "DFL", !.pending[c] = FALSE]]

\* The fields a new task takes from its parent, and its place in the tree.
Inherit(k, p, c) ==
  [k EXCEPT !.proc = [@ EXCEPT !.pid[c] = nextPid, !.pgid[c] = k.proc.pgid[p],
                               !.chld[c] = k.proc.chld[p], !.int[c] = k.proc.int[p],
                               !.pending[c] = FALSE],
            !.fam = task_child_link(@, p, c)]

schedule(k) == [k EXCEPT !.sched = S!schedule_common(@)]

-----------------------------------------------------------------------------
(* Creating a task *)

Go(l) == pc' = [pc EXCEPT ![Cur] = l]

\* process_fork up to task_child_link: the slot is still UNUSED.
Fork ==
  /\ "fork" \in load.calls /\ At("user")
  /\ \/ Free(kern) = {} /\ Go("tail") /\ UNCHANGED <<kern, fresh, nextPid>>
     \/ /\ Free(kern) # {} /\ nextPid <= load.pids
        /\ fresh' = task_alloc(kern)
        /\ kern' = Inherit(kern, Cur, task_alloc(kern))
        /\ nextPid' = nextPid + 1
        /\ Go("copy")
  /\ UNCHANGED <<sel, initPid, load>>

\* Once the image is copied, process_fork blocks the child ...
ForkBlock ==
  /\ At("copy")
  /\ kern' = [kern EXCEPT !.sched = S!scheduler_task_set_blocked(@, fresh)]
  /\ Go("publish")
  /\ UNCHANGED <<sel, fresh, nextPid, initPid, load>>

\* ... and its caller, after cloning the descriptors, makes it runnable.
ForkPublish ==
  /\ At("publish")
  /\ kern' = [kern EXCEPT !.sched = S!scheduler_task_make_runnable(@, fresh)]
  /\ \E l \in {"tail", "vfork"} : pc' = [pc EXCEPT ![Cur] = l, ![fresh] = "user"]
  /\ fresh' = NULL
  /\ UNCHANGED <<sel, nextPid, initPid, load>>

\* process_spawn_exec, for a user program or for kmain: /sbin/init and, if that
\* fails, /bin/edgebox; if both fail, kmain halts at boot and gives up later.
SpawnLoads == [user |-> "load", init |-> "initload", edgebox |-> "edgeload"]

SpawnFailed(l) ==
  CASE l \in {"user", "load"}        -> "tail"
    [] l \in {"init", "initload"}    -> "edgebox"
    [] l \in {"edgebox", "edgeload"} -> IF initPid = 0 THEN "halt" ELSE "scan"

InitFailed(l) == IF l \in {"edgebox", "edgeload"} /\ initPid # 0 THEN -1 ELSE initPid

\* It reserves the slot by writing BLOCKED into it, and links it.
SpawnReserve ==
  /\ Cur # NULL /\ pc[Cur] \in DOMAIN SpawnLoads
  /\ pc[Cur] = "user" => "spawn" \in load.calls
  /\ \/ /\ Free(kern) = {} /\ Go(SpawnFailed(pc[Cur])) /\ initPid' = InitFailed(pc[Cur])
        /\ UNCHANGED <<kern, fresh, nextPid>>
     \/ /\ Free(kern) # {} /\ nextPid <= load.pids
        /\ LET c == task_alloc(kern)
           IN  /\ fresh' = c
               /\ kern' = [Inherit(kern, Cur, c) EXCEPT !.sched.state[c] = "BLOCKED"]
        /\ nextPid' = nextPid + 1
        /\ Go(SpawnLoads[pc[Cur]])
        /\ UNCHANGED initPid
  /\ UNCHANGED <<sel, load>>

\* With interrupts off, the program is loaded and the child published, or the slot
\* is given back.
SpawnLoad ==
  /\ Cur # NULL /\ pc[Cur] \in {"load", "initload", "edgeload"}
  /\ \/ /\ kern' = [kern EXCEPT !.sched = S!scheduler_task_make_runnable(
                                            S!scheduler_task_set_blocked(@, fresh), fresh)]
        /\ pc' = [pc EXCEPT ![fresh] = "user", ![Cur] = IF @ = "load" THEN "tail" ELSE "scan"]
        /\ initPid' = IF At("load") THEN initPid ELSE kern.proc.pid[fresh]
     \/ /\ kern' = Release(kern, fresh)
        /\ Go(SpawnFailed(pc[Cur]))
        /\ initPid' = InitFailed(pc[Cur])
  /\ fresh' = NULL
  /\ UNCHANGED <<sel, nextPid, load>>

-----------------------------------------------------------------------------
(* Waiting: process_wait_pid, and process_wait_any in the loop of kmain *)

Matches(k, p, c, pid) ==
  CASE pid > 0   -> k.proc.pid[c] = pid
    [] pid = 0   -> k.proc.pgid[c] = k.proc.pgid[p]
    [] pid = -1  -> TRUE
    [] OTHER     -> k.proc.pgid[c] = -pid

\* Places in p's list of children: those its wait is for, and the zombies of them.
Matching(k, p) ==
  {i \in 0..N : ChildAt(k.fam, p)[i] # NULL /\ Matches(k, p, ChildAt(k.fam, p)[i], sel[p])}

Ripe(k, p) == {i \in Matching(k, p) : State(k, ChildAt(k.fam, p)[i]) = "ZOMBIE"}

FirstRipe(k, p) == ChildAt(k.fam, p)[CHOOSE i \in Ripe(k, p) : \A j \in Ripe(k, p) : i <= j]

Wait ==
  /\ "wait" \in load.calls /\ At("user")
  /\ \E w \in WaitSel : sel' = [sel EXCEPT ![Cur] = w]
  /\ \E l \in {"scan", "poll"} : Go(l)
  /\ UNCHANGED <<kern, fresh, nextPid, initPid, load>>

\* One pass over the children; "poll" is a wait with WNOHANG.  Where kmain finds no
\* child it halts until an interrupt and waits again, without yielding.
WaitScan ==
  /\ At("scan") \/ At("poll")
  /\ \/ /\ Ripe(kern, Cur) # {}
        /\ LET c == FirstRipe(kern, Cur)
           IN  /\ kern' = Release(kern, c)
               /\ pc' = [pc EXCEPT ![c] = "user",
                           ![Cur] = IF Cur # Boot THEN "tail"
                                    ELSE IF kern.proc.pid[c] = initPid THEN "init" ELSE "scan"]
     \/ /\ Ripe(kern, Cur) = {}
        /\ Go(IF Matching(kern, Cur) = {} THEN IF Cur = Boot THEN "scan" ELSE "tail"
              ELSE IF At("poll") THEN "tail" ELSE "block")
        /\ UNCHANGED kern
  /\ sel' = [sel EXCEPT ![Cur] = IF pc'[Cur] = "block" THEN @ ELSE -1]
  /\ UNCHANGED <<fresh, nextPid, initPid, load>>


WaitBlock ==
  /\ At("block")
  /\ kern' = [kern EXCEPT !.sched = S!scheduler_task_set_blocked(@, Cur)]
  /\ Go("sleep")
  /\ UNCHANGED <<sel, fresh, nextPid, initPid, load>>

WaitYield ==
  /\ At("sleep")
  /\ kern' = schedule(kern)
  /\ Go("scan")
  /\ UNCHANGED <<sel, fresh, nextPid, initPid, load>>

-----------------------------------------------------------------------------
(* Ending, signals and groups *)

\* exit, a fault (isr.c), or an execve that fails after the old image is gone.
Exit ==
  /\ "exit" \in load.calls /\ At("user")
  /\ kern' = schedule(Terminate(kern, Cur))
  /\ Go("halt")
  /\ UNCHANGED <<sel, fresh, nextPid, initPid, load>>

\* do_sys_kill: a positive pid, or a group.
Kill ==
  /\ "kill" \in load.calls /\ At("user")
  /\ \E sig \in {"INT", "KILL"}, n \in 1..MaxPid :
       kern' \in {process_send_signal_pgid(kern, n, sig)} \cup
                 {process_signal_one(kern, t, sig) : t \in Found(kern, n)}
  /\ Go("tail")
  /\ UNCHANGED <<sel, fresh, nextPid, initPid, load>>

\* rt_sigaction of SIGCHLD or of SIGINT.
SigAction ==
  /\ At("user")
  /\ \/ "sigchld" \in load.calls /\ \E h \in {"DFL", "IGN"} : kern' = [kern EXCEPT !.proc.chld[Cur] = h]
     \/ "sigint" \in load.calls /\ \E h \in {"DFL", "IGN", "HANDLER"} : kern' = [kern EXCEPT !.proc.int[Cur] = h]
  /\ Go("tail")
  /\ UNCHANGED <<sel, fresh, nextPid, initPid, load>>

\* process_prepare_exec_current: caught signals go back to the default.
Execve ==
  /\ "execve" \in load.calls /\ At("user")
  /\ kern' = [kern EXCEPT !.proc.int[Cur] = IF @ = "IGN" THEN "IGN" ELSE "DFL",
                          !.proc.pending[Cur] = FALSE]
  /\ Go("tail")
  /\ UNCHANGED <<sel, fresh, nextPid, initPid, load>>

process_setpgid(k, t, pgid) ==
  LET g == IF pgid = 0 THEN k.proc.pid[t] ELSE pgid
  IN  IF g = k.proc.pid[t] \/ Found(k, g) # {} THEN [k EXCEPT !.proc.pgid[t] = g] ELSE k

Setpgid ==
  /\ "setpgid" \in load.calls /\ At("user")
  /\ \E n \in 1..MaxPid, g \in 0..MaxPid :
       \E t \in Found(kern, n) : kern' = process_setpgid(kern, t, g)
  /\ Go("tail")
  /\ UNCHANGED <<sel, fresh, nextPid, initPid, load>>

\* sched_yield, the yield of vfork, and a pass of a system call that polls.
SchedYield ==
  /\ ("yield" \in load.calls /\ At("user")) \/ At("vfork")
  /\ kern' = schedule(kern)
  /\ Go("tail")
  /\ UNCHANGED <<sel, fresh, nextPid, initPid, load>>

\* maybe_deliver_signal_on_sysret: one pending signal is delivered.
Delivered(k, t) ==
  LET k2 == [k EXCEPT !.proc.pending[t] = FALSE]
  IN  IF k.proc.pending[t] /\ k.proc.int[t] = "DFL" THEN Terminate(k2, t) ELSE k2

\* The end of syscall_handler: a task that was killed meanwhile gives up the CPU for
\* good; a tick asks for a yield.
SyscallTail ==
  /\ At("tail")
  /\ LET k == Delivered(kern, Cur)
     IN  /\ kern' = IF State(k, Cur) = "ZOMBIE" \/ k.sched.need[Cur] THEN schedule(k) ELSE k
         /\ Go(IF State(k, Cur) = "ZOMBIE" THEN "halt" ELSE "user")
  /\ UNCHANGED <<sel, fresh, nextPid, initPid, load>>

-----------------------------------------------------------------------------
(* Interrupts *)

Interruptible == Cur # NULL /\ ~load.irq => pc[Cur] \in {"user", "halt", "init", "edgebox"}

\* syscall_tty_irq_poll: Ctrl-C signals the foreground group.
TtyInterrupt ==
  /\ "ctrlc" \in load.calls /\ Interruptible
  /\ \E g \in 1..MaxPid : kern' = process_send_signal_pgid(kern, g, "INT")
  /\ UNCHANGED <<pc, sel, fresh, nextPid, initPid, load>>

Tick ==
  /\ Interruptible
  /\ kern' = [kern EXCEPT !.sched = S!scheduler_tick(@)]
  /\ UNCHANGED <<pc, sel, fresh, nextPid, initPid, load>>

Init ==
  /\ kern = [sched |-> S!BootState,
             fam   |-> LET z == [t \in Slot |-> NULL]
                       IN  [parent |-> z, first |-> z, prev |-> z, next |-> z],
             proc  |-> [pid     |-> [t \in Slot |-> IF t = Boot THEN 1 ELSE 0],
                        pgid    |-> [t \in Slot |-> IF t = Boot THEN 1 ELSE 0],
                        chld    |-> [t \in Slot |-> "DFL"],
                        int     |-> [t \in Slot |-> "DFL"],
                        pending |-> [t \in Slot |-> FALSE]]]
  /\ pc = [t \in Slot |-> IF t = Boot THEN "init" ELSE "user"]
  /\ sel = [t \in Slot |-> -1]
  /\ fresh = NULL /\ nextPid = 2 /\ initPid = 0
  /\ load \in Loads

Next ==
  \/ Fork \/ ForkBlock \/ ForkPublish \/ SpawnReserve \/ SpawnLoad
  \/ Wait \/ WaitScan \/ WaitBlock \/ WaitYield
  \/ Exit \/ Kill \/ SigAction \/ Execve \/ Setpgid \/ SchedYield \/ SyscallTail
  \/ TtyInterrupt \/ Tick

Spec == Init /\ [][Next]_vars

-----------------------------------------------------------------------------
(* Properties *)

\* The assertions of sched_invariant_check for the calls that the handlers of process.c
\* really make.  A linked task is RUNNABLE and linked once, a RUNNABLE task is linked, a
\* RUNNING task is current.  The current task is RUNNING ("expected RUNNING") unless it
\* was killed or is in process_wait_pid between blocking and yielding, where the check in
\* scheduler_task_set_blocked finds it BLOCKED.  The remaining one, "rq-empty
\* current-not-idle", fails whenever a task runs alone and is not claimed.
SchedConsistent ==
  /\ S!QueueMatchesState
  /\ S!RunningIsCurrent
  /\ Cur # NULL /\ State(kern, Cur) # "RUNNING" => State(kern, Cur) = "ZOMBIE" \/ At("sleep")

\* The sibling pointers make doubly linked lists whose members share their parent,
\* and first_child is NULL or the head of a list of that parent's children: wait,
\* adoption and reaping never follow a pointer into another task's children.  And
\* every list ends: no walk along sibling_next goes round in circles.
ListsWellLinked ==
  LET f == kern.fam
  IN  \A c \in Slot :
        /\ f.next[c] # NULL => f.prev[f.next[c]] = c /\ f.parent[f.next[c]] = f.parent[c]
        /\ f.prev[c] # NULL => f.next[f.prev[c]] = c
        /\ f.first[c] # NULL => f.parent[f.first[c]] = c /\ f.prev[f.first[c]] = NULL
        /\ ChildAt(f, c)[N] = NULL

\* Without Ctrl-C, every task that has a parent is in its parent's list, so that wait,
\* adoption and reaping find it: a task that ends leaves no child behind.  (Ctrl-C can
\* kill a task in user mode that then forks, after process_adopt_orphans has run.)
ChildrenFound ==
  "ctrlc" \notin load.calls =>
    \A c \in Slot : kern.fam.parent[c] # NULL =>
      \E i \in 0..N : ChildAt(kern.fam, kern.fam.parent[c])[i] = c

\* The family tree is well linked and complete (process_adopt_orphans, task_child_link,
\* task_child_unlink): ListsWellLinked and ChildrenFound together.
FamilyExact == ListsWellLinked /\ ChildrenFound

\* A task parked in the last loop of process_exit_current or of syscall_handler is never
\* given the CPU again: no wake-up or publication revives it.  (A task killed inside a
\* system call that then blocks, and so is no longer a zombie, never parks.)
DeadStayOffCpu == Cur # NULL /\ Cur # Boot => pc[Cur] # "halt"

Asleep(p) == State(kern, p) = "BLOCKED" /\ pc[p] = "scan"

\* Where interrupts come in user mode only: a user task asleep in wait4 (for any
\* child, or for one pid) that does not ignore SIGCHLD has a child to wait for and
\* has not missed a death: process_wait_pid blocked it before the child ended, and
\* the child's end wakes it.
WaiterIsOwed ==
  ~load.irq => \A p \in Slot \ {Boot} :
    Asleep(p) /\ kern.proc.chld[p] # "IGN" /\ (sel[p] = -1 \/ sel[p] > 0) =>
      Matching(kern, p) # {} /\ Ripe(kern, p) = {}

\* "An init daemon handles orphan reaping" (README.md): pid 1, to which
\* process_adopt_orphans gives the children of a task that ends, is not asleep in
\* process_wait_any while one of its children waits to be reaped.
OrphansAreReaped == Asleep(Boot) => Ripe(kern, Boot) = {}
=============================================================================
