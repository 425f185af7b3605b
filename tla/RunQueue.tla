------------------------------ MODULE RunQueue ------------------------------
(***************************************************************************)
(* The run queue of src/sys/scheduler.c as the code stores it: a doubly    *)
(* linked list through rq_prev and rq_next in the tasks themselves, the    *)
(* rq_head and rq_tail of the CPU, and the on_runqueue flag of each task.  *)
(* Under the same calls as module Scheduler it implements that module, the *)
(* sequence rq being the tasks met from rq_head along rq_next.             *)
(***************************************************************************)
EXTENDS Naturals, Sequences, FiniteSets

CONSTANTS Task, Boot, Idle

ASSUME QueueAssumption == IsFiniteSet(Task) /\ Boot \in Task /\ Idle \notin Task

VARIABLES cpu, fresh

vars == <<cpu, fresh>>

NULL == Idle

CpuState == [state   : [Task -> {"UNUSED", "RUNNABLE", "RUNNING", "BLOCKED", "ZOMBIE"}],
             onrq    : [Task -> BOOLEAN],
             prev    : [Task -> Task \cup {NULL}],
             next    : [Task -> Task \cup {NULL}],
             head    : Task \cup {NULL},
             tail    : Task \cup {NULL},
             current : Task \cup {Idle},
             need    : [Task -> BOOLEAN]]

-----------------------------------------------------------------------------
Detached(c, t) == [c EXCEPT !.prev[t] = NULL, !.next[t] = NULL, !.onrq[t] = FALSE]

rq_pop_head_locked(c) ==
  LET t == c.head
      h == c.next[t]
      d == IF h # NULL THEN [c EXCEPT !.head = h, !.prev[h] = NULL]
                       ELSE [c EXCEPT !.head = h, !.tail = NULL]
  IN  Detached(d, t)

rq_push_tail_locked(c, t) ==
  LET d == [c EXCEPT !.prev[t] = c.tail, !.next[t] = NULL,
                     !.tail = t, !.onrq[t] = TRUE]
  IN  IF c.onrq[t] THEN c
      ELSE IF c.tail # NULL THEN [d EXCEPT !.next[c.tail] = t]
                            ELSE [d EXCEPT !.head = t]

\* Mutant: the tail is not moved back when the last task leaves.
remove_keeps_tail(c, t) ==
  LET p == c.prev[t]
      n == c.next[t]
      d == IF p # NULL THEN [c EXCEPT !.next[p] = n] ELSE [c EXCEPT !.head = n]
      e == IF n # NULL THEN [d EXCEPT !.prev[n] = p] ELSE d
  IN  IF c.onrq[t] THEN Detached(e, t) ELSE c

\* Mutant: the on_runqueue flag survives the unlinking.
remove_keeps_flag(c, t) ==
  LET p == c.prev[t]
      n == c.next[t]
      d == IF p # NULL THEN [c EXCEPT !.next[p] = n] ELSE [c EXCEPT !.head = n]
      e == IF n # NULL THEN [d EXCEPT !.prev[n] = p] ELSE [d EXCEPT !.tail = p]
  IN  IF c.onrq[t] THEN [e EXCEPT !.prev[t] = NULL, !.next[t] = NULL] ELSE c

rq_remove_locked(c, t) ==
  LET p == c.prev[t]
      n == c.next[t]
      d == IF p # NULL THEN [c EXCEPT !.next[p] = n] ELSE [c EXCEPT !.head = n]
      e == IF n # NULL THEN [d EXCEPT !.prev[n] = p] ELSE [d EXCEPT !.tail = p]
  IN  IF c.onrq[t] THEN Detached(e, t) ELSE c

\* The CPU after each turn of the loop that pops a task to see whether it can run.
PopTurns(c) ==
  LET Popped[n \in 0..Cardinality(Task)] ==
        IF n = 0 THEN c
        ELSE IF Popped[n - 1].head = NULL THEN Popped[n - 1]
        ELSE rq_pop_head_locked(Popped[n - 1])
  IN  Popped

Stops(c) == c.head = NULL \/ c.state[c.head] = "RUNNABLE"

\* The head, or the idle task, is made current.
Dispatch(c) ==
  IF c.head = NULL THEN [c EXCEPT !.current = Idle]
  ELSE [rq_pop_head_locked(c) EXCEPT !.current = c.head, !.state[c.head] = "RUNNING",
                                     !.need[c.head] = FALSE]

pick_next_runnable_locked(c) ==
  LET turn == PopTurns(c)
      last == CHOOSE n \in 0..Cardinality(Task) :
                Stops(turn[n]) /\ \A m \in 0..Cardinality(Task) : Stops(turn[m]) => n <= m
  IN  Dispatch(turn[last])

\* scheduler_task_set_blocked, _set_zombie and _set_unused.
SetState(c, t, st) == [rq_remove_locked(c, t) EXCEPT !.state[t] = st]

scheduler_task_make_runnable(c, t) ==
  rq_push_tail_locked(SetState(c, t, "RUNNABLE"), t)

schedule_common(c) ==
  LET prev == c.current
  IN  pick_next_runnable_locked(
        IF c.state[prev] = "RUNNING"
        THEN rq_push_tail_locked([c EXCEPT !.state[prev] = "RUNNABLE"], prev)
        ELSE c)

scheduler_tick(c) ==
  IF c.current # Idle /\ c.state[c.current] = "RUNNING"
  THEN [c EXCEPT !.need[c.current] = TRUE] ELSE c

\* scheduler_init and scheduler_set_boot_current.
BootCpu == [state   |-> [t \in Task |-> IF t = Boot THEN "RUNNING" ELSE "UNUSED"],
            onrq    |-> [t \in Task |-> FALSE],
            prev    |-> [t \in Task |-> NULL],
            next    |-> [t \in Task |-> NULL],
            head    |-> NULL, tail |-> NULL, current |-> Boot,
            need    |-> [t \in Task |-> FALSE]]

-----------------------------------------------------------------------------
(* The calls, as in Scheduler *)

Init == cpu = BootCpu /\ fresh = NULL

InKernel == fresh = NULL /\ cpu.current # Idle

Create(t) ==
  /\ InKernel /\ cpu.state[t] = "UNUSED"
  /\ cpu' = SetState(cpu, t, "BLOCKED") /\ fresh' = t

Finish ==
  /\ fresh # NULL
  /\ \/ cpu' = scheduler_task_make_runnable(cpu, fresh)
     \/ cpu' = SetState(cpu, fresh, "UNUSED")
  /\ fresh' = NULL

Wake(t) ==
  /\ cpu.state[t] = "BLOCKED"
  /\ cpu' = scheduler_task_make_runnable(cpu, t) /\ UNCHANGED fresh

Kill(t) ==
  /\ t # Boot /\ cpu.state[t] # "UNUSED"
  /\ cpu' = SetState(cpu, t, "ZOMBIE") /\ UNCHANGED fresh

Block ==
  InKernel /\ cpu' = SetState(cpu, cpu.current, "BLOCKED") /\ UNCHANGED fresh

Reap(t) ==
  /\ InKernel /\ t # cpu.current /\ cpu.state[t] = "ZOMBIE"
  /\ cpu' = SetState(cpu, t, "UNUSED") /\ UNCHANGED fresh

Yield == InKernel /\ cpu' = schedule_common(cpu) /\ UNCHANGED fresh

Tick == cpu' = scheduler_tick(cpu) /\ UNCHANGED fresh

Next ==
  \/ \E t \in Task : Create(t) \/ Wake(t) \/ Kill(t) \/ Reap(t)
  \/ Finish \/ Block \/ Yield \/ Tick

Spec == Init /\ [][Next]_vars

-----------------------------------------------------------------------------
(* Properties *)

\* The tasks met from rq_head along rq_next.
Visits(c) ==
  LET Visited[i \in 0..Cardinality(Task)] ==
        IF i = 0 THEN c.head
        ELSE IF Visited[i - 1] = NULL THEN NULL ELSE c.next[Visited[i - 1]]
  IN  Visited

Walk(c) ==
  LET n == Cardinality({i \in 0..Cardinality(Task) : Visits(c)[i] # NULL})
  IN  [i \in 1..n |-> Visits(c)[i - 1]]

\* The list can be walked both ways and its ends agree with the flags: rq_head and
\* rq_tail are null together, every neighbour points back, and on_runqueue is set
\* exactly on the tasks the list reaches (sched_invariant_check).
LinksAgree ==
  /\ cpu \in CpuState
  /\ (cpu.head = NULL) <=> (cpu.tail = NULL)
  /\ cpu.tail # NULL => cpu.next[cpu.tail] = NULL /\ cpu.onrq[cpu.tail]
  /\ cpu.head # NULL => cpu.prev[cpu.head] = NULL /\ cpu.onrq[cpu.head]
  /\ \A t \in Task :
       IF cpu.onrq[t]
       THEN /\ IF cpu.next[t] = NULL THEN cpu.tail = t ELSE cpu.prev[cpu.next[t]] = t
            /\ IF cpu.prev[t] = NULL THEN cpu.head = t ELSE cpu.next[cpu.prev[t]] = t
       ELSE cpu.next[t] = NULL /\ cpu.prev[t] = NULL

View(c) == [state |-> c.state, rq |-> Walk(c), current |-> c.current, need |-> c.need]

Abstract == INSTANCE Scheduler WITH sched <- View(cpu)

\* The linked list implements the queue: every call leaves rq_head..rq_next with the
\* tasks, in the order, that the sequence of module Scheduler holds.
ImplementsScheduler == Abstract!Spec
=============================================================================
