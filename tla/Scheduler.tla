----------------------------- MODULE Scheduler -----------------------------
(***************************************************************************)
(* The run queue and the task states of src/sys/scheduler.c, at the grain  *)
(* of its critical sections: every scheduler_* function runs under         *)
(* spin_lock_irqsave, so one call is one step, and the calls of a system   *)
(* call and those of an interrupt handler interleave between the steps.    *)
(*                                                                         *)
(* The kernel runs one CPU (g_local_cpu_id is set to 0 and never changed), *)
(* so there is one queue and one current task, and assigned_cpu, which     *)
(* only selects the queue, is left out.  The on_runqueue flag is           *)
(* membership in the sequence rq; module RunQueue keeps the flag and the   *)
(* rq_prev/rq_next links and is checked to implement this one.             *)
(*                                                                         *)
(* Each C function is an operator from a scheduler state to the next one,  *)
(* so that module Process can compose the calls a handler makes.           *)
(***************************************************************************)
EXTENDS Naturals, Sequences

CONSTANTS Task,   \* the slots of g_tasks
          Boot,   \* the slot process_init hands to scheduler_set_boot_current
          Idle    \* the idle task of the CPU, never in g_tasks

ASSUME TaskAssumption == Boot \in Task /\ Idle \notin Task

VARIABLES sched,  \* the state of scheduler.c and of the fields of task_t it owns
          fresh   \* the slot process_fork or process_spawn_exec is filling, or None

vars == <<sched, fresh>>

None == Idle      \* NULL: never a slot of g_tasks

TaskState == {"UNUSED", "RUNNABLE", "RUNNING", "BLOCKED", "ZOMBIE"}

SchedState == [state   : [Task -> TaskState],
               rq      : Seq(Task),
               current : Task \cup {Idle},
               need    : [Task -> BOOLEAN]]

-----------------------------------------------------------------------------
(* The run queue *)

Queued(s, t) == \E i \in 1..Len(s.rq) : s.rq[i] = t

Place(q, t) == CHOOSE i \in 1..Len(q) : q[i] = t

rq_remove_locked(s, t) ==
  IF ~Queued(s, t) THEN s
  ELSE [s EXCEPT !.rq =
          [i \in 1..(Len(@) - 1) |-> IF i < Place(@, t) THEN @[i] ELSE @[i + 1]]]

\* Mutant: the queue is pushed at its head.
rq_push_head(s, t) ==
  IF Queued(s, t) THEN s ELSE [s EXCEPT !.rq = <<t>> \o @]

rq_push_tail_locked(s, t) ==
  IF Queued(s, t) THEN s ELSE [s EXCEPT !.rq = Append(@, t)]

FirstRunnable(s, i) ==
  /\ i \in 1..Len(s.rq)
  /\ s.state[s.rq[i]] = "RUNNABLE"
  /\ \A j \in 1..(i - 1) : s.state[s.rq[j]] # "RUNNABLE"

\* Pops the head until a RUNNABLE task comes out; the idle task if none does.
\* The task picked becomes current and RUNNING, its resched request is cleared.
pick_next_runnable_locked(s) ==
  IF \E i \in 1..Len(s.rq) : FirstRunnable(s, i)
  THEN LET k == CHOOSE i \in 1..Len(s.rq) : FirstRunnable(s, i)
           n == s.rq[k]
       IN  [s EXCEPT !.rq = SubSeq(@, k + 1, Len(@)),
                     !.current = n,
                     !.state[n] = "RUNNING",
                     !.need[n] = FALSE]
  ELSE [s EXCEPT !.rq = <<>>, !.current = Idle]

-----------------------------------------------------------------------------
(* The functions of scheduler.h *)

Leave(s, t, st) == [rq_remove_locked(s, t) EXCEPT !.state[t] = st]

\* Mutant: the task is marked ZOMBIE but stays linked on the queue.
zombie_left_queued(s, t) == [s EXCEPT !.state[t] = "ZOMBIE"]

scheduler_task_set_blocked(s, t) == Leave(s, t, "BLOCKED")
scheduler_task_set_zombie(s, t)  == Leave(s, t, "ZOMBIE")
scheduler_task_set_unused(s, t)  == Leave(s, t, "UNUSED")

scheduler_task_make_runnable(s, t) ==
  rq_push_tail_locked(Leave(s, t, "RUNNABLE"), t)

schedule_common(s) ==
  LET prev == s.current
  IN  pick_next_runnable_locked(
        IF prev # Idle /\ s.state[prev] = "RUNNING"
        THEN rq_push_tail_locked([s EXCEPT !.state[prev] = "RUNNABLE"], prev)
        ELSE s)

scheduler_tick(s) ==
  IF s.current # Idle /\ s.state[s.current] = "RUNNING"
  THEN [s EXCEPT !.need[s.current] = TRUE]
  ELSE s

\* scheduler_init leaves the idle task current; scheduler_set_boot_current then
\* installs the boot task without going through the queue.
BootState == [state   |-> [t \in Task |-> IF t = Boot THEN "RUNNING" ELSE "UNUSED"],
              rq      |-> <<>>,
              current |-> Boot,
              need    |-> [t \in Task |-> FALSE]]

-----------------------------------------------------------------------------
(* The calls the kernel makes, each in the situations its callers allow *)

Init == sched = BootState /\ fresh = None

\* process_fork and process_spawn_exec take a free slot and block it ...
Create(t) ==
  /\ fresh = None /\ sched.current # Idle
  /\ sched.state[t] = "UNUSED"
  /\ sched' = scheduler_task_set_blocked(sched, t)
  /\ fresh' = t

\* ... and, with interrupts enabled in between, make it runnable, whatever an
\* interrupt did to it meanwhile, or (a failed spawn) give the slot back.
Publish ==
  /\ fresh # None
  /\ sched' = scheduler_task_make_runnable(sched, fresh)
  /\ fresh' = None

Discard ==
  /\ fresh # None
  /\ sched' = scheduler_task_set_unused(sched, fresh)
  /\ fresh' = None

\* A child's death or a handled signal wakes a blocked task.
Wake(t) ==
  /\ sched.state[t] = "BLOCKED"
  /\ sched' = scheduler_task_make_runnable(sched, t)
  /\ UNCHANGED fresh

\* Exit, or a fatal signal sent by a task or by the terminal interrupt.
Kill(t) ==
  /\ t # Boot /\ sched.state[t] # "UNUSED"
  /\ sched' = scheduler_task_set_zombie(sched, t)
  /\ UNCHANGED fresh

\* The blocking half of process_wait_any and process_wait_pid: it does not look
\* at the state an interrupt may have given the current task.
Block ==
  /\ fresh = None /\ sched.current # Idle
  /\ sched' = scheduler_task_set_blocked(sched, sched.current)
  /\ UNCHANGED fresh

\* A parent, which is current, reaps a child.
Reap(t) ==
  /\ fresh = None /\ sched.current \notin {Idle, t}
  /\ sched.state[t] = "ZOMBIE"
  /\ sched' = scheduler_task_set_unused(sched, t)
  /\ UNCHANGED fresh

\* The idle loop only halts: it is never the caller.
Yield ==
  /\ fresh = None /\ sched.current # Idle
  /\ sched' = schedule_common(sched)
  /\ UNCHANGED fresh

Tick == sched' = scheduler_tick(sched) /\ UNCHANGED fresh

Next ==
  \/ \E t \in Task : Create(t) \/ Wake(t) \/ Kill(t) \/ Reap(t)
  \/ Publish \/ Discard \/ Block \/ Yield \/ Tick

Spec == Init /\ [][Next]_vars

\* A slot under construction is finished, and a task that keeps making system
\* calls passes the need_resched test at the end of syscall_handler.
FairSpec == Spec /\ SF_vars(Yield) /\ WF_vars(Publish \/ Discard)

-----------------------------------------------------------------------------
(* Properties *)

TypeOK == sched \in SchedState /\ fresh \in Task \cup {None}

\* The assertions of sched_invariant_check on each task and the queue: no task is linked
\* twice, every linked task is RUNNABLE and every RUNNABLE task is linked, whatever the
\* order in which interrupts and system calls block, wake, kill and requeue it.  (Those
\* on the current task and an empty queue are looked at in module Process.)
QueueMatchesState ==
  /\ \A i, j \in 1..Len(sched.rq) : sched.rq[i] = sched.rq[j] => i = j
  /\ \A t \in Task : Queued(sched, t) <=> sched.state[t] = "RUNNABLE"

\* One CPU runs one task: only the current task is RUNNING, the current task has
\* not been reaped, and neither has a slot that fork or spawn is still filling.
RunningIsCurrent ==
  /\ \A t \in Task : sched.state[t] = "RUNNING" => t = sched.current
  /\ sched.current # Idle => sched.state[sched.current] # "UNUSED"
  /\ fresh # None => /\ sched.state[fresh] # "UNUSED"
                     /\ sched.current \notin {Idle, fresh}

\* scheduler_yield is FIFO: a queued task never gets further from the head, unless
\* it is itself queued again at the tail (process_set_state on a slot that a
\* handled signal had already made runnable).
NoOvertaking ==
  [][\A t \in Task :
       Queued(sched, t) /\ Queued(sched', t) =>
         \/ Place(sched'.rq, t) <= Place(sched.rq, t)
         \/ Place(sched'.rq, t) = Len(sched'.rq)]_vars

\* While the idle task is never picked, no runnable task starves.  (The idle loop
\* does not yield, so nothing is promised once it runs.)
RunnableRuns ==
  [](sched.current # Idle) =>
    \A t \in Task : sched.state[t] = "RUNNABLE" ~> sched.state[t] # "RUNNABLE"
=============================================================================
