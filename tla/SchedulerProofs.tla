-------------------------- MODULE SchedulerProofs --------------------------
(***************************************************************************)
(* For every set of tasks, the run queue and the task states of Scheduler  *)
(* stay consistent.  The conjunction of the three invariants is inductive; *)
(* the lemmas say what each queue operation does to membership in the      *)
(* queue, so that the actions are treated without looking at positions.    *)
(***************************************************************************)
EXTENDS Scheduler, TLAPS

Distinct(q) == \A i, j \in 1..Len(q) : q[i] = q[j] => i = j

\* The part of the invariant that the queue operations need.
Sound(s) == s \in SchedState /\ Distinct(s.rq)

\* r differs from s in its queue only.
SameButQueue(r, s) == r.state = s.state /\ r.current = s.current /\ r.need = s.need

Matches(s) == \A t \in Task : Queued(s, t) <=> s.state[t] = "RUNNABLE"

IInv == TypeOK /\ QueueMatchesState /\ RunningIsCurrent

-----------------------------------------------------------------------------
(* What the two list operations do to a sequence without repetitions *)

Elem(q, x) == \E i \in 1..Len(q) : q[i] = x

LEMMA DropOne ==
  ASSUME NEW q \in Seq(Task), Distinct(q), NEW p \in 1..Len(q),
         NEW r, r = [i \in 1..(Len(q) - 1) |-> IF i < p THEN q[i] ELSE q[i + 1]]
  PROVE  /\ r \in Seq(Task) /\ Distinct(r)
         /\ \A x \in Task : Elem(r, x) <=> x # q[p] /\ Elem(q, x)
<1>1. PICK n \in Nat : n = Len(q)
  OBVIOUS
<1>2. r \in Seq(Task) /\ Len(r) = n - 1
  BY <1>1
<1>3. \A i \in 1..(n - 1) : /\ i < p => r[i] = q[i]
                            /\ ~(i < p) => r[i] = q[i + 1]
                            /\ i \in 1..n /\ i + 1 \in 1..n
  BY <1>1
<1>4. \A i, j \in 1..n : q[i] = q[j] => i = j
  BY <1>1 DEF Distinct
<1>5. Distinct(r)
  <2>1. SUFFICES ASSUME NEW i \in 1..(n - 1), NEW j \in 1..(n - 1), r[i] = r[j]
                 PROVE  i = j
    BY <1>2 DEF Distinct
  <2>. QED
    BY <2>1, <1>1, <1>3, <1>4
<1>6. ASSUME NEW x \in Task, Elem(r, x) PROVE x # q[p] /\ Elem(q, x)
  <2>1. PICK i \in 1..(n - 1) : r[i] = x
    BY <1>2, <1>6 DEF Elem
  <2>. QED
    BY <2>1, <1>1, <1>3, <1>4 DEF Elem
<1>7. ASSUME NEW x \in Task, x # q[p], Elem(q, x) PROVE Elem(r, x)
  <2>1. PICK i \in 1..n : q[i] = x
    BY <1>1, <1>7 DEF Elem
  <2>2. CASE i < p
    <3>1. i \in 1..(n - 1) /\ r[i] = x
      BY <2>1, <2>2, <1>1, <1>3
    <3>. QED
      BY <3>1, <1>2 DEF Elem
  <2>3. CASE i > p
    <3>1. i - 1 \in 1..(n - 1) /\ ~(i - 1 < p) /\ (i - 1) + 1 = i
      BY <2>3, <1>1
    <3>2. r[i - 1] = x
      BY <3>1, <2>1, <1>3
    <3>. QED
      BY <3>1, <3>2, <1>2 DEF Elem
  <2>. QED
    BY <2>1, <2>2, <2>3, <1>1, <1>7
<1>. QED
  BY <1>2, <1>5, <1>6, <1>7

LEMMA AddOne ==
  ASSUME NEW q \in Seq(Task), Distinct(q), NEW t \in Task, ~Elem(q, t)
  PROVE  /\ Append(q, t) \in Seq(Task) /\ Distinct(Append(q, t))
         /\ \A x \in Task : Elem(Append(q, t), x) <=> x = t \/ Elem(q, x)
<1>1. PICK n \in Nat : n = Len(q)
  OBVIOUS
<1>2. PICK r : r = Append(q, t)
  OBVIOUS
<1>3. /\ r \in Seq(Task) /\ Len(r) = n + 1 /\ r[n + 1] = t
      /\ \A i \in 1..n : r[i] = q[i]
      /\ 1..(n + 1) = 1..n \cup {n + 1}
  BY <1>1, <1>2
<1>4. Distinct(r)
  BY <1>1, <1>3 DEF Distinct, Elem
<1>5. \A x \in Task : Elem(r, x) <=> x = t \/ Elem(q, x)
  BY <1>1, <1>3 DEF Elem
<1>. QED
  BY <1>2, <1>3, <1>4, <1>5

LEMMA DropPrefix ==
  ASSUME NEW q \in Seq(Task), Distinct(q), NEW p \in 1..Len(q),
         NEW r, r = SubSeq(q, p + 1, Len(q))
  PROVE  /\ r \in Seq(Task) /\ Distinct(r)
         /\ \A x \in Task : Elem(r, x) <=> \E i \in (p + 1)..Len(q) : q[i] = x
<1>1. PICK n \in Nat : n = Len(q)
  OBVIOUS
<1>3. r \in Seq(Task) /\ Len(r) = n - p /\ \A i \in 1..(n - p) : r[i] = q[i + p]
  <2>1. r \in Seq(Task)
    BY SMTT(30)
  <2>2. Len(r) = Len(q) - p
    BY SMTT(30)
  <2>3. \A i \in 1..(Len(q) - p) : r[i] = q[i + p]
    BY SMTT(30)
  <2>. QED
    BY <1>1, <2>1, <2>2, <2>3
<1>4. Distinct(r)
  <2>1. SUFFICES ASSUME NEW i \in 1..(n - p), NEW j \in 1..(n - p), i # j
                 PROVE  r[i] # r[j]
    BY <1>3 DEF Distinct
  <2>2. i + p \in 1..n /\ j + p \in 1..n /\ i + p # j + p
    BY <1>1, <2>1
  <2>3. q[i + p] # q[j + p]
    BY <1>1, <2>2 DEF Distinct
  <2>. QED
    BY <1>3, <2>3
<1>5. ASSUME NEW x \in Task, Elem(r, x) PROVE \E i \in (p + 1)..n : q[i] = x
  <2>1. PICK i \in 1..(n - p) : r[i] = x
    BY <1>3, <1>5 DEF Elem
  <2>2. i + p \in (p + 1)..n /\ q[i + p] = x
    BY <2>1, <1>1, <1>3
  <2>. QED
    BY <2>2
<1>6. ASSUME NEW x \in Task, NEW i \in (p + 1)..n, q[i] = x PROVE Elem(r, x)
  <2>1. i - p \in 1..(n - p) /\ (i - p) + p = i
    BY <1>1
  <2>2. r[i - p] = x
    BY <2>1, <1>3, <1>6
  <2>. QED
    BY <2>1, <2>2, <1>3 DEF Elem
<1>. QED
  BY <1>1, <1>3, <1>4, <1>5, <1>6

-----------------------------------------------------------------------------
(* What the functions of scheduler.c do to a sound state *)

\* Storing a sequence without repetitions as the queue keeps a state sound.
LEMMA NewQueue ==
  ASSUME NEW s, Sound(s), NEW q \in Seq(Task), Distinct(q)
  PROVE  LET r == [s EXCEPT !.rq = q]
         IN  Sound(r) /\ r.rq = q /\ SameButQueue(r, s)
BY DEF Sound, SchedState, SameButQueue

\* Storing a state for one task keeps a state sound.
LEMMA NewState ==
  ASSUME NEW s, Sound(s), NEW t \in Task, NEW st \in TaskState
  PROVE  LET r == [s EXCEPT !.state[t] = st]
         IN  /\ Sound(r) /\ r.rq = s.rq /\ r.current = s.current
             /\ r.state = [s.state EXCEPT ![t] = st]
BY DEF Sound, SchedState

\* rq_remove_locked unlinks t, if it is linked, and nothing else.
LEMMA RemoveUnlinks ==
  ASSUME NEW s, Sound(s), NEW t \in Task
  PROVE  LET r == rq_remove_locked(s, t)
         IN  /\ Sound(r) /\ SameButQueue(r, s)
             /\ \A u \in Task : Queued(r, u) <=> u # t /\ Queued(s, u)
<1>1. PICK g \in Seq(Task) : g = s.rq
  BY DEF Sound, SchedState
<1>0. Distinct(g)
  BY <1>1 DEF Sound
<1>2. CASE ~Queued(s, t)
  BY <1>2 DEF rq_remove_locked, SameButQueue, Queued
<1>3. CASE Queued(s, t)
  <2>1. PICK p \in 1..Len(g) : p = Place(g, t) /\ g[p] = t
    BY <1>1, <1>3 DEF Queued, Place
  <2>2. PICK q : q = [i \in 1..(Len(g) - 1) |-> IF i < p THEN g[i] ELSE g[i + 1]]
    OBVIOUS
  <2>3. /\ q \in Seq(Task) /\ Distinct(q)
        /\ \A x \in Task : Elem(q, x) <=> x # g[p] /\ Elem(g, x)
    BY <1>0, <2>2, DropOne
  <2>4. rq_remove_locked(s, t) = [s EXCEPT !.rq = q]
    BY <1>1, <1>3, <2>1, <2>2 DEF rq_remove_locked
  <2>. QED
    BY <1>1, <2>1, <2>3, <2>4, NewQueue DEF SameButQueue, Queued, Elem
<1>. QED
  BY <1>2, <1>3

\* rq_push_tail_locked links t, unless it is linked already, and nothing else.
LEMMA PushLinks ==
  ASSUME NEW s, Sound(s), NEW t \in Task
  PROVE  LET r == rq_push_tail_locked(s, t)
         IN  /\ Sound(r) /\ SameButQueue(r, s)
             /\ \A u \in Task : Queued(r, u) <=> u = t \/ Queued(s, u)
<1>1. PICK g \in Seq(Task) : g = s.rq
  BY DEF Sound, SchedState
<1>0. Distinct(g)
  BY <1>1 DEF Sound
<1>2. CASE Queued(s, t)
  BY <1>2 DEF rq_push_tail_locked, SameButQueue, Queued
<1>3. CASE ~Queued(s, t)
  <2>1. PICK q : q = Append(g, t)
    OBVIOUS
  <2>2. ~Elem(g, t)
    BY <1>1, <1>3 DEF Queued, Elem
  <2>3. /\ q \in Seq(Task) /\ Distinct(q)
        /\ \A x \in Task : Elem(q, x) <=> x = t \/ Elem(g, x)
    BY <1>0, <2>1, <2>2, AddOne
  <2>4. rq_push_tail_locked(s, t) = [s EXCEPT !.rq = q]
    BY <1>1, <1>3, <2>1 DEF rq_push_tail_locked
  <2>. QED
    BY <1>1, <2>3, <2>4, NewQueue DEF SameButQueue, Queued, Elem
<1>. QED
  BY <1>2, <1>3

\* Every call but a yield gives t a state of its own and a place in the queue that
\* fits it: none in Leave, the last one in scheduler_task_make_runnable.
LEMMA LeaveMoves ==
  ASSUME NEW s, Sound(s), NEW t \in Task, NEW st \in TaskState
  PROVE  LET r == Leave(s, t, st)
         IN  /\ Sound(r) /\ r.current = s.current
             /\ r.state = [s.state EXCEPT ![t] = st]
             /\ \A u \in Task : Queued(r, u) <=> u # t /\ Queued(s, u)
<1>1. PICK d : d = rq_remove_locked(s, t)
  OBVIOUS
<1>2. /\ Sound(d) /\ SameButQueue(d, s)
      /\ \A u \in Task : Queued(d, u) <=> u # t /\ Queued(s, u)
  BY <1>1, RemoveUnlinks
<1>3. Leave(s, t, st) = [d EXCEPT !.state[t] = st]
  BY <1>1 DEF Leave
<1>. QED
  BY <1>2, <1>3, NewState DEF SameButQueue, Queued

LEMMA MakeRunnableMoves ==
  ASSUME NEW s, Sound(s), NEW t \in Task
  PROVE  LET r == scheduler_task_make_runnable(s, t)
         IN  /\ Sound(r) /\ r.current = s.current
             /\ r.state = [s.state EXCEPT ![t] = "RUNNABLE"]
             /\ \A u \in Task : Queued(r, u) <=> u = t \/ Queued(s, u)
<1>1. PICK d : d = Leave(s, t, "RUNNABLE")
  OBVIOUS
<1>2. /\ Sound(d) /\ d.current = s.current
      /\ d.state = [s.state EXCEPT ![t] = "RUNNABLE"]
      /\ \A u \in Task : Queued(d, u) <=> u # t /\ Queued(s, u)
  BY <1>1, LeaveMoves DEF TaskState
<1>3. scheduler_task_make_runnable(s, t) = rq_push_tail_locked(d, t)
  BY <1>1 DEF scheduler_task_make_runnable
<1>. QED
  BY <1>2, <1>3, PushLinks DEF SameButQueue

\* With every linked task RUNNABLE the search for a successor stops at the head.
LEMMA PickRuns ==
  ASSUME NEW s, Sound(s), Matches(s)
  PROVE  LET r == pick_next_runnable_locked(s)
         IN  /\ Sound(r) /\ Matches(r)
             /\ r.current # Idle => /\ r.state[r.current] = "RUNNING"
                                    /\ s.state[r.current] = "RUNNABLE"
             /\ \A t \in Task : t # r.current => r.state[t] = s.state[t]
<1>1. PICK g \in Seq(Task) : g = s.rq
  BY DEF Sound, SchedState
<1>0. Distinct(g)
  BY <1>1 DEF Sound
<1>2. \A i \in 1..Len(g) : g[i] \in Task /\ s.state[g[i]] = "RUNNABLE"
  BY <1>1 DEF Matches, Queued
<1>3. CASE s.rq = <<>>
  <2>1. pick_next_runnable_locked(s) = [s EXCEPT !.rq = <<>>, !.current = Idle]
    BY <1>3 DEF pick_next_runnable_locked
  <2>2. PICK r : r = pick_next_runnable_locked(s)
    OBVIOUS
  <2>3. r = [state |-> s.state, rq |-> <<>>, current |-> Idle, need |-> s.need]
    BY <2>1, <2>2 DEF Sound, SchedState
  <2>4. r \in SchedState /\ \A t \in Task : ~Queued(r, t) /\ ~Queued(s, t)
    BY <2>3, <1>3 DEF Sound, SchedState, Queued
  <2>. QED
    BY <2>2, <2>3, <2>4 DEF Sound, Matches, Distinct
<1>4. CASE s.rq # <<>>
  <2>1. PICK p \in 1..Len(g) : p = 1
    BY <1>1, <1>4
  <2>2. \A i \in 1..Len(g) : FirstRunnable(s, i) <=> i = p
    BY <1>1, <1>2, <2>1 DEF FirstRunnable
  <2>3. PICK n \in Task : n = g[p]
    BY <1>2
  <2>4. PICK q : q = SubSeq(g, p + 1, Len(g))
    OBVIOUS
  <2>5. pick_next_runnable_locked(s) =
          [s EXCEPT !.rq = q, !.current = n, !.state[n] = "RUNNING", !.need[n] = FALSE]
    <3>1. p = CHOOSE i \in 1..Len(g) : FirstRunnable(s, i)
      BY <2>2
    <3>. QED
      BY <1>1, <3>1, <2>2, <2>3, <2>4 DEF pick_next_runnable_locked
  <2>6. /\ q \in Seq(Task) /\ Distinct(q)
        /\ \A x \in Task : Elem(q, x) <=> \E i \in (p + 1)..Len(g) : g[i] = x
    BY <1>0, <2>4, DropPrefix
  <2>7. \A x \in Task : Elem(q, x) <=> x # n /\ Queued(s, x)
    <3>1. \A i \in 1..Len(g) : i \in (p + 1)..Len(g) <=> i # p
      BY <1>1, <2>1
    <3>2. (p + 1)..Len(g) \subseteq 1..Len(g)
      BY <1>1, <2>1
    <3>3. \A i \in 1..Len(g) : i # p <=> g[i] # n
      BY <1>0, <2>3 DEF Distinct
    <3>. QED
      BY <1>1, <2>6, <3>1, <3>2, <3>3 DEF Queued
  <2>8. PICK r : r = pick_next_runnable_locked(s)
    OBVIOUS
  <2>9. /\ r.rq = q /\ r.current = n /\ r \in SchedState
        /\ r.state = [s.state EXCEPT ![n] = "RUNNING"]
    <3>1. r = [state |-> [s.state EXCEPT ![n] = "RUNNING"], rq |-> q, current |-> n,
               need |-> [s.need EXCEPT ![n] = FALSE]]
      BY <2>5, <2>8 DEF Sound, SchedState
    <3>2. /\ [s.state EXCEPT ![n] = "RUNNING"] \in [Task -> TaskState]
          /\ [s.need EXCEPT ![n] = FALSE] \in [Task -> BOOLEAN]
      BY DEF Sound, SchedState, TaskState
    <3>. QED
      BY <3>1, <3>2, <2>6 DEF SchedState
  <2>10. Matches(r)
    <3>1. \A x \in Task : Queued(r, x) <=> x # n /\ Queued(s, x)
      BY <2>7, <2>9 DEF Queued, Elem
    <3>2. s.state \in [Task -> TaskState]
      BY DEF Sound, SchedState
    <3>. QED
      BY <3>1, <3>2, <2>9 DEF Matches
  <2>. QED
    BY <1>2, <2>3, <2>6, <2>8, <2>9, <2>10 DEF Sound, SchedState
<1>. QED
  BY <1>3, <1>4

-----------------------------------------------------------------------------
(* The invariant *)

\* IInv in terms of the scheduler state and the slot under construction.
Good == /\ Sound(sched) /\ Matches(sched)
        /\ fresh \in Task \cup {None} /\ RunningIsCurrent

LEMMA IInvIsGood == IInv <=> Good
BY DEF IInv, TypeOK, QueueMatchesState, Good, Sound, Matches, Distinct

LEMMA IInvIsGoodNext == IInv' <=> Good'
BY DEF IInv, TypeOK, QueueMatchesState, Good, Sound, Matches, Distinct

LEMMA InitIInv == Init => IInv
<1> SUFFICES ASSUME Init PROVE IInv
  OBVIOUS
<1>1. sched = BootState /\ fresh = None
  BY DEF Init
<1>2. sched \in SchedState /\ sched.rq = <<>> /\ sched.current = Boot
  BY <1>1, TaskAssumption DEF BootState, SchedState, TaskState
<1>3. \A t \in Task : sched.state[t] = IF t = Boot THEN "RUNNING" ELSE "UNUSED"
  BY <1>1 DEF BootState
<1>4. \A t \in Task : ~Queued(sched, t)
  BY <1>2 DEF Queued
<1>. QED
  BY <1>1, <1>2, <1>3, <1>4, TaskAssumption
     DEF IInv, TypeOK, QueueMatchesState, RunningIsCurrent, None

\* A step that moves one task to a state other than RUNNING, out of the queue or to
\* its tail as that state requires, keeps the queue matched with the states.
LEMMA MoveMatches ==
  ASSUME NEW s, NEW r, NEW t \in Task, NEW st \in TaskState,
         Matches(s), s \in SchedState, r.state = [s.state EXCEPT ![t] = st],
         \A u \in Task : u # t => (Queued(r, u) <=> Queued(s, u)),
         Queued(r, t) <=> st = "RUNNABLE"
  PROVE  Matches(r)
BY DEF Matches, SchedState

\* The calls that take a task out of the queue and give it a state.
LEMMA LeaveGood ==
  ASSUME Good, NEW t \in Task, NEW st \in {"UNUSED", "BLOCKED", "ZOMBIE"},
         sched' = Leave(sched, t, st), fresh' \in {fresh, t, None},
         st = "UNUSED" => t \notin {sched.current, fresh'},
         fresh' # None => sched.current \notin {Idle, fresh'}
  PROVE  Good'
<1>0. /\ Sound(sched) /\ Matches(sched) /\ sched \in SchedState /\ st \in TaskState
      /\ sched.state \in [Task -> TaskState] /\ sched.current \in Task \cup {Idle}
  BY DEF Good, Sound, SchedState, TaskState
<1>1. /\ Sound(sched') /\ sched'.current = sched.current
      /\ sched'.state = [sched.state EXCEPT ![t] = st]
      /\ \A u \in Task : Queued(sched', u) <=> u # t /\ Queued(sched, u)
  BY <1>0, LeaveMoves
<1>2. Matches(sched')
  BY <1>0, <1>1, MoveMatches
<1>3. fresh' \in Task \cup {None}
  BY DEF Good
<1>4. RunningIsCurrent'
  BY <1>0, <1>1, <1>3, TaskAssumption DEF RunningIsCurrent, Good, None
<1>. QED
  BY <1>1, <1>2, <1>3, <1>4 DEF Good

\* The calls that queue a task.
LEMMA QueueGood ==
  ASSUME Good, NEW t \in Task, sched' = scheduler_task_make_runnable(sched, t),
         fresh' \in {fresh, None}
  PROVE  Good'
<1>0. /\ Sound(sched) /\ Matches(sched) /\ sched \in SchedState
      /\ sched.state \in [Task -> TaskState] /\ sched.current \in Task \cup {Idle}
  BY DEF Good, Sound, SchedState
<1>1. /\ Sound(sched') /\ sched'.current = sched.current
      /\ sched'.state = [sched.state EXCEPT ![t] = "RUNNABLE"]
      /\ \A u \in Task : Queued(sched', u) <=> u = t \/ Queued(sched, u)
  BY <1>0, MakeRunnableMoves
<1>2. Matches(sched')
  BY <1>0, <1>1, MoveMatches DEF TaskState
<1>3. RunningIsCurrent'
  BY <1>0, <1>1 DEF RunningIsCurrent, Good
<1>. QED
  BY <1>1, <1>2, <1>3 DEF Good

\* scheduler_yield: the task that gives up the CPU is queued before a successor is
\* picked, so it is RUNNABLE, or no longer able to run, when it stops being current.
LEMMA ScheduleRuns ==
  ASSUME NEW s, Sound(s), Matches(s),
         \A t \in Task : s.state[t] = "RUNNING" => t = s.current
  PROVE  LET r == schedule_common(s)
         IN  /\ Sound(r) /\ Matches(r)
             /\ \A t \in Task : r.state[t] = "RUNNING" => t = r.current
             /\ r.current # Idle => /\ r.state[r.current] = "RUNNING"
                                    /\ s.state[r.current] \in {"RUNNABLE", "RUNNING"}
             /\ \A t \in Task : IF s.state[t] \in {"RUNNABLE", "RUNNING"}
                                THEN r.state[t] \in {"RUNNABLE", "RUNNING"}
                                ELSE r.state[t] = s.state[t]
<1>0. /\ s \in SchedState /\ s.state \in [Task -> TaskState]
      /\ s.current \in Task \cup {Idle}
  BY DEF Sound, SchedState
<1>1. PICK p : p = IF s.current # Idle /\ s.state[s.current] = "RUNNING"
                   THEN rq_push_tail_locked([s EXCEPT !.state[s.current] = "RUNNABLE"], s.current)
                   ELSE s
  OBVIOUS
<1>2. PICK r : r = schedule_common(s)
  OBVIOUS
<1>3. r = pick_next_runnable_locked(p)
  BY <1>1, <1>2 DEF schedule_common
<1>4. /\ Sound(p) /\ Matches(p)
      /\ \A t \in Task : p.state[t] = IF s.state[t] = "RUNNING" THEN "RUNNABLE" ELSE s.state[t]
  <2>1. CASE ~(s.current # Idle /\ s.state[s.current] = "RUNNING")
    BY <1>0, <1>1, <2>1, TaskAssumption
  <2>2. CASE s.current # Idle /\ s.state[s.current] = "RUNNING"
    <3>1. PICK d : d = [s EXCEPT !.state[s.current] = "RUNNABLE"]
      OBVIOUS
    <3>2. /\ Sound(d) /\ d.rq = s.rq
          /\ d.state = [s.state EXCEPT ![s.current] = "RUNNABLE"]
      BY <1>0, <2>2, <3>1, NewState DEF TaskState
    <3>3. p = rq_push_tail_locked(d, s.current)
      BY <1>1, <2>2, <3>1
    <3>4. /\ Sound(p) /\ p.state = d.state
          /\ \A u \in Task : Queued(p, u) <=> u = s.current \/ Queued(d, u)
      BY <1>0, <2>2, <3>2, <3>3, PushLinks DEF SameButQueue
    <3>5. \A u \in Task : Queued(d, u) <=> Queued(s, u)
      BY <3>2 DEF Queued
    <3>. QED
      BY <1>0, <2>2, <3>2, <3>4, <3>5 DEF Matches
  <2>. QED
    BY <2>1, <2>2
<1>5. /\ Sound(r) /\ Matches(r)
      /\ r.current # Idle => r.state[r.current] = "RUNNING" /\ p.state[r.current] = "RUNNABLE"
      /\ \A t \in Task : t # r.current => r.state[t] = p.state[t]
  BY <1>3, <1>4, PickRuns
<1>6. r.current \in Task \cup {Idle}
  BY <1>5 DEF Sound, SchedState
<1>7. \A t \in Task : p.state[t] # "RUNNING"
  BY <1>4
<1>8. \A t \in Task : r.state[t] = "RUNNING" => t = r.current
  BY <1>5, <1>7
<1>9. r.current # Idle => s.state[r.current] \in {"RUNNABLE", "RUNNING"}
  BY <1>4, <1>5, <1>6
<1>10. ASSUME NEW t \in Task
       PROVE  IF s.state[t] \in {"RUNNABLE", "RUNNING"}
              THEN r.state[t] \in {"RUNNABLE", "RUNNING"} ELSE r.state[t] = s.state[t]
  <2>1. CASE t # r.current
    BY <1>4, <1>5, <2>1
  <2>2. CASE t = r.current
    <3>1. r.current # Idle
      BY <2>2, TaskAssumption
    <3>. QED
      BY <3>1, <2>2, <1>5, <1>9
  <2>. QED
    BY <2>1, <2>2
<1>. QED
  BY <1>2, <1>5, <1>8, <1>9, <1>10

LEMMA YieldGood ==
  ASSUME Good, Yield
  PROVE  Good'
<1>0. /\ Sound(sched) /\ Matches(sched) /\ sched \in SchedState /\ fresh' = None
      /\ sched' = schedule_common(sched)
      /\ \A t \in Task : sched.state[t] = "RUNNING" => t = sched.current
  BY DEF Good, Sound, SchedState, Yield, RunningIsCurrent
<1>1. /\ Sound(sched') /\ Matches(sched')
      /\ \A t \in Task : sched'.state[t] = "RUNNING" => t = sched'.current
      /\ sched'.current # Idle => sched'.state[sched'.current] = "RUNNING"
  BY <1>0, ScheduleRuns
<1>. QED
  BY <1>0, <1>1 DEF Good, RunningIsCurrent

LEMMA TickGood ==
  ASSUME Good, Tick
  PROVE  Good'
<1>1. /\ sched' \in SchedState /\ sched'.rq = sched.rq /\ fresh' = fresh
      /\ sched'.state = sched.state /\ sched'.current = sched.current
  BY DEF Good, Sound, SchedState, Tick, scheduler_tick
<1>2. \A t \in Task : Queued(sched', t) <=> Queued(sched, t)
  BY <1>1 DEF Queued
<1>. QED
  BY <1>1, <1>2 DEF Good, Sound, Matches, RunningIsCurrent

LEMMA NextIInv == IInv /\ [Next]_vars => IInv'
<1> SUFFICES ASSUME Good, [Next]_vars PROVE Good'
  BY IInvIsGood, IInvIsGoodNext
<1> USE DEF scheduler_task_set_blocked, scheduler_task_set_zombie,
            scheduler_task_set_unused
<1>0. /\ RunningIsCurrent /\ fresh \in Task \cup {None}
      /\ sched.current \in Task \cup {Idle}
  BY DEF Good, Sound, SchedState
<1>1. ASSUME NEW t \in Task, Create(t) PROVE Good'
  BY <1>0, <1>1, LeaveGood, TaskAssumption DEF Create, RunningIsCurrent
<1>2. CASE Publish
  BY <1>0, <1>2, QueueGood DEF Publish
<1>3. CASE Discard
  BY <1>0, <1>3, LeaveGood DEF Discard, RunningIsCurrent
<1>4. ASSUME NEW t \in Task, Wake(t) PROVE Good'
  BY <1>4, QueueGood DEF Wake
<1>5. ASSUME NEW t \in Task, Kill(t) PROVE Good'
  BY <1>0, <1>5, LeaveGood DEF Kill, RunningIsCurrent
<1>6. CASE Block
  BY <1>0, <1>6, LeaveGood DEF Block, RunningIsCurrent
<1>7. ASSUME NEW t \in Task, Reap(t) PROVE Good'
  <2>1. sched' = Leave(sched, t, "UNUSED") /\ fresh' = None /\ t # sched.current
    BY <1>7 DEF Reap
  <2>2. t # None
    BY TaskAssumption DEF None
  <2>. QED
    BY <2>1, <2>2, LeaveGood
<1>8. CASE UNCHANGED vars
  BY <1>8 DEF vars, Good, Sound, Matches, RunningIsCurrent
<1>. QED
  BY <1>1, <1>2, <1>3, <1>4, <1>5, <1>6, <1>7, <1>8, YieldGood, TickGood DEF Next

\* For every set of tasks and every interleaving of the calls of system calls and
\* interrupt handlers, the run queue of scheduler.c holds exactly the RUNNABLE tasks,
\* each once, and no task but the current one is RUNNING.
THEOREM SchedulerConsistent == Spec => [](TypeOK /\ QueueMatchesState /\ RunningIsCurrent)
<1>1. Spec => []IInv
  BY InitIInv, NextIInv, PTL DEF Spec
<1>. QED
  BY <1>1, PTL DEF IInv

-----------------------------------------------------------------------------
(* The order of the queue *)

\* Every place of r is taken by a task that had it, or a later one, in s ...
From(s, r, j) == \E i \in 1..Len(s.rq) : j <= i /\ r.rq[j] = s.rq[i]
Forward(s, r) == \A j \in 1..Len(r.rq) : From(s, r, j)
\* ... or is the last one.
ForwardOrLast(s, r) == \A j \in 1..Len(r.rq) : From(s, r, j) \/ j = Len(r.rq)

LEMMA LeaveForward ==
  ASSUME NEW s, Sound(s), NEW t \in Task, NEW st \in TaskState
  PROVE  Forward(s, Leave(s, t, st))
<1>1. PICK g \in Seq(Task) : g = s.rq
  BY DEF Sound, SchedState
<1>2. PICK d : d = rq_remove_locked(s, t)
  OBVIOUS
<1>3. Sound(d) /\ Forward(s, d)
  <2>1. CASE ~Queued(s, t)
    BY <1>1, <1>2, <2>1 DEF rq_remove_locked, Forward, From
  <2>2. CASE Queued(s, t)
    <3>1. PICK p \in 1..Len(g) : p = Place(g, t) /\ g[p] = t
      BY <1>1, <2>2 DEF Queued, Place
    <3>2. PICK q : q = [i \in 1..(Len(g) - 1) |-> IF i < p THEN g[i] ELSE g[i + 1]]
      OBVIOUS
    <3>3. q \in Seq(Task) /\ Distinct(q) /\ Len(q) = Len(g) - 1
      <4>1. Distinct(g)
        BY <1>1 DEF Sound
      <4>2. q \in Seq(Task) /\ Distinct(q)
        BY <3>2, <4>1, DropOne
      <4>3. Len(q) = Len(g) - 1
        BY <3>2
      <4> QED
        BY <4>2, <4>3
    <3>4. d = [s EXCEPT !.rq = q]
      BY <1>1, <1>2, <2>2, <3>1, <3>2 DEF rq_remove_locked
    <3>5. d.rq = q /\ Sound(d)
      BY <3>3, <3>4, NewQueue
    <3>6. ASSUME NEW j \in 1..Len(q) PROVE From(s, d, j)
      <4>1. j \in 1..Len(g) /\ j + 1 \in 1..Len(g) /\ j \in 1..(Len(g) - 1)
        BY <1>1, <3>3
      <4>2. q[j] = g[j] \/ q[j] = g[j + 1]
        BY <3>2, <4>1
      <4> QED
        BY <1>1, <3>5, <4>1, <4>2 DEF From
    <3> QED
      BY <3>5, <3>6 DEF Forward
  <2> QED
    BY <2>1, <2>2
<1>4. Leave(s, t, st) = [d EXCEPT !.state[t] = st]
  BY <1>2 DEF Leave
<1>5. Leave(s, t, st).rq = d.rq
  BY <1>3, <1>4, NewState
<1> QED
  BY <1>3, <1>5 DEF Forward, From

\* What is pushed comes last and moves no other task.
LEMMA PushForward ==
  ASSUME NEW s, NEW d, Sound(d), Forward(s, d), NEW t \in Task
  PROVE  ForwardOrLast(s, rq_push_tail_locked(d, t))
<1>1. PICK g \in Seq(Task) : g = d.rq
  BY DEF Sound, SchedState
<1>2. PICK r : r = rq_push_tail_locked(d, t)
  OBVIOUS
<1>3. CASE Queued(d, t)
  BY <1>2, <1>3 DEF rq_push_tail_locked, Forward, ForwardOrLast
<1>4. CASE ~Queued(d, t)
  <2>1. r.rq = Append(g, t)
    BY <1>1, <1>2, <1>4 DEF rq_push_tail_locked, Sound, SchedState
  <2>2. Len(r.rq) = Len(g) + 1 /\ \A j \in 1..Len(g) : r.rq[j] = g[j]
    BY <2>1
  <2>3. ASSUME NEW j \in 1..Len(r.rq), j # Len(r.rq) PROVE From(s, r, j)
    <3>1. j \in 1..Len(g)
      BY <2>2, <2>3
    <3> QED
      BY <1>1, <2>2, <3>1 DEF Forward, From
  <2> QED
    BY <1>2, <2>3 DEF ForwardOrLast
<1> QED
  BY <1>3, <1>4

\* Popping tasks from the head brings all the others forward.
LEMMA PickForward ==
  ASSUME NEW s, NEW p, Sound(p), ForwardOrLast(s, p)
  PROVE  ForwardOrLast(s, pick_next_runnable_locked(p))
<1>1. PICK g \in Seq(Task) : g = p.rq
  BY DEF Sound, SchedState
<1>2. PICK r : r = pick_next_runnable_locked(p)
  OBVIOUS
<1>3. CASE \E i \in 1..Len(p.rq) : FirstRunnable(p, i)
  <2>1. PICK k \in 1..Len(g) : k = CHOOSE i \in 1..Len(p.rq) : FirstRunnable(p, i)
    BY <1>1, <1>3
  <2>2. PICK q : q = SubSeq(g, k + 1, Len(g))
    OBVIOUS
  <2>3. r.rq = q
    BY <1>1, <1>2, <1>3, <2>1, <2>2 DEF pick_next_runnable_locked, Sound, SchedState
  <2>4. Len(q) = Len(g) - k
    BY <2>2, SMTT(30)
  <2>5. \A j \in 1..(Len(g) - k) : q[j] = g[j + k]
    BY <2>2, SMTT(30)
  <2>6. ASSUME NEW j \in 1..Len(q) PROVE From(s, r, j) \/ j = Len(q)
    <3>1. j + k \in 1..Len(g) /\ j \in 1..(Len(g) - k) /\ j + k >= j
      BY <2>4
    <3>2. CASE j + k = Len(g)
      BY <2>4, <3>2
    <3>3. CASE j + k # Len(g)
      <4>1. PICK i \in 1..Len(s.rq) : j + k <= i /\ g[j + k] = s.rq[i]
        BY <1>1, <3>1, <3>3 DEF ForwardOrLast, From
      <4>2. j <= i /\ r.rq[j] = s.rq[i]
        BY <2>3, <2>5, <3>1, <4>1
      <4> QED
        BY <4>2 DEF From
    <3> QED
      BY <3>2, <3>3
  <2> QED
    BY <1>2, <2>3, <2>6 DEF ForwardOrLast
<1>4. CASE ~ \E i \in 1..Len(p.rq) : FirstRunnable(p, i)
  <2>1. r.rq = <<>>
    BY <1>2, <1>4 DEF pick_next_runnable_locked, Sound, SchedState
  <2> QED
    BY <1>2, <2>1 DEF ForwardOrLast
<1> QED
  BY <1>3, <1>4

LEMMA ForwardRefl ==
  ASSUME NEW s, Sound(s), NEW r, r.rq = s.rq
  PROVE  Forward(s, r)
BY DEF Forward, From, Sound, SchedState

\* Every call moves queued tasks forward, except the one it queues.
LEMMA NextForward ==
  ASSUME Good, [Next]_vars
  PROVE  ForwardOrLast(sched, sched')
<1> USE DEF scheduler_task_set_blocked, scheduler_task_set_zombie,
            scheduler_task_set_unused
<1>0. /\ Sound(sched) /\ fresh \in Task \cup {None}
      /\ sched.current \in Task \cup {Idle}
  BY DEF Good, Sound, SchedState
<1>1. ASSUME NEW t \in Task, NEW st \in TaskState, sched' = Leave(sched, t, st)
      PROVE  ForwardOrLast(sched, sched')
  BY <1>0, <1>1, LeaveForward DEF Forward, ForwardOrLast
<1>2. ASSUME NEW t \in Task, sched' = scheduler_task_make_runnable(sched, t)
      PROVE  ForwardOrLast(sched, sched')
  <2>1. PICK d : d = Leave(sched, t, "RUNNABLE")
    OBVIOUS
  <2>2. Sound(d) /\ Forward(sched, d)
    BY <1>0, <2>1, LeaveForward, LeaveMoves DEF TaskState
  <2> QED
    BY <1>2, <2>1, <2>2, PushForward DEF scheduler_task_make_runnable
<1>3. CASE Yield
  <2>1. PICK c \in Task : c = sched.current
    BY <1>0, <1>3 DEF Yield
  <2>2. PICK p : p = IF c # Idle /\ sched.state[c] = "RUNNING"
                     THEN rq_push_tail_locked([sched EXCEPT !.state[c] = "RUNNABLE"], c) ELSE sched
    OBVIOUS
  <2>3. sched' = pick_next_runnable_locked(p)
    BY <1>3, <2>1, <2>2 DEF Yield, schedule_common
  <2>4. Sound(p) /\ ForwardOrLast(sched, p)
    <3>1. PICK d : d = [sched EXCEPT !.state[c] = "RUNNABLE"]
      OBVIOUS
    <3>2. Sound(d) /\ d.rq = sched.rq
      BY <1>0, <3>1, NewState DEF TaskState
    <3>3. Forward(sched, d) /\ Forward(sched, sched)
      BY <1>0, <3>2, ForwardRefl
    <3>4. ForwardOrLast(sched, sched)
      BY <3>3 DEF Forward, ForwardOrLast
    <3>5. LET r == rq_push_tail_locked(d, c) IN Sound(r) /\ ForwardOrLast(sched, r)
      BY <3>2, <3>3, PushForward, PushLinks
    <3> QED
      BY <1>0, <2>2, <3>1, <3>4, <3>5
  <2> QED
    BY <2>3, <2>4, PickForward
<1>4. CASE Tick \/ UNCHANGED vars
  <2>1. sched'.rq = sched.rq
    BY <1>0, <1>4 DEF Tick, scheduler_tick, vars, Sound, SchedState
  <2> QED
    BY <1>0, <2>1, ForwardRefl DEF Forward, ForwardOrLast
<1> QED
  BY <1>0, <1>1, <1>2, <1>3, <1>4
     DEF Next, Create, Publish, Discard, Wake, Kill, Block, Reap, TaskState

\* The queue of scheduler.c is FIFO for every set of tasks: no call, whoever makes it, moves a
\* queued task away from the head, except to the tail when the call queues that task again.
THEOREM QueueIsFifo == Spec => NoOvertaking
<1> DEFINE Step == \A t \in Task :
                     Queued(sched, t) /\ Queued(sched', t) =>
                       \/ Place(sched'.rq, t) <= Place(sched.rq, t)
                       \/ Place(sched'.rq, t) = Len(sched'.rq)
<1>1. IInv /\ IInv' /\ [Next]_vars => [Step]_vars
  <2> SUFFICES ASSUME Good, Good', [Next]_vars, NEW t \in Task, Queued(sched, t), Queued(sched', t)
               PROVE  \/ Place(sched'.rq, t) <= Place(sched.rq, t)
                      \/ Place(sched'.rq, t) = Len(sched'.rq)
    BY IInvIsGood, IInvIsGoodNext
  <2>1. Distinct(sched.rq)
    BY DEF Good, Sound
  <2>2. ForwardOrLast(sched, sched')
    BY NextForward
  <2>3. PICK i \in 1..Len(sched.rq) : i = Place(sched.rq, t) /\ sched.rq[i] = t
    BY DEF Queued, Place
  <2>4. PICK j \in 1..Len(sched'.rq) : j = Place(sched'.rq, t) /\ sched'.rq[j] = t
    BY DEF Queued, Place
  <2>5. CASE From(sched, sched', j)
    <3>1. PICK k \in 1..Len(sched.rq) : j <= k /\ sched'.rq[j] = sched.rq[k]
      BY <2>5 DEF From
    <3>2. k = i
      BY <2>1, <2>3, <2>4, <3>1 DEF Distinct
    <3> QED
      BY <2>3, <2>4, <3>1, <3>2
  <2>6. CASE j = Len(sched'.rq)
    BY <2>4, <2>6
  <2> QED
    BY <2>2, <2>5, <2>6 DEF ForwardOrLast
<1>2. Spec => []IInv
  BY InitIInv, NextIInv, PTL DEF Spec
<1>3. Spec => [][Step]_vars
  BY <1>1, <1>2, PTL DEF Spec
<1> QED
  BY <1>3 DEF NoOvertaking
=============================================================================
