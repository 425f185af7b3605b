------------------------------ MODULE Services -----------------------------
(***************************************************************************)
(* What the kernel offers a program beside files and sockets, one part at  *)
(* a time: the keyboard, console and ptys (Terminal), waiting (Events),    *)
(* being started (Exec), and its memory from then on (UserMemory).  A      *)
(* behaviour exercises one part and leaves the others as they begin.       *)
(***************************************************************************)
EXTENDS Terminal, Events, Exec, UserMemory

VARIABLE part

vars == <<tvars, evars, xvars, mvars, part>>

Init ==
  /\ part \in {"terminal", "events", "exec", "memory"}
  /\ TermInit /\ (part # "terminal" => tload = CHOOSE l \in TermLoads : TRUE)
  /\ EventsInit /\ (part # "events" => eload.at = 1)
  /\ ExecInit
  /\ MemoryInit

Next ==
  \/ part = "terminal" /\ TermNext /\ UNCHANGED <<evars, xvars, mvars, part>>
  \/ part = "events" /\ EventsNext /\ UNCHANGED <<tvars, xvars, mvars, part>>
  \/ part = "exec" /\ ExecNext /\ UNCHANGED <<tvars, evars, mvars, part>>
  \/ part = "memory" /\ MemoryNext /\ UNCHANGED <<tvars, evars, xvars, part>>

Spec == Init /\ [][Next]_vars

\* What poll, select and epoll say of a descriptor is what a read or write of it would find,
\* for the ends of ptys (Terminal) as for eventfds, timerfds, signalfds and pipes (Events),
\* and what epoll looks at are the descriptors it was told to watch (poll_fd_revents).
PollAgrees == PtyPollAgrees /\ PollAgreesWithCalls /\ WatchesKept
=============================================================================
