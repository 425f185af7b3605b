---------------------------- MODULE MCProcess ----------------------------
(* Instances of Process for TLC *)
EXTENDS Process

\* Any child, any child of the own group, the child with pid 3.
MCWaitSel == {-1, 0, 3}

\* Creation and death with interrupts anywhere; waiting against kill; parents that
\* ignore SIGCHLD; handlers, execve and groups.
MCLoads ==
  {[calls |-> {"fork", "spawn", "wait", "exit", "yield", "ctrlc"}, pids |-> 5, irq |-> TRUE],
   [calls |-> {"fork", "wait", "exit", "kill", "ctrlc"}, pids |-> 5, irq |-> FALSE],
   [calls |-> {"fork", "wait", "exit", "sigchld"}, pids |-> 5, irq |-> FALSE],
   [calls |-> {"fork", "wait", "kill", "sigint", "execve", "setpgid"}, pids |-> 3, irq |-> FALSE]}

MCOrphanLoads == {[calls |-> {"fork", "wait", "exit"}, pids |-> 5, irq |-> FALSE]}
==========================================================================
