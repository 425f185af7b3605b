---------------------------- MODULE MCScheduler ----------------------------
(* Scheduler on four slots: the boot task and three others.  They are not      *)
(* declared symmetric, since a liveness property is checked.                   *)
EXTENDS Scheduler

CONSTANTS t1, t2, t3

MCTask == {Boot, t1, t2, t3}
=============================================================================
