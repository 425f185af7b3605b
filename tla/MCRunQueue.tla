----------------------------- MODULE MCRunQueue -----------------------------
(* RunQueue on four slots: three can be linked beside the boot task. *)
EXTENDS RunQueue

CONSTANTS t1, t2, t3

MCTask == {Boot, t1, t2, t3}
=============================================================================
