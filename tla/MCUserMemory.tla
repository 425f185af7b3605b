--------------------------- MODULE MCUserMemory ---------------------------
(* Instances of UserMemory for TLC *)
EXTENDS UserMemory
===========================================================================
