------------------------------ MODULE Storage ------------------------------
(***************************************************************************)
(* The storage half of the kernel, one part at a time: what file calls do  *)
(* to the disk (Files), and where paths lead (Paths).  The two share no    *)
(* state in the code but the root inode, so a behaviour exercises one and  *)
(* leaves the other alone.                                                 *)
(***************************************************************************)
EXTENDS Files, Paths

VARIABLE part

vars == <<fvars, pvars, part>>

Init ==
  /\ part \in {"files", "paths"}
  /\ FilesInit
  /\ PathsInit
  /\ part = "files" => held = CHOOSE h \in Disks : TRUE
  /\ part = "paths" => load = CHOOSE l \in Loads : TRUE

Next ==
  \/ part = "files" /\ FilesNext /\ UNCHANGED <<pvars, part>>
  \/ part = "paths" /\ PathsNext /\ UNCHANGED <<fvars, part>>

Spec == Init /\ [][Next]_vars
=============================================================================
