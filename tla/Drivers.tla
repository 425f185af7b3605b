------------------------------ MODULE Drivers ------------------------------
(***************************************************************************)
(* The device drivers, one at a time: block devices (Disk), the network    *)
(* card with the port of lwIP above it (Nic), and USB mice (Usb).  They    *)
(* share no state but the timer interrupt that polls them, so a behaviour  *)
(* exercises one and leaves the others as they boot.                       *)
(***************************************************************************)
EXTENDS Disk, Nic, Usb

VARIABLE part

vars == <<dvars, nvars, uvars, part>>

Init ==
  /\ part \in {"disk", "nic", "usb"}
  /\ DiskInit /\ (part # "disk" => dload = CHOOSE l \in DiskLoads : TRUE)
  /\ NicInit /\ (part # "nic" => nload = CHOOSE l \in NicLoads : TRUE)
  /\ UsbInit /\ (part # "usb" => uload = CHOOSE l \in UsbLoads : TRUE)

Next ==
  \/ part = "disk" /\ DiskNext /\ UNCHANGED <<nvars, uvars, part>>
  \/ part = "nic" /\ NicNext /\ UNCHANGED <<dvars, uvars, part>>
  \/ part = "usb" /\ UsbNext /\ UNCHANGED <<dvars, nvars, part>>

Spec == Init /\ [][Next]_vars /\ DiskFairness
=============================================================================
