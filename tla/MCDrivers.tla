----------------------------- MODULE MCDrivers -----------------------------
EXTENDS Drivers

-----------------------------------------------------------------------------
\* machine  what the boot finds: modules, AHCI ports, an ATA disk, a partition table
\* counts   the lengths of requests            calls  how many requests
\* errs     task file errors of the drive      irq    whether the adapter's line is connected
Module == [size : {0, 1}, ext : {FALSE}, cmd : {"rootfs", ""}]
          \cup [size : {3}, ext : BOOLEAN, cmd : {"", "img", "rootfs"}]
Ata == [multiboot |-> 2, mods |-> <<>>, ports |-> <<>>, ata |-> TRUE,
        mbr |-> <<[start |-> 1, size |-> 2], [start |-> 0, size |-> 0]>>]
Sata == [Ata EXCEPT !.ports = <<"none", "atapi", "disk", "disk">>]
DiskBase == [machine |-> Ata, counts |-> {1, 3}, calls |-> 2, errs |-> 1, irq |-> TRUE]
MCDiskLoads ==
  {[DiskBase EXCEPT !.machine = Sata, !.irq = i] : i \in BOOLEAN}
  \cup {[DiskBase EXCEPT !.counts = {1, 2}, !.calls = 3],
        [DiskBase EXCEPT !.machine.mods = <<[size |-> 3, ext |-> FALSE, cmd |-> ""]>>, !.machine.multiboot = 1]}
  \cup {[DiskBase EXCEPT !.machine.mods = <<a, b>>, !.calls = 0] : a \in Module, b \in Module}

\* An ATA disk: with AtaMod 2 and batches of 3, a request is longer than its count can say.
MCAtaLoads == {[DiskBase EXCEPT !.counts = {1, 3}]}

-----------------------------------------------------------------------------
\* frames  what the network sends     nested  whether the timer polls the card as well
NicBase == [frames |-> <<"echo", "icmp", "echo", "echo6">>, calls |-> 2, irq |-> TRUE, nested |-> FALSE]
MCNicLoads ==
  {[NicBase EXCEPT !.irq = i] : i \in BOOLEAN}
  \cup {[NicBase EXCEPT !.frames = <<"echo", "icmp", "echo">>, !.nested = TRUE],
        [NicBase EXCEPT !.frames = <<"ask", "bad">>, !.calls = 3]}

-----------------------------------------------------------------------------
\* ctrls   the controllers found      xok   whether the xHCI controller starts
\* ports, uhci  what hangs on the root ports of each      dma  blocks of DMA memory
\* reports  what a mouse sends        faults, plugs  failed requests, devices that come or go
\* nested  whether the timer may tick inside the driver
OtherDevice == [kind |-> "other", kids |-> <<>>]
Hub(below) == [kind |-> "hub", kids |-> below]
UsbBase == [ctrls |-> {"xhci"}, xok |-> TRUE, ports |-> <<Mouse, OtherDevice>>, uhci |-> <<Nothing, Nothing>>,
            dma |-> 60, reports |-> <<<<1, 5, 2>>, <<1, 250, 2, 1>>>>, faults |-> 1, plugs |-> 0,
            nested |-> FALSE]
OnUhci == [UsbBase EXCEPT !.ctrls = {"uhci", "ehci"}, !.ports = <<>>]
MCUsbLoads ==
  {UsbBase,
   [UsbBase EXCEPT !.nested = TRUE, !.faults = 0],
   [UsbBase EXCEPT !.plugs = 2, !.faults = 0, !.ports = <<Mouse>>, !.reports = <<<<0, 5, 2, 1>>>>],
   [UsbBase EXCEPT !.ports = <<Mouse, Mouse, Mouse>>, !.faults = 0, !.reports = <<>>],
   [UsbBase EXCEPT !.dma = 9, !.ctrls = {"xhci", "uhci"}, !.uhci = <<Nothing, Mouse>>],
   [UsbBase EXCEPT !.ctrls = {"xhci", "uhci"}, !.ports = <<OtherDevice>>, !.uhci = <<Nothing, Mouse>>],
   [OnUhci EXCEPT !.uhci = <<Hub(<<Mouse, Hub(<<Mouse>>), Nothing>>), OtherDevice>>],
   [OnUhci EXCEPT !.ctrls = {"xhci", "uhci"}, !.xok = FALSE, !.uhci = <<OtherDevice, Mouse>>,
                   !.dma = 25]}
=============================================================================
