-------------------------------- MODULE Disk --------------------------------
(***************************************************************************)
(* From a file system's block call to the drive: the batches and retries   *)
(* of src/block/block.c, the AHCI driver of src/drivers/ahci/ahci.c with   *)
(* its interrupt handler, the programmed I/O of src/drivers/ata/ata.c, and *)
(* the choice of the disk at boot (src/dev/dev.c).                         *)
(*                                                                         *)
(* Calls are made one at a time (no caller yields), with interrupts on.    *)
(* The adapter starts a command when PxCI is set unless it is stopped; the *)
(* drive is busy (PxTFD.BSY) until the command ends, may take longer than  *)
(* the driver waits, and after a task file error the adapter stays         *)
(* stopped, since no code restarts the port.  An interrupt is taken before *)
(* the driver's next step, and nothing else shares its line.  The halts of *)
(* the waiting loops, queued commands (ncq_supported is 0) and scatter     *)
(* lists of more than one entry (no caller passes one) are left out.  A    *)
(* sector is one value.                                                    *)
(***************************************************************************)
EXTENDS Integers, Sequences, FiniteSets, TLC

CONSTANTS Sectors,    \* sectors of the drive
          Value,      \* what a write call can put in a sector
          CmdSlots,   \* AHCI_MAX_CMDS
          Batch,      \* BLOCK_BATCH_MAX_SECTORS
          AtaMod,     \* 2^8, the width of ata_read28's sector_count
          TagMod,     \* 2^32, the width of g_tag_seq
          DiskLoads   \* what the machine holds, the calls made and what goes wrong

ASSUME BlockAssumption == {Sectors, CmdSlots, Batch, AtaMod} \subseteq Nat \ {0} /\ TagMod > 1

None == -1
Junk == -1                 \* what a caller's buffer holds before a read
Sector == 0..(Sectors - 1)
Slot == 0..(CmdSlots - 1)

VARIABLES h,      \* the adapter and the drive
          g,      \* g_disk and g_tag_seq; kind and unit say which disk sda is
          k,      \* the block call being made, or the last one
          devs,   \* g_block_devices, by the number of the partition; 0 is the disk
          may,    \* history: what each sector may hold
          dload   \* in DiskLoads

dvars == <<h, g, k, devs, may, dload>>

Least(S) == CHOOSE x \in S : \A y \in S : x <= y
Smaller(a, b) == IF a <= b THEN a ELSE b

-----------------------------------------------------------------------------
(* The disk at boot *)

\* A module is [size, ext, cmd]: its length, whether it holds an ext superblock, and
\* which of the words "rootfs" and ".img" its command line has.
dev_module_cmdline_score(m) ==
  IF m.cmd = "rootfs" THEN 20 ELSE IF m.cmd = "img" THEN 10 ELSE 0

\* Mutant: the name of a module counts for more than what it holds.
ScoreByName(m) == (IF m.size > 0 /\ m.ext THEN 15 ELSE 0) + dev_module_cmdline_score(m)

ModuleScore(m) == (IF m.size > 0 /\ m.ext THEN 100 ELSE 0) + dev_module_cmdline_score(m)

\* The first of the modules with the best score; None without modules.
dev_try_scan_mb2_modules(mods) ==
  LET best == {i \in DOMAIN mods : \A j \in DOMAIN mods : ModuleScore(mods[i]) >= ModuleScore(mods[j])}
  IN  IF best = {} THEN None ELSE Least(best)

\* The first port with a SATA disk that answers IDENTIFY.
ahci_init(ports) ==
  LET ok == {i \in DOMAIN ports : ports[i] = "disk"}
  IN  IF ok = {} THEN None ELSE Least(ok)

Disk0 == [start |-> 0, size |-> Sectors]

\* Entries without sectors are skipped; read is whether sector 0 could be read.
dev_register_partitions(mbr, read) ==
  LET entries == IF read THEN {i \in DOMAIN mbr : mbr[i].size > 0} ELSE {}
  IN  [i \in entries \cup {0} |-> IF i = 0 THEN Disk0 ELSE mbr[i]]

\* What dev_init finds: a module's copy in memory (multiboot 1: the first module), else
\* AHCI, else ATA.
Found(m) ==
  LET best == IF m.multiboot = 1 /\ m.mods # <<>> THEN 1 ELSE dev_try_scan_mb2_modules(m.mods)
  IN  IF best # None /\ m.mods[best].size > 0 THEN [kind |-> "ram", unit |-> best]
      ELSE IF ahci_init(m.ports) # None THEN [kind |-> "ahci", unit |-> ahci_init(m.ports)]
      ELSE IF m.ata THEN [kind |-> "ata", unit |-> 0]
      ELSE [kind |-> "none", unit |-> 0]

\* A copied module is registered whole, a drive with its partitions.
dev_init ==
  LET f == Found(dload.machine)
  IN  /\ k.pc = "boot"
      /\ g' = [g EXCEPT !.kind = f.kind, !.unit = f.unit]
      /\ \E read \in BOOLEAN :
           devs' = CASE f.kind = "none" -> <<>>
                     [] f.kind = "ram"  -> (0 :> Disk0)
                     [] OTHER           -> dev_register_partitions(dload.machine.mbr, read)
      /\ k' = [k EXCEPT !.pc = "idle"] /\ UNCHANGED <<h, may, dload>>

-----------------------------------------------------------------------------
(* The drive *)

\* The first j sectors of a command have been transferred.  A late read of an earlier call
\* goes to that call's buffer, which is not looked at any more.
Moved(disk, buf, c, j) ==
  [disk |-> [s \in Sector |-> IF c.write /\ s \in c.at..(c.at + j - 1) THEN c.val ELSE disk[s]],
   buf  |-> [i \in Sector |-> IF ~c.write /\ c.call = k.calls /\ i \in c.to..(c.to + j - 1)
                               THEN disk[c.at + i - c.to] ELSE buf[i]]]

\* The drive ends the command being executed.
Complete ==
  LET c == h.cmd[h.exec]
      m == Moved(h.disk, k.buf, c, c.n)
  IN  /\ h.exec # None
      /\ h' = [h EXCEPT !.disk = m.disk, !.ci = @ \ {h.exec}, !.exec = None, !.is = @ \cup {"DHRS"}]
      /\ k' = [k EXCEPT !.buf = m.buf]
      /\ UNCHANGED <<g, devs, may, dload>>

\* It fails part of the way: the adapter stops and leaves the command in PxCI.
TaskFileError ==
  LET c == h.cmd[h.exec]
  IN  /\ h.exec # None /\ h.errs < dload.errs
      /\ \E j \in 0..(c.n - 1) :
           LET m == Moved(h.disk, k.buf, c, j)
           IN  /\ h' = [h EXCEPT !.disk = m.disk, !.exec = None, !.stopped = TRUE,
                                 !.is = @ \cup {"TFES"}, !.errs = @ + 1]
               /\ k' = [k EXCEPT !.buf = m.buf]
      /\ UNCHANGED <<g, devs, may, dload>>

-----------------------------------------------------------------------------
(* Completions *)

\* Outstanding commands that PxCI no longer has are done; an error fails the others.
ahci_mark_completions(d, ci, is) ==
  LET finished == d.out \ ci
      failed == IF "TFES" \in is THEN d.out \cap ci ELSE {}
  IN  [d EXCEPT !.err  = [s \in Slot |-> IF s \in finished THEN FALSE
                                         ELSE IF s \in failed THEN TRUE ELSE @[s]],
                !.done = [s \in Slot |-> IF s \in finished \cup failed THEN d.tag[s] ELSE @[s]],
                !.out  = @ \ (finished \cup failed)]

Polled == ahci_mark_completions(g, h.ci, h.is)

\* Both the waiting loops and the handler do this.
ahci_poll_port_completion == h' = [h EXCEPT !.is = {}] /\ g' = Polled

Asserted == dload.irq /\ h.is # {}

ahci_irq_handler ==
  Asserted /\ ahci_poll_port_completion /\ UNCHANGED <<k, devs, may, dload>>

-----------------------------------------------------------------------------
(* block_read_sectors and block_write_sectors *)

Chunk == Smaller(k.n - k.done, k.max)
Called == k.at..(k.at + k.n - 1)

CallEnds(ok) ==
  /\ k' = [k EXCEPT !.pc = "idle", !.ok = ok]
  /\ may' = [s \in Sector |-> IF ~k.write \/ s \notin Called THEN may[s]
                              ELSE IF ok THEN {k.val} ELSE may[s] \cup {k.val}]

\* A chunk of more than one sector that failed is tried again by halves.
ChunkFails ==
  IF Chunk <= 1 THEN CallEnds(FALSE)
  ELSE k' = [k EXCEPT !.pc = "chunk", !.max = Chunk \div 2] /\ UNCHANGED may

ChunkDone == k' = [k EXCEPT !.pc = "chunk", !.done = @ + Chunk] /\ UNCHANGED may

\* A file system calls with a range of its device; at is start_lba + lba.
BlockCall(d, lba, n, write, v) ==
  /\ k.pc = "idle" /\ k.calls < dload.calls
  /\ lba + n <= devs[d].size
  /\ k' = [pc |-> "chunk", write |-> write, at |-> devs[d].start + lba, n |-> n, val |-> v,
           done |-> 0, max |-> Batch, slot |-> 0, mine |-> 0, ok |-> FALSE,
           calls |-> k.calls + 1, buf |-> [i \in Sector |-> Junk]]
  /\ UNCHANGED <<h, g, devs, may, dload>>

BlockDone ==
  k.pc = "chunk" /\ k.done >= k.n /\ CallEnds(TRUE) /\ UNCHANGED <<h, g, devs, dload>>

\* Mutant: every batch of a read goes to the start of the buffer.
SameBuffer(n) ==
  [write |-> k.write, at |-> k.at + k.done, n |-> n, val |-> k.val, to |-> 0, call |-> k.calls]

Command(n) ==
  [write |-> k.write, at |-> k.at + k.done, n |-> n, val |-> k.val, to |-> k.done, call |-> k.calls]

-----------------------------------------------------------------------------
(* The AHCI driver *)

ahci_next_tag == IF (g.seq + 1) % TagMod = 0 THEN 1 ELSE (g.seq + 1) % TagMod

ahci_find_slot == Slot \ h.ci

StartCommand ==
  /\ k.pc = "chunk" /\ k.done < k.n /\ g.kind = "ahci"
  /\ k' = [k EXCEPT !.pc = "ready"] /\ UNCHANGED <<h, g, devs, may, dload>>

\* ahci_wait_ready, ahci_find_slot and ahci_submit_rw up to outstanding_mask.
Prepare ==
  /\ k.pc = "ready" /\ h.exec = None /\ ~Asserted
  /\ IF ahci_find_slot = {}
     THEN k' = [k EXCEPT !.pc = "full"] /\ UNCHANGED <<h, g>>
     ELSE LET s == Least(ahci_find_slot)
              t == ahci_next_tag
          IN  /\ h' = [h EXCEPT !.cmd[s] = Command(Chunk)]
              /\ g' = [g EXCEPT !.seq = t, !.tag[s] = t, !.done[s] = 0, !.err[s] = FALSE,
                                !.out = @ \cup {s}]
              /\ k' = [k EXCEPT !.pc = "armed", !.slot = s, !.mine = t]
  /\ UNCHANGED <<devs, may, dload>>

\* The drive stays busy for as long as ahci_wait_ready polls.
NotReady ==
  /\ k.pc = "ready" /\ h.exec # None
  /\ ChunkFails /\ UNCHANGED <<h, g, devs, dload>>

\* The end of ahci_submit_rw: PxIS is cleared and PxCI set.
Issue ==
  /\ k.pc = "armed" /\ ~Asserted
  /\ h' = [h EXCEPT !.is = {}, !.ci = @ \cup {k.slot}, !.exec = IF h.stopped THEN None ELSE k.slot]
  /\ k' = [k EXCEPT !.pc = "wait"] /\ UNCHANGED <<g, devs, may, dload>>

Outcome(d) ==
  IF d.done[k.slot] # k.mine THEN "wait" ELSE IF d.err[k.slot] THEN "error" ELSE "ok"

\* ahci_wait_slot_done, which polls only while the handler has not seen the end.
WaitSlot ==
  /\ k.pc = "wait" /\ ~Asserted
  /\ IF Outcome(g) = "wait" THEN ahci_poll_port_completion ELSE UNCHANGED <<h, g>>
  /\ LET o == Outcome(IF Outcome(g) = "wait" THEN Polled ELSE g)
     IN  CASE o = "ok"    -> ChunkDone
           [] o = "error" -> ChunkFails
           [] OTHER       -> UNCHANGED <<k, may>>
  /\ UNCHANGED <<devs, dload>>

\* Mutant: the wait has no bound.
WaitsForever == FALSE /\ UNCHANGED dvars

\* It gives up; the command stays outstanding, and in PxCI.
WaitTimeout ==
  /\ k.pc = "wait" /\ ~Asserted /\ k.slot \in h.ci /\ Outcome(Polled) = "wait"
  /\ ChunkFails /\ UNCHANGED <<h, g, devs, dload>>

\* Without a free slot ahci_issue_rw_sg polls and starts again.
NoSlot ==
  /\ k.pc = "full" /\ ~Asserted
  /\ ahci_poll_port_completion
  /\ k' = [k EXCEPT !.pc = "ready"] /\ UNCHANGED <<devs, may, dload>>

-----------------------------------------------------------------------------
(* ATA and the copy of a module in memory *)

\* ata_read28 and ata_write28 take the count in eight bits and refuse 0.  A sector for
\* which the drive is not ready ends the command; a write waits after each sector as well.
AtaCommand ==
  LET c == Command(Chunk % AtaMod)
      Now(j) == Moved(h.disk, k.buf, c, j)
  IN  /\ k.pc = "chunk" /\ k.done < k.n /\ g.kind = "ata"
      /\ \/ /\ h' = [h EXCEPT !.disk = Now(c.n).disk]
            /\ IF c.n = 0 THEN ChunkFails
               ELSE /\ k' = [k EXCEPT !.done = @ + Chunk, !.buf = Now(c.n).buf]
                    /\ UNCHANGED may
         \/ \E j \in 0..c.n :
              /\ h.errs < dload.errs
              /\ j = c.n => k.write /\ c.n > 0
              /\ h' = [h EXCEPT !.disk = Now(j).disk, !.errs = @ + 1]
              /\ ChunkFails
      /\ UNCHANGED <<g, devs, dload>>

\* ram_read and ram_write of a range inside the module.
RamCommand ==
  LET m == Moved(h.disk, k.buf, Command(Chunk), Chunk)
  IN  /\ k.pc = "chunk" /\ k.done < k.n /\ g.kind = "ram"
      /\ h' = [h EXCEPT !.disk = m.disk]
      /\ k' = [k EXCEPT !.done = @ + Chunk, !.buf = m.buf]
      /\ UNCHANGED <<g, devs, may, dload>>

-----------------------------------------------------------------------------
DiskInit ==
  /\ dload \in DiskLoads
  /\ h = [disk |-> [s \in Sector |-> 0], ci |-> {}, is |-> {}, exec |-> None, stopped |-> FALSE,
          errs |-> 0,
          cmd |-> [s \in Slot |-> [write |-> FALSE, at |-> 0, n |-> 0, val |-> 0, to |-> 0, call |-> 0]]]
  /\ g = [kind |-> "none", unit |-> 0, seq |-> 0, tag |-> [s \in Slot |-> 0],
          done |-> [s \in Slot |-> 0], err |-> [s \in Slot |-> FALSE], out |-> {}]
  /\ k = [pc |-> "boot", write |-> FALSE, at |-> 0, n |-> 0, val |-> 0, done |-> 0, max |-> 0,
          slot |-> 0, mine |-> 0, ok |-> FALSE, calls |-> 0, buf |-> [i \in Sector |-> Junk]]
  /\ devs = <<>>
  /\ may = [s \in Sector |-> {0}]

DriverStep ==
  \/ BlockDone \/ StartCommand \/ Prepare \/ NotReady \/ Issue \/ WaitSlot \/ WaitTimeout \/ NoSlot
  \/ AtaCommand \/ RamCommand

DiskNext ==
  \/ dev_init
  \/ \E d \in DOMAIN devs, lba \in Sector, n \in dload.counts, v \in Value :
       BlockCall(d, lba, n, TRUE, v)
  \/ \E d \in DOMAIN devs, lba \in Sector, n \in dload.counts : BlockCall(d, lba, n, FALSE, 0)
  \/ DriverStep \/ ahci_irq_handler \/ Complete \/ TaskFileError

\* The loops of the driver are bounded and nothing suspends it; the interrupt controller
\* delivers.  Nothing is assumed of the drive.
DiskFairness == WF_dvars(DriverStep) /\ WF_dvars(ahci_irq_handler)

-----------------------------------------------------------------------------
\* A read that block_read_sectors reports as done has filled the caller's buffer with what
\* the drive holds: through batches, halved retries after errors and timeouts, commands of
\* earlier calls that end late, and completions seen by the handler or by polling.
ReadIsCurrent ==
  k.pc = "idle" /\ ~k.write /\ k.ok => \A i \in 0..(k.n - 1) : k.buf[i] = h.disk[k.at + i]

\* Between calls each sector holds what the last block_write_sectors reported as done put
\* there, or what a failed call after it tried to: no write reported as done is lost, none
\* reaches another partition's sectors, and a command that timed out never lands on top of
\* a later write.
WritesLand == k.pc = "idle" => \A s \in Sector : h.disk[s] \in may[s]

\* Whatever the drive does, a block call returns, unless every command slot is held by a
\* command that never left PxCI (nothing restarts the port): then ahci_issue_rw_sg waits
\* for a slot for ever.
CallReturns == []<>(k.pc \in {"boot", "idle"} \/ h.ci = Slot)

\* Under multiboot 2 a module that holds an ext file system becomes sda whenever there is
\* one, whatever the names and the order of the modules and whatever drives there are.
RootDiskChosen ==
  k.pc # "boot" /\ dload.machine.multiboot = 2
    => LET mods == dload.machine.mods
       IN  (\E i \in DOMAIN mods : mods[i].ext /\ mods[i].size > 0)
             => g.kind = "ram" /\ mods[g.unit].ext

\* Calls of the block layer read what the disk holds and write what the disk then holds.
DiskExact == ReadIsCurrent /\ WritesLand
=============================================================================
