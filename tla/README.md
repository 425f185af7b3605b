# A TLA+ verification project for the EdgeOS kernel

TLA+ models of the EdgeOS kernel, the TLC runs that check them on small instances,
and TLAPS proofs of what holds for every instance. Paths below are relative to the
repository (`src/sys/scheduler.c` and so on); `PROJECT.json` maps each definition to
the lines it models and lists components, runs, mutants, hazards, findings and theorems.

## The system

EdgeOS is a monolithic 64-bit kernel with a Linux system-call interface on one CPU.
What matters for its correctness:

- **Switching is cooperative.** A task gives up the CPU only in `scheduler_yield`:
  at the end of a system call when the timer has set `need_resched`, when it blocks
  in `wait4`, and inside every polling loop (`wait_blocking_step`). The exit path of
  an interrupt never reschedules, and the idle loop never yields.
- **Nothing wakes a waiter.** Apart from `wait4`, every blocking call is a loop that
  looks at the state and yields. A call that waits keeps its pointers into the tables
  while others run.
- **Interrupts run inside system calls.** `syscall_handler` executes `sti` first, so
  the timer, the keyboard, the network and the USB polls run between any two statements
  that are not under `spin_lock_irqsave` or `cli`. The keyboard interrupt can kill every
  task of a process group (Ctrl-C).
- **pid 1 is the boot task.** It runs `kmain`: it spawns `/sbin/init` (pid 2), then
  waits for any child and starts init again when it ends. Orphans become its children.
- **Tables are static.** Tasks, descriptors, references, pipes, ptys, sockets and
  mappings are fixed arrays; running out is an error path of its own.
- **File-system calls do not yield.** A disk request is waited for without giving up the
  CPU, so two of them never interleave; but the power may fail between two block writes,
  and a block write may fail.

| part | source | modules | proofs |
|---|---|---|---|
| run queue, task states, switch | `src/sys/scheduler.c` | `Scheduler`, `RunQueue` | `SchedulerProofs` |
| fork, spawn, exit, wait, signals | `src/sys/process.c`, `src/kernel.c`, parts of `src/sys/syscall.c` | `Process` | |
| descriptors, references, pipes, pty counts | `src/sys/syscall.c` | `FdTable` | |
| brk, mmap, munmap | `src/sys/syscall.c` | `UserMemory` | |
| sockets, socket pairs, the callbacks of lwIP | `src/sys/syscall.c` | `Sockets` | |
| keyboard, console, ptys, mouse | `src/keyboard.c`, `src/sys/syscall.c` | `Terminal` | |
| poll, epoll, eventfd, timerfd, signalfd, futex, sleeps | `src/sys/syscall.c` | `Events` | |
| execve, ELF loader, first stack | `src/sys/syscall.c`, `src/elf/elf_loader.c`, `src/sys/user_exec.c` | `Exec` | |
| ext2, ext4 | `src/fs/ext2/ext2.c`, `src/fs/ext4/ext4.c` | `ExtDisk`, `Ext2`, `Ext4` | |
| file calls on a mounted disk | `src/vfs/vfs.c`, `src/sys/syscall.c` | `Files` | |
| paths, mounts, choice of the root | `src/vfs/vfs.c`, `src/kernel.c` | `Paths` | |
| block layer, AHCI, ATA | `src/block/block.c`, `src/drivers/ahci/ahci.c`, `src/drivers/ata/ata.c`, `src/dev/dev.c` | `Disk` | |
| e1000 and the port of lwIP | `src/drivers/e1000/e1000.c`, `src/net/lwip_stack.c` | `Nic` | |
| USB controllers, hubs, mice | `src/drivers/usb` | `Usb` | |

`Services`, `Storage` and `Drivers` compose parts that share no state: a behaviour
exercises one part and leaves the others as they begin, so one run covers them all.
`Lists` has the few sequence operators that several of them use.

## Modules

A C function that changes state is an operator from a state record to a state record,
under the function's name; an action applies those a handler calls, in order, under the
guards its early returns impose. A system call is one step, except where it yields or
where an interrupt between two of its statements matters; there it is cut. Loops are
recursive functions over the rounds, so that proofs can follow them.

**Scheduler.** `sched` holds the queue as a sequence, the state of each slot, the
current task and `need_resched`; `fresh` is the slot that fork or spawn is filling.
The actions are the calls the rest of the kernel makes, in any order that its callers
allow, interrupts included. `Idle` is a task of its own that never yields.

**RunQueue.** The same calls over the list as it is stored: `rq_prev`, `rq_next`,
`rq_head`, `rq_tail`, `on_runqueue`. `ImplementsScheduler` is the refinement: the
sequence met from `rq_head` is the queue of `Scheduler`.

**Process.** Composes the scheduler's operations with the family list (parent, first
child, sibling pointers), pids, groups and signals. `pc` cuts `wait4` into scan, block
and yield, and fork and spawn into reserve, block and publish. `load.irq` says whether
a terminal interrupt may come inside a system call or only in user mode.

**FdTable.** Descriptor tables per process, the shared reference slots, and the counts
of pipes, ptys and event objects: every open, dup, fork, exec, close, exit and reap. A
pipe, pty master or eventfd that cannot be completed is undone step by step, as the code
does it, and an execve may fail after the old image is gone. A read or a write of a pipe
that must wait stays in the call, holding its pointers, while others run. Pipe data is a
count. `lost` is history: the references that fork and a failing open of `/dev/tty`
forget.

**UserMemory.** One task's table of mappings in pages, the top-down gap search, brk
and execve. `mapped`, `arena`, `given` and `strained` are history: what the program has
mapped, what mmap has placed, the pages that the last mmap placed, and whether the table
has been full, a call has failed half way, or a request has straddled an edge of the
window.

**Sockets.** `net` holds the socket table, the control blocks of lwIP (external: a state
and the socket given to `tcp_arg`) and who has descriptors. accept, connect, recvfrom
and a send on a socket pair enter the call and then step, give up or go on waiting. The
callbacks of lwIP run in the timer interrupt too, inside any call, if `load.irq`. So a
call that changes the table is a sequence of steps, `mid`: socket and socketpair are cut
between finding a slot and taking it, close and exit between the tests of
`socket_drop_ref`, each queued connection, the detaching of the control block and the
end of `memset`, accept before the dequeue, recvfrom into copy, address, comparison and
update. `raced` is history: a callback has changed what the step in progress had read.
The code has no protection against that and all properties are claimed until then; a
callback anywhere else is covered. A byte of a stream is its sender and its number in
what this sender was asked to send; `in`, `got` and `lost` are history: the bytes handed
over and read per sender, and whether a segment met too small a buffer.

**Terminal.** The rings that the keyboard and mouse interrupts fill, the console's line
buffer with its editing, the pending Ctrl-C and who turns it into a signal, and a pty
with its two rings, echo, canonical mode, signals, close and hang-up. `cpu` is the
console reader that has the CPU; interrupts come between any two steps. A character is
one of the few that the line discipline tells apart.

**Events.** One step of `Iterate` is one turn of the loop of a blocking call: it looks
and returns, or waits. Eventfd, timerfd, signalfd, epoll and a pipe are inherited by all
processes; signals, the interval timer and the clock interleave with them. `elog` is
history: what was added and told, and how the last call ended.

**Exec.** One task through `execve` and `process_spawn_exec`: header checks, the choice
of the load address, the clearing of old regions, segments, relocations, the interpreter
and the first stack. Any read may fail. Memory is a function from addresses to what
they hold, in units of half a page, so "what is in memory now" can be compared with what
the file says.

**ExtDisk, Ext2, Ext4, Files.** A file-system operation is an operator on a record that
carries the disk, the mount's memory and the images the disk went through on the way;
a power failure picks one of those, a fault makes the n-th write fail. ext2 writes
bitmaps through, ext4 keeps one bitmap block and the counters in memory. `Files` has the
calls on paths and on descriptors, and `want` and `tree`: the bytes and the names that
completed calls promised.

**Paths.** Normalisation, the mount table, resolution of a path from any current
directory, device paths, and the search for a root at boot. A path is a sequence of
tokens that keeps every "/" the code keeps.

**Disk.** A block call is cut into batches; AHCI issues a command, polls and times out,
and its interrupt handler races with it; the drive may be late, lose a completion or
fail; retries halve the request. Tags tell a late completion from the one waited for.
ATA writes by programmed I/O. The boot chooses the disk.

**Nic.** The receive and transmit rings, polled by calls and by interrupts inside them,
and the queues of ICMP packets that the port keeps, with their readers.

**Usb.** The stack `stk` is the calls in progress, an interrupt's above those it
interrupted: waiting for one xHCI event may handle another, which enumerates or drops a
device and waits in turn. Hubs, hot plug, data toggles, and the pools of DMA memory,
queue heads and transfer descriptors are in it.

`load` (and `dload`, `tload`, ...), chosen in `Init` from a constant set, is a workload:
which calls a behaviour makes and how large its tables are. It lets one run cover
several mixes of calls, each of which can be explored completely.

## Runs

| run | expect | shows |
|---|---|---|
| `scheduler` | pass | the queue is the runnable tasks, once each, and first in, first out; under fairness no runnable task starves |
| `run_queue` | pass | the linked list is well formed from both ends and implements `Scheduler` |
| `process` | pass | run queue and family lists hold, and a task parked after its death never gets the CPU, with interrupts in calls too; without Ctrl-C every child is in its parent's list; with interrupts in user mode only, no death is missed by `wait4` |
| `process_orphan` | violation | a zombie adopted by pid 1 can wait unreaped while pid 1 sleeps |
| `fd` | pass | counts of pipes, ptys and eventfds are exact; those of reference slots are exact up to what fork and `/dev/tty` forget; a polling call keeps its pipe |
| `user_memory_brk` | violation | a split with a full table forgets the upper half, and brk grows over it |
| `sockets` | pass | until raced: references, control blocks and the ends of pairs stay matched through every close, error and reuse; a pair loses, repeats and reorders no byte of a sender, nor does TCP if segments fit; the sender reported with a datagram is right; no call polls for what cannot come |
| `storage` | pass | no block or inode is given out twice; bytes and names that completed calls promised survive later calls, failing writes and power failures (ext2: at any write; ext4: between calls); rename moves; paths resolve as POSIX says; mounts are visible |
| `first_block` | violation | with 1024-byte blocks, ext4's first allocation is a block in use |
| `drivers` | pass | disk calls move exactly the sectors they report and return; the root disk is chosen as documented; frames are neither lost silently, reordered nor repeated; a USB result belongs to its request, and mouse reports arrive once, in order |
| `services` | pass | Ctrl-C is not lost; terminals deliver exactly what was typed; poll agrees with read; event counters and timers are exact; waits end for the reason they report; a failed exec is harmless, a successful one leaves only its own image and a right stack; tracked mappings never overlap, the gap search finds the highest gap, and until strained the table is exact, mmap hands out nothing that is still mapped and brk keeps clear |
| `ata_count` | violation | a write of more sectors than a byte counts is reported as done |

`scheduler` and `run_queue` have 51 thousand states each, `process` 1.5 million, `fd` 129
thousand, `sockets` 1.2 million, `storage` 83 thousand, `drivers` 342 thousand and `services` 320
thousand. Every property of a passing run has a mutant in
`PROJECT.json`: a plausible bug in a mapped definition that TLC catches by it.
`CHECK_DEADLOCK FALSE` stands in the composed runs, whose workloads end.

Most assertions of `sched_invariant_check` are part of `QueueMatchesState` and
`SchedConsistent`: a task is queued once and exactly if it is RUNNABLE, a RUNNING task is
current, and the current task is RUNNING unless it was killed or is about to yield. That
exception is not in the code: `scheduler_task_set_blocked` makes the check while the
caller of `wait4` is current and BLOCKED, so a debug build reports an error there
(`scheduler.c:73`). "rq-empty current-not-idle" (`scheduler.c:69`) is not claimed at all,
since it fails whenever one task runs alone.

What the code does not keep, and no passing run claims: with Ctrl-C inside a call, a
child under construction that is killed is made runnable again and runs, a sleeping
waiter can miss a death, and a task killed in user mode can fork once more and leave a
child that nobody finds; a parent that ignores SIGCHLD can sleep on. `PROJECT.json`
lists them as hazards.

The violations disagree with `README.md` line 64 (orphan reaping), with the comment in
`do_sys_mmap` (an arena separate from brk), with `tools/rootfs/mkrootfs.py` (images "compatible
with EdgeOS kernel subset") and with the comment in `ext4_write` (a single large write).

### Bounds

- `Scheduler`, `RunQueue`: the boot task and three others: three queued behind the
  current task, so a head, a middle and a tail exist to remove.
- `Process`: four slots, pids up to 5 (one reuse of a slot): a parent with two
  children, a grandchild, adoption by pid 1, and a slot used twice. Interrupts and
  signals are in separate workloads, to keep each complete.
- `FdTable`: two processes, up to five descriptors and five references, one pipe of
  two bytes, one pty, one event object; every table can fill up.
- `UserMemory`: a window of three pages, three slots, requests of up to four pages (a
  split needs three; four at the fixed address below the window cover all of it), fixed
  addresses below and inside the window.
- `Sockets`: two processes, three sockets (a pair and one that takes a freed number, or
  a listener and two queued connections), two control blocks, an accept queue of two and
  a buffer of two bytes, so all of them overflow. `load.bytes` bounds what is handed
  over, and behaviours are followed until they are raced (`UntilRaced`).
- `Terminal`, `Events`, `Exec`: rings of three or four characters and a line of two, so
  that they fill up; two processes, a horizon of four half milliseconds and a counter
  limit of three; eleven programs that reach each branch of the loader.
- `Files`: ten blocks of two bytes and eight inodes; three or four calls; files of up to
  nine bytes (an indirect block, a second extent); the disk can fill up.
- `Paths`: a tree of depth two, three mounts, fifteen paths, two disks of five kinds.
- `Disk`: three sectors, batches of two, two slots, tags modulo three, one error, two or
  three calls. `Nic`: rings of three and two, queues of two, up to four frames.
  `Usb`: rings of four, two or three ports, hubs two deep, two reports.

### Fairness

`RunnableRuns` assumes strong fairness of `Yield` (a program that keeps making
system calls passes the `need_resched` test at the end of `syscall_handler`, and
polling loops yield each time round) and weak fairness of finishing a slot under
construction. A user program that loops without system calls is never preempted, and
nothing is promised once the idle task runs. `CallReturns` (a disk call ends) assumes
weak fairness of the driver's next step and of the interrupt handler once its line is
raised; the drive itself need not ever answer, since the driver counts its polls.
All other properties hold without fairness.

## Proofs

`SchedulerProofs` proves `SchedulerConsistent`: for every set of tasks,
`Spec => [](TypeOK /\ QueueMatchesState /\ RunningIsCurrent)`, and from it `QueueIsFifo`,
`Spec => NoOvertaking`. The only assumption is `TaskAssumption`: the boot task is a task
and the idle task is not.

The three invariants are inductive together and none is alone. `QueueMatchesState`
needs the type to know the queue is a sequence of tasks, and
`RunningIsCurrent` to know that the task `schedule_common` queues again is not
queued already. The lemmas describe each queue operation by membership
(`RemoveUnlinks`, `PushLinks`, `PickRuns`), so the step from each action speaks of
states and never of positions.

Only model-checked: liveness (`RunnableRuns`, `CallReturns`), the refinement,
`UserMemory`, `Process`, `FdTable`, `Sockets`, the drivers, the file systems and paths
and the services.

## Findings

1. `process_adopt_orphans` does not wake pid 1 for a child that is a zombie already
   (`process_orphan`).
2. `user_vma_remove_range` drops the upper half of a split when the table is full, and
   brk may then grow over pages that mmap gave out (`user_memory_brk`).
3. `alloc_from_bitmap` ignores `s_first_data_block` (`first_block`); the run `storage` is
   over images whose first data block is 0.
4. `ata_write_ops` narrows the number of sectors to a byte (`ata_count`); the run
   `drivers` stays below it.

## Not modelled

- Bind, ports, socket options and the sending side of TCP and UDP in `Sockets`; lwIP's
  protocols.
- Page tables, permissions and page contents outside `Exec`; registers and the FPU;
  credentials and `setsid`; argument checking and the dispatch table.
- Console drawing, the framebuffer, boot log and procfs text, `fat32` (a fixed tree in
  memory), userspace.
- PCI search and device set-up; NCQ, which is never enabled. The repository's
  `README.md` line 145 speaks of USB keyboards; the drivers accept boot mice only.
- What a failing `clone3` does with its pidfd, the control block that `sendto` keeps over a
  wait, the hold count of the framebuffer, and the count that a futex wake returns.
