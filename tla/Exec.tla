-------------------------------- MODULE Exec --------------------------------
(***************************************************************************)
(* Starting a program: execve (src/sys/syscall.c), the ELF loader          *)
(* (src/elf/elf_loader.c), the first stack (src/sys/user_exec.c) and the   *)
(* other way to a program, process_spawn_exec (src/sys/process.c).         *)
(*                                                                         *)
(* One task.  Its memory xm is a function from addresses, in units of half *)
(* a page, to what they hold: Zero, the unit o of a file f as <<f, o>>, a  *)
(* relocated pointer <<"rel", v>>, or what the program wrote.  A call goes *)
(* through the states "main", "interp" and "loaded", as the loader does;   *)
(* any of its reads may fail.  The stack is counted in bytes downwards     *)
(* from its top.                                                           *)
(***************************************************************************)
EXTENDS FiniteSets, Lists, TLC

CONSTANTS AddrMin, AddrMax,    \* USER_ADDR_MIN, USER_ADDR_MAX
          LowBase, LowLimit,   \* EDGE_MAIN_ET_DYN_BASE, USER_LOW_LIMIT_ADDR
          InterpBase,          \* EDGE_INTERP_ET_DYN_BASE, where the text region starts
          StackBase,           \* USER_STACK_BASE, the end of the text region
          HeapBase, HeapDelta, \* USER_HEAP_BASE, USER_HEAP_DEFAULT_DELTA
          HeapExtra, BigFile,  \* USER_HEAP_PY_EXTRA_DELTA, and the size above which it is added
          LargeBase, LargeEnd, \* USER_BIGPIE_BASE and the end of that region
          MaxPh,               \* ELF_MAX_PHNUM
          MaxArgs, ArgSize,    \* 32, and the size of an argument's buffer
          Programs,            \* the files, by name
          ArgLists             \* pairs of argument and environment lists, as lengths of strings

ASSUME ExecAssumption ==
  /\ 0 < AddrMin /\ AddrMin <= LowBase /\ LowBase < LowLimit /\ LowLimit <= InterpBase
  /\ InterpBase < StackBase /\ StackBase < HeapBase /\ HeapBase + HeapDelta + HeapExtra <= LargeBase
  /\ LargeBase < LargeEnd /\ LargeEnd <= AddrMax

VARIABLES xt,   \* the task
          xm,   \* its memory
          xlog  \* history: how it was started, from what, and whether it has written since

xvars == <<xt, xm, xlog>>

Page == 2
Addr == 0..(AddrMax - 1)
Shipped == DOMAIN Programs
Zero == <<"zero", 0>>
NoFault == <<"none", "none">>
Bad == -1   \* the length of a string that cannot be read

NoStack == [depth |-> 0, words |-> <<>>]

-----------------------------------------------------------------------------
(* The loader *)

user_addr_range_ok(a, n) == a >= AddrMin /\ a < AddrMax /\ a + n <= AddrMax

elf_valid(f) == f.magic /\ f.type \in {"exec", "dyn"}

Loads(f) == {i \in DOMAIN f.ph : f.ph[i].type = "load"}
HasDynamic(f) == \E i \in DOMAIN f.ph : f.ph[i].type = "dynamic"
Largest(S) == CHOOSE x \in S : \A y \in S : x >= y

\* rel_hi
Extent(f) == Largest({0} \cup {f.ph[i].vaddr + f.ph[i].memsz : i \in Loads(f)})

\* A main program that does not fit the low region is put where there is more room.
LoadBias(f, base) ==
  IF f.type = "exec" THEN 0
  ELSE IF base = LowBase /\ LowBase + Extent(f) > LowLimit THEN LargeBase ELSE base

\* The segment is there, and fits.
SegmentOk(f, s, bias) ==
  /\ s.off + s.filesz <= f.size /\ s.memsz >= s.filesz
  /\ user_addr_range_ok(bias + s.vaddr, s.memsz)

Segment(m, n, s, dst) ==
  [a \in dst..(dst + s.memsz - 1) |-> IF a < dst + s.filesz THEN <<n, s.off + (a - dst)>> ELSE Zero] @@ m

Relocs(f) == IF HasDynamic(f) THEN f.rela ELSE <<>>

\* edge_load_relative_relocs: the ones before a bad one would be done too, but the image is
\* given up then.
edge_load_relative_relocs(m, f, bias) ==
  FoldLeft(LAMBDA mm, r : (bias + r.at) :> <<"rel", bias + r.add>> @@ mm, m, Relocs(f))

\* The address of the program headers: the one the file gives, or where the first segment
\* that covers them puts them; 0 if there is none.
HeadersAt(f, bias) ==
  LET own == {i \in DOMAIN f.ph : f.ph[i].type = "phdr"}
      over == {i \in Loads(f) : /\ f.phoff >= f.ph[i].off
                                /\ f.phoff + Len(f.ph) <= f.ph[i].off + f.ph[i].filesz}
      i == CHOOSE k \in over : \A l \in over : k <= l
  IN  IF own # {} THEN bias + f.ph[Largest(own)].vaddr
      ELSE IF over = {} THEN 0 ELSE bias + f.ph[i].vaddr + (f.phoff - f.ph[i].off)

Interp(f) == {f.ph[i].name : i \in {j \in DOMAIN f.ph : f.ph[j].type = "interp"}}

\* Whether the headers of the file can be used, when the read bad fails.
HeadersOk(n, bad) ==
  /\ n \in Shipped /\ ~Programs[n].dir
  /\ LET f == Programs[n]
     IN  /\ f.size >= 1 /\ bad # <<n, "ehdr">> /\ elf_valid(f) /\ f.phent
         /\ Len(f.ph) \in 1..MaxPh /\ f.phoff + Len(f.ph) <= f.size /\ bad # <<n, "phdr">>

\* Whether edge_load_elf_from_vfs returns 0.
Loadable(n, f, bias, bad) ==
  /\ HeadersOk(n, bad)
  /\ \A i \in Loads(f) : SegmentOk(f, f.ph[i], bias)
  /\ bad # <<n, "seg">>
  /\ \A i \in DOMAIN Relocs(f) : user_addr_range_ok(bias + Relocs(f)[i].at, 1)
  /\ Interp(f) # {} => bad # <<n, "interp">>
  /\ HeadersAt(f, bias) # 0

\* What it then has done.
edge_load_elf_from_vfs(m, n, f, bias) ==
  edge_load_relative_relocs(
    FoldLeft(LAMBDA mm, s : IF s.type = "load" THEN Segment(mm, n, s, bias + s.vaddr) ELSE mm, m, f.ph),
    f, bias)

LoadHi(f, bias) == Largest({0} \cup {bias + f.ph[i].vaddr + f.ph[i].memsz : i \in Loads(f)})

elf_loader_probe(n) == Programs[n].size >= 1 /\ elf_valid(Programs[n])

-----------------------------------------------------------------------------
(* The stack a program finds *)

Cap(s) == SubSeq(s, 1, IF Len(s) > MaxArgs THEN MaxArgs ELSE Len(s))
RoundUp(n, unit) == ((n + unit - 1) \div unit) * unit

\* The depths at which strings of these lengths start, the last one pushed first, from d on.
StringsAt(d, lens) ==
  [i \in DOMAIN lens |-> FoldLeft(+, d, [j \in 1..(Len(lens) - i + 1) |-> lens[Len(lens) - j + 1] + 1])]

Below(d, at) == IF at = <<>> THEN d ELSE at[1]

\* Mutant: the count of words leaves out the end of the environment.
PadOneShort(argc, envc) == IF (24 + argc + envc) % 2 = 1 THEN 8 ELSE 0

\* The words below are 25 and one for each string; the stack pointer ends up aligned.
Pad(argc, envc) == IF (25 + argc + envc) % 2 = 1 THEN 8 ELSE 0

\* AT_PHDR, AT_PHENT, AT_PHNUM, AT_ENTRY, AT_BASE, AT_PAGESZ, AT_UID, AT_EUID, AT_GID, AT_EGID, AT_NULL
AuxWords(aux) ==
  <<3, aux.phdr, 4, 1, 5, aux.phnum, 9, aux.entry, 7, aux.base, 6, Page, 11, 0, 12, 0, 13, 0, 14, 0, 0, 0>>

user_exec_run(aux, argv, envp) ==
  LET a == StringsAt(0, argv)
      e == StringsAt(Below(0, a), envp)
      words == <<Len(a)>> \o a \o <<0>> \o e \o <<0>> \o AuxWords(aux)
      top == RoundUp(Below(Below(0, a), e), 16) + Pad(Len(a), Len(e))
  IN  [depth |-> top + 8 * Len(words), words |-> words]

-----------------------------------------------------------------------------
(* The task *)


\* What process_prepare_exec_current clears: task_clear_user_regions goes as far as the heap
\* may, and the extension of the heap and the large region follow.
Region(limit) ==
  {a \in Addr : \/ a >= LowBase /\ a < LowLimit
                \/ a >= InterpBase /\ a < limit
                \/ a >= HeapBase + HeapDelta /\ a < HeapBase + HeapDelta + HeapExtra
                \/ a >= LargeBase /\ a < LargeEnd}

Wiped(limit) == [a \in Region(limit) |-> Zero] @@ xm

\* Standard descriptors lose the flag instead of being closed.
CloseOnExec(fds) ==
  [f \in DOMAIN fds |-> IF fds[f] # "cloexec" THEN fds[f] ELSE IF f <= 2 THEN "open" ELSE "none"]

\* The break starts a page above an image that reaches into the heap window.
HeapFor(hi, limit) ==
  IF hi > HeapBase /\ hi < limit THEN RoundUp(hi + Page, Page) ELSE HeapBase

\* What fails before anything but the name of the task has changed.
Unreadable(args) == \E i \in DOMAIN args :
  i <= 2 * MaxArgs /\ (args[i] = Bad \/ (i <= MaxArgs /\ args[i] > ArgSize - 2))

\* Mutant: descriptors are closed before the checks.
FailsLate(e, n) == /\ xt' = [xt EXCEPT !.ret = e, !.name = n, !.fds = CloseOnExec(@)]
                   /\ UNCHANGED <<xm, xlog>>

Fails(e, n) == /\ xt' = [xt EXCEPT !.ret = e, !.name = n]
               /\ UNCHANGED <<xm, xlog>>

Preflight(n) ==
  IF n \notin Shipped THEN "ENOENT"
  ELSE IF Programs[n].dir THEN "EACCES"
  ELSE IF ~elf_loader_probe(n) THEN "ENOEXEC" ELSE "ok"

\* The call up to the loader.
do_sys_execve(n, args) ==
  /\ xt.state = "user"
  /\ IF Unreadable(args.argv) \/ Unreadable(args.envp) THEN Fails("EFAULT", xt.name)
     ELSE IF Preflight(n) # "ok" THEN Fails(Preflight(n), n)
     ELSE /\ xt' = [xt EXCEPT !.state = "main", !.name = n, !.ret = "none", !.fds = CloseOnExec(@)]
          /\ xm' = Wiped(xt.limit)
          /\ xlog' = [how |-> "exec", prog |-> n, args |-> args, wrote |-> FALSE]

\* process_spawn_exec: a child with a memory of its own, all of it cleared; long arguments are cut.
process_spawn_exec(n, args) ==
  LET cut == [i \in DOMAIN args.argv |-> IF args.argv[i] > ArgSize - 1 THEN ArgSize - 1 ELSE args.argv[i]]
  IN  /\ xt.state = "none" /\ \A i \in DOMAIN args.argv : args.argv[i] # Bad
      /\ xt' = [xt EXCEPT !.state = "main", !.name = n]
      /\ xm' = [a \in Addr |-> Zero]
      /\ xlog' = [how |-> "spawn", prog |-> n, args |-> [argv |-> Cap(cut), envp |-> <<>>], wrote |-> FALSE]

\* A child that cannot be loaded is discarded; a program that called execve is gone.
LoadFails ==
  /\ xt' = [xt EXCEPT !.state = IF xlog.how = "spawn" THEN "none" ELSE "dead", !.name = "none",
                      !.fds = IF xlog.how = "spawn" THEN @ ELSE [f \in DOMAIN @ |-> "none"]]
  /\ UNCHANGED <<xm, xlog>>

LoadedState == IF xlog.how = "spawn" THEN "pending" ELSE "loaded"

\* elf_loader_exec: the program and, if it names one, its interpreter, where it then starts.
LoadMain(bad) ==
  /\ xt.state = "main"
  /\ \E f \in {Programs[xlog.prog]} : \E bias \in {LoadBias(f, LowBase)} :
       IF ~Loadable(xlog.prog, f, bias, bad) THEN LoadFails
       ELSE /\ xm' = edge_load_elf_from_vfs(xm, xlog.prog, f, bias)
            /\ xt' = [xt EXCEPT !.state = IF Interp(f) = {} THEN LoadedState ELSE "interp",
                                !.start = bias + f.entry, !.hi = LoadHi(f, bias),
                                !.aux = [phdr |-> HeadersAt(f, bias), phnum |-> Len(f.ph),
                                         entry |-> bias + f.entry, base |-> 0]]
            /\ UNCHANGED xlog

LoadInterp(bad) ==
  /\ xt.state = "interp"
  /\ \E n \in Interp(Programs[xlog.prog]) : \E f \in {Programs[n]} : \E bias \in {LoadBias(f, InterpBase)} :
       IF ~Loadable(n, f, bias, bad) THEN LoadFails
       ELSE /\ xm' = edge_load_elf_from_vfs(xm, n, f, bias)
            /\ xt' = [xt EXCEPT !.state = LoadedState, !.start = bias + f.entry, !.aux.base = bias]
            /\ UNCHANGED xlog

\* The rest of do_sys_execve.
Start ==
  /\ xt.state = "loaded"
  /\ \E limit \in {HeapBase + HeapDelta + (IF Programs[xlog.prog].size > BigFile THEN HeapExtra ELSE 0)} :
     \E heap \in {HeapFor(xt.hi, limit)} :
       IF heap > limit THEN LoadFails
       ELSE /\ xt' = [xt EXCEPT !.state = "user", !.limit = limit, !.heap = heap, !.brk = heap,
                                !.stack = user_exec_run(xt.aux, Cap(xlog.args.argv), Cap(xlog.args.envp))]
            /\ UNCHANGED <<xm, xlog>>

\* A spawned program: its heap starts at the base, wherever the image ends.
process_enter_user_current ==
  /\ xt.state = "pending"
  /\ xt' = [xt EXCEPT !.state = "user", !.stack = user_exec_run(xt.aux, xlog.args.argv, <<>>)]
  /\ UNCHANGED <<xm, xlog>>

\* The program writes to a page of the image, of the heap or of the large region.
UserWrite(a) ==
  /\ xt.state = "user" /\ ~xlog.wrote
  /\ xm' = [xm EXCEPT ![a] = <<"written", 0>>]
  /\ xlog' = [xlog EXCEPT !.wrote = TRUE]
  /\ xt' = [xt EXCEPT !.ret = "none"]

-----------------------------------------------------------------------------
ExecInit ==
  /\ xt = [state |-> "none", name |-> "none", ret |-> "none", start |-> 0, hi |-> 0,
           fds |-> [f \in 0..4 |-> IF f \in {2, 3} THEN "cloexec" ELSE "open"],
           heap |-> HeapBase, brk |-> HeapBase, limit |-> HeapBase + HeapDelta,
           aux |-> [phdr |-> 0, phnum |-> 0, entry |-> 0, base |-> 0], stack |-> NoStack]
  /\ xm = [a \in Addr |-> Zero]
  /\ xlog = [how |-> "none", prog |-> "none", args |-> [argv |-> <<>>, envp |-> <<>>], wrote |-> FALSE]

Faults(n) == {NoFault} \cup {<<n, k>> : k \in {"ehdr", "phdr", "seg", "interp"}}

ExecNext ==
  \/ \E n \in Shipped \cup {"gone"}, args \in ArgLists : do_sys_execve(n, args)
  \/ \E n \in Shipped, args \in ArgLists : process_spawn_exec(n, args)
  \/ \E bad \in Faults(xlog.prog) : LoadMain(bad)
  \/ \E bad \in Faults("ld") : LoadInterp(bad)
  \/ Start \/ process_enter_user_current
  \/ \E a \in {LowBase, LowLimit - 1, HeapBase + HeapDelta, LargeBase + 1} : UserWrite(a)

-----------------------------------------------------------------------------
Loaded == xt.state \in {"pending", "user"}

\* "execvp() may probe multiple PATH candidates and expects failed execve() to return without
\* corrupting the current image" (do_sys_execve): an execve that returns leaves the memory,
\* the break, the stack and the descriptors of the program alone.
FailedExecHarmless ==
  [][xt.state = "user" /\ xt'.state = "user" /\ xt'.ret # "none"
       => xm' = xm /\ [xt' EXCEPT !.ret = xt.ret, !.name = xt.name] = xt]_xvars

\* The bias of the running program, from what the kernel tells it.
MainBias == xt.aux.entry - Programs[xlog.prog].entry

\* The address a holds unit o of file f by one of its segments, or is zero by one.
Backs(f, bias, a, o) == \E i \in Loads(f) :
  LET s == f.ph[i] IN a - (bias + s.vaddr) = o - s.off /\ o >= s.off /\ o < s.off + s.filesz

\* Until it writes, a program finds nothing in its memory but its own file, its interpreter's,
\* and zeros: no unit of the program that ran before, none in the wrong place, whatever the
\* sequence of programs, their sizes and the regions they used.
NothingOfOldImage ==
  Loaded /\ ~xlog.wrote =>
    \A a \in Addr : LET v == xm[a] IN
      \/ v = Zero
      \/ v[1] = "rel"
      \/ v[1] = xlog.prog /\ Backs(Programs[v[1]], MainBias, a, v[2])
      \/ v[1] \in Interp(Programs[xlog.prog]) /\ Backs(Programs[v[1]], xt.aux.base, a, v[2])

\* All of a position-independent program, with the part that is not in the file, lies in one
\* of the two regions that are backed by memory for it.
ImageInRegion ==
  Loaded /\ Programs[xlog.prog].type = "dyn" =>
    LET f == Programs[xlog.prog]
        hi == MainBias + Largest({f.ph[i].vaddr + f.ph[i].memsz : i \in Loads(f)})
    IN  (MainBias = LowBase /\ hi <= LowLimit) \/ (MainBias = LargeBase /\ hi <= LargeEnd)

\* After an execve the heap starts above every segment of the program.
HeapAboveImage ==
  Loaded /\ xlog.how = "exec" =>
    LET f == Programs[xlog.prog]
    IN  \A i \in Loads(f) : MainBias + f.ph[i].vaddr < xt.limit
                              => MainBias + f.ph[i].vaddr + f.ph[i].memsz <= xt.heap

\* AT_PHDR leads to the program's own headers in memory, and AT_ENTRY and the starting point
\* to the code: of the interpreter if there is one, loaded at AT_BASE.
AuxLeadsToImage ==
  Loaded /\ ~xlog.wrote =>
    LET f == Programs[xlog.prog]
    IN  /\ \A i \in 0..(xt.aux.phnum - 1) : xm[xt.aux.phdr + i] = <<xlog.prog, f.phoff + i>>
        /\ IF Interp(f) = {} THEN xt.start = xt.aux.entry
           ELSE \E n \in Interp(f) : xt.start = xt.aux.base + Programs[n].entry

\* The stack of a new program is aligned to 16 bytes and holds what the ABI asks for: the
\* count, a pointer to each argument, zero, a pointer to each string of the environment, zero;
\* and no string overlaps another one or the words.
StackWellFormed ==
  xt.state = "user" =>
    LET s == xt.stack
        argv == Cap(xlog.args.argv)
        envp == Cap(xlog.args.envp)
        lens == argv \o envp
        Ptr(i) == IF i <= Len(argv) THEN s.words[i + 1] ELSE s.words[i + 2]
        Bytes(i) == (Ptr(i) - lens[i])..Ptr(i)   \* with the zero at its end
    IN  /\ s.depth % 16 = 0 /\ s.words[1] = Len(argv)
        /\ s.words[Len(argv) + 2] = 0 /\ s.words[Len(lens) + 3] = 0
        /\ \A i \in DOMAIN lens : Bytes(i) \subseteq 1..(s.depth - 8 * Len(s.words))
        /\ \A i, j \in DOMAIN lens : i # j => Bytes(i) \cap Bytes(j) = {}


\* What the kernel tells a program of its arguments and of its image is true (user_exec_run).
StartIsRight == StackWellFormed /\ AuxLeadsToImage
=============================================================================
