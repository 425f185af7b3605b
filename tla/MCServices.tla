---------------------------- MODULE MCServices ----------------------------
EXTENDS Services

-----------------------------------------------------------------------------
\* An end-of-file character that was not read can be erased, so the loads type one or the other.
Mode == [canon |-> TRUE, isig |-> TRUE, echo |-> FALSE, onlcr |-> TRUE]
Console == [dev |-> "console", mode |-> Mode, toggle |-> FALSE, spawn |-> FALSE, close |-> FALSE,
            nonblock |-> FALSE, keys |-> 5, calls |-> 3, readers |-> {1}, lens |-> {1, 4},
            alphabet |-> {"a", "nl", "erase"}, writes |-> {}]
Pty == [Console EXCEPT !.dev = "pty", !.calls = 4, !.readers = {}, !.lens = {1, 3}]
MCTermLoads ==
  {Console,
   [Console EXCEPT !.alphabet = {"a", "intr", "arrow"}, !.mode.canon = FALSE, !.mode.isig = FALSE,
                   !.spawn = TRUE, !.keys = 3],
   [Console EXCEPT !.alphabet = {"a", "intr", "nl"}, !.readers = {1, 2}, !.keys = 3],
   [Console EXCEPT !.alphabet = {"a", "intr"}, !.toggle = TRUE, !.keys = 2, !.calls = 2],
   [Console EXCEPT !.dev = "mouse", !.readers = {}, !.lens = {1, 3}, !.calls = 2, !.keys = 3]}
  \cup {[Pty EXCEPT !.mode.canon = c,
                    !.writes = {<<"a", "nl">>, <<"erase", "a">>, <<"intr", "a", "a">>}] : c \in BOOLEAN}
  \cup {[Pty EXCEPT !.mode.echo = TRUE, !.close = TRUE, !.nonblock = nb,
                    !.writes = {<<"a", "nl">>, <<"eof", "cr">>, <<"intr", "a", "a">>}] : nb \in BOOLEAN}

-----------------------------------------------------------------------------
\* calls  what each process may call      n     how many calls in all
\* sigs   signals that may arrive         nsig  how many       handler  what they do
\* smask  the signalfd's mask             sem   EFD_SEMAPHORE  store    the futex word changes
Plain == [op |-> "none", fds |-> {}, ev |-> {"in"}, fd |-> "e", v |-> 0, interval |-> 0, t |-> -1,
          nb |-> FALSE, abs |-> FALSE]
Call(o) == [Plain EXCEPT !.op = o]
Nonblocking(c) == [c EXCEPT !.nb = TRUE]
Add(v) == [Call("evwrite") EXCEPT !.v = v]
Arm(v, i) == [Call("settime") EXCEPT !.v = v, !.interval = i]
Timed(o, d) == [Call(o) EXCEPT !.t = d]
On(c, f) == [c EXCEPT !.fds = {f}]
Poll(f, d) == On(Timed("poll", d), f)
Of(o, n) == [Call(o) EXCEPT !.v = n]
ToWrite(c) == [c EXCEPT !.ev = {"out"}]
Watch(o, f) == [Call(o) EXCEPT !.fd = f]
Caught == [s \in {"INT", "TERM", "CHLD", "ALRM"} |-> "user"]
Calls(a, b) == [calls |-> <<a, b>>, n |-> 3, handler |-> Caught, sigs |-> {}, nsig |-> 0, smask |-> {},
                sem |-> FALSE, store |-> FALSE]
Counting == Calls({Add(2), Add(3), Nonblocking(Add(3))},
                  {Call("evread"), Nonblocking(Call("evread")), ToWrite(Poll("e", 2))})
SignalLoad(hd) == [Calls({Timed("nanosleep", 3), Timed("clock", 3), [Call("setitimer") EXCEPT !.v = 1, !.interval = 2]},
                     {On(Timed("select", 3), "s"), On(Call("select"), "x"), Call("sfread"),
                      Nonblocking(Call("sfread"))})
               EXCEPT !.sigs = {"INT", "CHLD"}, !.nsig = 2, !.smask = {"INT", "CHLD"}, !.handler = hd, !.n = 2]
MCEventLoads == <<
  Counting, [Counting EXCEPT !.sem = TRUE],
  Calls({Arm(1, 2), Arm(2, 0), [Arm(2, 1) EXCEPT !.abs = TRUE], Call("tfread")}, {Call("tfread"), Poll("t", 3)}),
  SignalLoad(Caught), SignalLoad([Caught EXCEPT !["INT"] = "ign", !["CHLD"] = "dfl", !["ALRM"] = "dfl"]),
  [Calls({Watch("add", "e"), Watch("add", "t"), Watch("add", "x"), [Watch("mod", "e") EXCEPT !.ev = {"in", "out"}],
          Watch("del", "e")}, {Timed("epoll", 1), Poll("ep", 0), Add(1)}) EXCEPT !.sigs = {"INT"}, !.nsig = 1],
  [Calls({Timed("futex", 2), Call("futex")}, {Of("futex", 1)})
     EXCEPT !.n = 2, !.sigs = {"INT"}, !.nsig = 1, !.store = TRUE],
  [Calls({Of("pwrite", 2), Nonblocking(Of("pwrite", 1)), ToWrite(Poll("pw", 1)), ToWrite(On(Timed("select", 1), "pw")),
          Watch("pclose", "pw")},
         {Of("pread", 1), Nonblocking(Of("pread", 2)), Poll("pr", 1), Watch("pclose", "pr"), Watch("add", "pr"),
          [Watch("add", "pr") EXCEPT !.ev = {}], Timed("epoll", 1)}) EXCEPT !.sigs = {"INT"}, !.nsig = 1]>>

-----------------------------------------------------------------------------
\* The files: dynamic and fixed programs of several sizes, and files that are none.
Seg(off, va, fs, sz) ==
  [type |-> "load", off |-> off, vaddr |-> va, filesz |-> fs, memsz |-> sz, name |-> "none"]
Header(t, va) == [Seg(0, va, 0, 0) EXCEPT !.type = t]
LdSo == [Header("interp", 0) EXCEPT !.name = "ld"]
Elf(t, e, ph) == [dir |-> FALSE, magic |-> TRUE, phent |-> TRUE, type |-> t, size |-> 8, phoff |-> 1,
                  entry |-> e, ph |-> ph, rela |-> <<>>]
InHeap == <<Seg(0, LowBase, 4, 4), Seg(4, HeapBase, 3, HeapDelta - 1)>>
MCPrograms == [
  sh    |-> Elf("dyn", 1, <<Header("phdr", 1), Seg(0, 0, 5, 5), LdSo>>),
  ld    |-> Elf("dyn", 1, <<Seg(0, 0, 3, 4)>>),
  full  |-> [Elf("dyn", 1, <<Seg(0, 0, 4, 4), Seg(4, 4, 2, 4), Header("dynamic", 4)>>)
               EXCEPT !.rela = <<[at |-> 5, add |-> 1]>>],
  large |-> Elf("dyn", 1, <<Seg(0, 0, 4, 4), Seg(4, 4, 3, 6)>>),
  fixed |-> Elf("exec", LowBase, <<Seg(4, HeapBase + 2, 3, 3), Seg(0, LowBase, 4, 4)>>),
  huge  |-> [Elf("exec", LowBase, InHeap) EXCEPT !.size = 9],
  over  |-> Elf("exec", LowBase, InHeap),
  cut   |-> Elf("dyn", 0, <<Seg(0, 0, 9, 9)>>),
  odd   |-> [Elf("dyn", 0, <<Seg(0, 0, 3, 3)>>) EXCEPT !.phent = FALSE],
  text  |-> [Elf("dyn", 0, <<>>) EXCEPT !.magic = FALSE],
  etc   |-> [Elf("dyn", 0, <<>>) EXCEPT !.dir = TRUE]]
Strings(a, e) == [argv |-> a, envp |-> e]
MCArgLists == {Strings(<<2, 1>>, <<3>>), Strings(<<15>>, <<0, 1>>),
               Strings(<<1, 17>>, <<>>), Strings(<<1>>, <<Bad>>), Strings(<<1, 2, 3, 16>>, <<1, 2>>)}
=============================================================================
