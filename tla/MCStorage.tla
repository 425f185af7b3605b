----------------------------- MODULE MCStorage -----------------------------
EXTENDS Storage

\* calls  the calls the workload makes        ops   how many
\* crash  "none", "idle" (between calls) or "any" (at any block write)
\* fault  whether one block write fails       max   bytes a file may grow to
Base == [fs |-> "ext4", fdb |-> 0, image |-> "extents", crash |-> "none", fault |-> FALSE,
         ops |-> 3, max |-> 5, paths |-> {<<"f">>, <<"g">>}, bufs |-> {<<1>>, <<2, 2, 2>>},
         calls |-> {}]

Whole == {"writefile", "mkdir", "unlink", "rmdir", "rename", "link", "truncate", "chmod"}
Desc == {"open", "write", "read", "lseek", "close", "ftruncate", "sendfile"}
MCLoads ==
  {[Base EXCEPT !.calls = Whole, !.crash = "idle", !.ops = 4],
   [Base EXCEPT !.calls = Whole \ {"chmod"}, !.crash = "idle", !.bufs = {<<2, 2, 2>>},
                !.paths = {<<"f">>, <<"sbin", "init">>, <<"sbin">>, <<"f", "g">>}],
   [Base EXCEPT !.fs = "ext2", !.calls = Whole, !.fault = TRUE, !.crash = "any"],
   [Base EXCEPT !.fs = "ext2", !.calls = Whole \ {"chmod"}, !.crash = "any", !.bufs = {<<2, 2, 2>>},
                !.paths = {<<"f">>, <<"sbin", "init">>, <<"sbin">>, <<"f", "g">>}],
   [Base EXCEPT !.calls = Whole, !.fault = TRUE],
   [Base EXCEPT !.image = "deep", !.calls = Whole, !.paths = {<<"f">>, <<"sbin", "init">>}],
   [Base EXCEPT !.image = "legacy", !.calls = Whole]}
  \cup {[Base EXCEPT !.fs = fs, !.calls = Desc \cup {"unlink"}, !.ops = 4, !.max = 9,
                     !.paths = {<<"f">>, <<"sbin", "init">>}] : fs \in {"ext2", "ext4"}}

\* The image the build makes has 1024-byte blocks: its first data block is 1.
MCFirstBlock == {[Base EXCEPT !.calls = {"writefile", "mkdir"}, !.fdb = 1]}

\* What a disk of the machine can hold when it boots.
Holds == {[fs |-> "absent", init |-> FALSE], [fs |-> "blank", init |-> FALSE],
          [fs |-> "ext4", init |-> FALSE], [fs |-> "ext4", init |-> TRUE],
          [fs |-> "ext2", init |-> TRUE]}
MCDisks == [{"ram0", "sda1"} -> Holds]
MCOrder == <<"ram0", "sda1">>
MCTree == {<<>>, <<"dev">>, <<"mnt">>, <<"mnt", "d">>, <<"bin">>}
MCTried == {<<"/">>, <<"/", "mnt">>, <<"mnt", "/", "d">>, <<"..">>, <<"d">>, <<".">>,
            <<"..", "/", "mnt">>, <<"/", "dev", "/", "null">>, <<"/", "dev", "/", "pts">>,
            <<"null">>, <<"/", "proc", "/", "x">>, <<"/", "bin", "/", "..", "/", "mnt", "/", "d">>,
            <<"/", "mnt", "/", "d", "/", "..", "/", "..", "/", "bin">>, <<"..", "/", "d">>,
            <<"..", "/", "..">>}
MCOnDisk == {<<>>}
MCTargets == {<<"/", "mnt">>, <<"/", "mnt", "/", "d">>}
=============================================================================
