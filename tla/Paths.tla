------------------------------- MODULE Paths -------------------------------
(***************************************************************************)
(* Path names and mounts: vfs.c's normalize_path, vfs_find_mount,          *)
(* vfs_resolve and device paths, the calls that move the current directory *)
(* or add a mount, and the search for a root file system at boot.          *)
(*                                                                         *)
(* A path is a sequence of tokens: names, ".", ".." and "/".  The code's   *)
(* texts keep every "/" they are built from, so "/dev//null" is not        *)
(* "/dev/null".                                                            *)
(***************************************************************************)
EXTENDS Integers, Sequences, FiniteSets, SequencesExt, FiniteSetsExt

CONSTANTS Disks,      \* what each candidate device holds at boot, per device name
          Order,      \* the order in which kernel_main tries them
          DevNames,   \* nodes of /dev
          Tree,       \* directories of the root file system, as name sequences
          OnDisk,     \* directories of a disk mounted later, as name sequences
          Tried,      \* paths the calls use
          Targets,    \* paths a disk is mounted on
          MaxMounts,  \* VFS_MAX_MOUNTS, the size of each mount table
          Steps       \* calls in a behaviour

VARIABLES held,       \* what the devices hold
          mounts,     \* g_mounts: mount point, file system, device
          slots,      \* g_ext4_mount_count, g_ext2_mount_count
          dirs,       \* directories of the root file system
          cwd, look, steps

pvars == <<held, mounts, slots, dirs, cwd, look, steps>>

Slash == <<"/">>
NoLook == [path |-> <<>>, cwd |-> Slash, got |-> <<>>, ref |-> <<>>, mount |-> FALSE, new |-> FALSE]

\* The names in a text, without "/".
Parts(text) == SelectSeq(text, LAMBDA t : t # "/")
RealParts(text) == SelectSeq(text, LAMBDA t : t \notin {"/", ".", ".."})

-----------------------------------------------------------------------------
\* Mutant: ".." removes the last token of the text only.
CutOne(out, c) ==
  CASE c = "." -> out
    [] c = ".." /\ Len(out) > 1 -> Front(out)
    [] c = ".." -> out
    [] OTHER -> (IF Len(out) > 1 THEN out \o Slash ELSE out) \o <<c>>
\* One component of normalize_path.  ".." cuts the text after the last "/"
\* but one character, and leaves that "/"; a name after it adds another.
Normal(out, c) ==
  CASE c = "." -> out
    [] c = ".." /\ Len(out) > 1 ->
         SubSeq(out, 1, Max({i \in 1..Len(out)-1 : out[i] = "/"}))
    [] c = ".." -> out
    [] OTHER -> (IF Len(out) > 1 THEN out \o Slash ELSE out) \o <<c>>

normalize_path(dir, in) ==
  LET text == IF in = <<>> THEN dir
              ELSE IF in[1] = "/" THEN in
              ELSE (IF dir = Slash THEN dir ELSE dir \o Slash) \o in
  IN FoldLeft(Normal, Slash, Parts(text))

\* The longest mount point that is a prefix of the path and ends at a "/" of
\* it; the oldest of equal ones.
Under(abs, mp) ==
  /\ IsPrefix(mp, abs)
  /\ Len(mp) > 1 /\ Len(abs) > Len(mp) => abs[Len(mp) + 1] = "/"
vfs_find_mount(abs) ==
  LET fit == {i \in DOMAIN mounts : Under(abs, mounts[i].point)}
      best == {i \in fit : \A j \in fit : Len(mounts[j].point) <= Len(mounts[i].point)}
  IN IF best = {} THEN 0 ELSE Min(best)

\* /dev/NAME when the text is exactly that; /dev/pts and /dev/input are
\* directories that no file system holds.
vfs_try_resolve_devpath(abs) ==
  IF Len(abs) = 4 /\ SubSeq(abs, 1, 3) = <<"/", "dev", "/">>
  THEN IF abs[4] \in {"pts", "input"} THEN <<"devdir", abs[4]>>
       ELSE IF abs[4] \in DevNames THEN <<"dev", abs[4]>> ELSE <<>>
  ELSE <<>>

\* Whether a name sequence is a directory of what is mounted there.
IsDirOn(fs, names) ==
  CASE fs = "root" -> names \in dirs
    [] fs = "proc" -> names = <<>>
    [] OTHER -> names \in OnDisk

\* vfs_resolve: a device, <<file system, names>> or <<>> when it fails.
vfs_resolve(dir, path) ==
  LET abs == normalize_path(dir, path)
      dev == vfs_try_resolve_devpath(abs)
      m == vfs_find_mount(abs)
      rel == RealParts(SubSeq(abs, Len(mounts[m].point) + 1, Len(abs)))
  IN IF dev # <<>> THEN dev
     ELSE IF m = 0 THEN <<>>
     ELSE IF IsDirOn(mounts[m].fs, rel) THEN <<mounts[m].fs, rel>> ELSE <<>>

IsDirectory(r) == r # <<>> /\ r[1] # "dev"

\* build_at_path relative to the current directory: the text is not normalised.
build_at_path(dir, in) ==
  IF in[1] = "/" THEN in
  ELSE LET sep == IF Len(dir) > 1 /\ dir[Len(dir)] # "/" THEN Slash ELSE <<>>
           out == dir \o sep \o in
       IN IF Len(out) > 1 /\ out[Len(out)] = "/" THEN Front(out) ELSE out

-----------------------------------------------------------------------------
(* What a path should mean *)

Climb(names, c) ==
  CASE c = "." -> names
    [] c = ".." -> IF names = <<>> THEN <<>> ELSE Front(names)
    [] OTHER -> Append(names, c)
Canonical(dir, in) ==
  FoldLeft(Climb, <<>>, (IF in # <<>> /\ in[1] = "/" THEN <<>> ELSE Parts(dir)) \o Parts(in))

Meaning(dir, in) ==
  LET names == Canonical(dir, in)
      point(i) == Canonical(Slash, mounts[i].point)
      fit == {i \in DOMAIN mounts : IsPrefix(point(i), names)}
      best == {i \in fit : \A j \in fit : Len(point(j)) <= Len(point(i))}
      m == Min(best)
      rel == SubSeq(names, Len(point(m)) + 1, Len(names))
  IN IF Len(names) = 2 /\ names[1] = "dev" /\ names[2] \in DevNames THEN <<"dev", names[2]>>
     ELSE IF Len(names) = 2 /\ names[1] = "dev" /\ names[2] \in {"pts", "input"}
          THEN <<"devdir", names[2]>>
     ELSE IF IsDirOn(mounts[m].fs, rel) THEN <<mounts[m].fs, rel>> ELSE <<>>

-----------------------------------------------------------------------------
(* Mounting *)

\* vfs_add_superblock
AddMount(ms, point, fs, dev) ==
  IF Len(ms) >= MaxMounts THEN ms
  ELSE Append(ms, [point |-> point, fs |-> fs, dev |-> dev])

\* ext4_mount_common, ext2_mount_common: a slot of the driver's table is used
\* whatever comes of the attempt.  A root must hold /sbin/init; ext2 does not
\* look at the feature flags, but finds no names in an ext4 image.
Accepts(fs, what, point) ==
  IF point = Slash THEN what.fs = fs /\ what.init
  ELSE what.fs = fs \/ (fs = "ext2" /\ what.fs = "ext4")

\* kernel_main: try every candidate as ext4, then as ext2; s is [done, slots, m].
TryRoot(s, d) ==
  LET attempt(a, fs) ==
        IF a.done \/ a.slots[fs] >= MaxMounts THEN a
        ELSE [done |-> Accepts(fs, held[d], Slash),
              slots |-> [a.slots EXCEPT ![fs] = @ + 1],
              m |-> IF Accepts(fs, held[d], Slash) THEN AddMount(a.m, Slash, "root", d) ELSE a.m]
  IN IF held[d].fs = "absent" THEN s ELSE attempt(attempt(s, "ext4"), "ext2")

kernel_main_mount ==
  LET none == [done |-> FALSE, slots |-> [fs \in {"ext4", "ext2"} |-> 0], m |-> <<>>]
      r == FoldLeft(TryRoot, none, Order)
      root == IF r.done THEN r.m ELSE AddMount(r.m, Slash, "root", "memfs")
  IN [r EXCEPT !.m = AddMount(root, <<"/", "proc">>, "proc", "proc")]

PathsInit ==
  /\ held \in Disks
  /\ mounts = kernel_main_mount.m
  /\ slots = kernel_main_mount.slots
  /\ dirs = Tree
  /\ cwd = Slash
  /\ look = NoLook
  /\ steps = 0

Look(dir, p) == [path |-> p, cwd |-> dir, got |-> vfs_resolve(dir, p), ref |-> Meaning(dir, p),
                 mount |-> FALSE, new |-> FALSE]
Step == steps < Steps /\ steps' = steps + 1

\* vfs_mkdir of a path on the root file system, its result ignored.
mkdir_target(path) ==
  LET names == Canonical(Slash, path)
      parent == vfs_resolve(Slash, Front(path))
  IN IF /\ Len(path) > 2 => parent # <<>> /\ parent[1] = "root"
        /\ vfs_find_mount(path) # 0
        /\ mounts[vfs_find_mount(path)].fs = "root"
     THEN dirs \cup {names} ELSE dirs

\* do_sys_chdir, vfs_chdir, do_sys_fchdir: the normalised text becomes the
\* current directory.
Chdir(p) ==
  /\ Step
  /\ IsDirectory(vfs_resolve(cwd, p))
  /\ cwd' = normalize_path(cwd, p)
  /\ look' = Look(cwd, p)
  /\ UNCHANGED <<held, mounts, slots, dirs>>

\* do_sys_openat: a path under /proc that does not resolve mounts proc again.
OpenPath(p) ==
  LET path == build_at_path(cwd, p)
      again == vfs_resolve(cwd, path) = <<>> /\ Under(path, <<"/", "proc">>)
  IN /\ Step
     /\ look' = Look(cwd, path)
     /\ mounts' = IF again THEN AddMount(mounts, <<"/", "proc">>, "proc", "proc") ELSE mounts
     /\ dirs' = IF again THEN mkdir_target(<<"/", "proc">>) ELSE dirs
     /\ UNCHANGED <<held, slots, cwd>>

\* do_sys_mount, do_sys_linux_mount of a disk; do_sys_linux_mount of proc.
Mount(d, fs, target) ==
  LET ok == slots[fs] < MaxMounts /\ Accepts(fs, held[d], target)
      ms == IF ok THEN AddMount(mounts, target, d, d) ELSE mounts
  IN /\ Step
     /\ held[d].fs # "absent"
     /\ vfs_resolve(cwd, <<"/", "dev", "/", d>>) = <<"dev", d>>
     /\ dirs' = mkdir_target(target)
     /\ mounts' = ms
     /\ slots' = [slots EXCEPT ![fs] = IF @ < MaxMounts THEN @ + 1 ELSE @]
     /\ look' = [NoLook EXCEPT !.path = target, !.got = <<d>>, !.mount = TRUE,
                   !.new = ms # mounts /\ \A i \in DOMAIN mounts : mounts[i].point # target]
     /\ UNCHANGED <<held, cwd>>

PathsNext ==
  \/ \E p \in Tried : Chdir(p) \/ OpenPath(p)
  \/ \E d \in DevNames \cap DOMAIN held, fs \in {"ext4", "ext2"}, t \in Targets : Mount(d, fs, t)

-----------------------------------------------------------------------------
(* Properties *)

DotsLast(p) == \A i, j \in DOMAIN p : i < j /\ p[i] = ".." => p[j] \in {"..", ".", "/"}
UsableRoot(d) == held[d].fs \in {"ext4", "ext2"} /\ held[d].init

\* normalize_path and vfs_resolve agree with what a path means, wherever the
\* current directory is and whatever has been mounted, as long as no name
\* follows a ".." in it; a single ".." in the middle does no harm outside /dev
\* and mount points.  The text vfs_chdir keeps as the current directory,
\* trailing "/" and all, resolves to a directory until a disk is mounted on a
\* directory above it.
PathsResolve ==
  /\ look.path # <<>> /\ ~look.mount /\ DotsLast(look.path) => look.got = look.ref
  /\ Cardinality({i \in DOMAIN look.path : look.path[i] = ".."}) = 1 =>
       (IF look.ref = <<>> THEN TRUE ELSE look.ref[1] = "root" => look.got = look.ref)
  /\ (\A i \in DOMAIN mounts : mounts[i].fs \in DevNames => ~Under(cwd, mounts[i].point))
       => IsDirectory(vfs_resolve(Slash, cwd))

=============================================================================
