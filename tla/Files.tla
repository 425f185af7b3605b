-------------------------------- MODULE Files --------------------------------
(***************************************************************************)
(* Files on a mounted ext2 or ext4 root: the path operations of vfs.c and  *)
(* the system calls of syscall.c that change files, over the disk of       *)
(* ExtDisk.  A call runs to its end without another task in between (no    *)
(* driver wait yields), but the power may fail at any block write, and a   *)
(* block write may fail.                                                   *)
(*                                                                         *)
(* want and tree are what completed calls promised: the bytes of every     *)
(* inode and the names of every directory.  A call that failed, or that a  *)
(* power failure cut short, promises nothing about its own target.         *)
(***************************************************************************)
EXTENDS Ext2, Ext4

CONSTANTS Loads,     \* the workloads: see FilesInit
          Handles,   \* descriptors
          Names      \* names that occur in paths

VARIABLES load, disk, mem, fds, want, tree, ops, faulted, crashed, last

fvars == <<load, disk, mem, fds, want, tree, ops, faulted, crashed, last>>

NoFile == <<-1>>
Closed == [ino |-> 0, size |-> 0, pos |-> 0, app |-> FALSE, path |-> <<>>]
Nothing == [op |-> "none", ino |-> 0, bytes |-> <<>>, moved |-> FALSE]
ext4 == load.fs = "ext4"

-----------------------------------------------------------------------------
(* filesystem_ops_t of the mounted file system *)

Memory(d) == IF ext4 THEN ext4_memory(d) ELSE ext2_memory(d)
Lookup(d, dir, name) == IF ext4 THEN ext4_lookup(d, dir, name) ELSE ext2_lookup(d, dir, name)
Entries(d, dir) == Live(d, IF ext4 THEN ext4_dir_blocks(d.ino[dir]) ELSE ext2_dir_blocks(d.ino[dir]))
Readdir(d, dir, idx) == IF ext4 THEN ext4_readdir(d, dir, idx) ELSE ext2_readdir(d, dir, idx)
Read(d, ino, off, len) == IF ext4 THEN ext4_read(d, ino, off, len) ELSE ext2_read(d, ino, off, len)
Write(s, ino, off, buf) ==
  IF ~s.ok THEN s
  ELSE IF ext4 THEN ext4_write(s, ino, off, buf) ELSE ext2_write(s, ino, off, buf)
Create(s, dir, name, isdir) ==
  IF ext4 THEN ext4_create_like(s, dir, name, isdir) ELSE ext2_create_like(s, dir, name, isdir)
Unlink(s, dir, name) == IF ext4 THEN ext4_unlink(s, dir, name) ELSE ext2_unlink(s, dir, name)
Setattr(s, ino, a) == IF ext4 THEN ext4_setattr(s, ino, a) ELSE ext2_setattr(s, ino, a)
RootOk(d) == IF ext4 THEN ext4_root_ok(d) ELSE ext2_root_ok(d)

-----------------------------------------------------------------------------
(* vfs.c: a path is the sequence of its components below the mount *)

RECURSIVE Walk(_, _, _)
Walk(d, ino, path) ==
  IF path = <<>> \/ ino = 0 THEN ino
  ELSE Walk(d, Lookup(d, ino, Head(path)), Tail(path))

\* vfs_resolve below the mount point
Resolve(d, path) == Walk(d, RootIno, path)

vfs_read_file(d, path) == Read(d, Resolve(d, path), 0, NPtr * BS)

vfs_write_file(s, path, buf) ==
  LET Made(parent) == IF parent = 0 THEN Fail(s) ELSE Create(s, parent, Last(path), FALSE)
      Found(ino) == IF ino # 0 THEN [s EXCEPT !.r = ino] ELSE Made(Resolve(s.d, Front(path)))
      Written(c) == Then(c, Write(c, c.r, 0, buf))
  IN Written(Found(Resolve(s.d, path)))

vfs_mkdir(s, path) ==
  LET In(parent) == IF parent = 0 THEN Fail(s) ELSE Create(s, parent, Last(path), TRUE)
  IN In(Resolve(s.d, Front(path)))

vfs_unlink(s, path) ==
  LET From(parent) == IF parent = 0 THEN Fail(s) ELSE Unlink(s, parent, Last(path))
  IN Then(s, From(Resolve(s.d, Front(path))))

IsKind(d, ino, kind) == ino # 0 /\ d.ino[ino].kind = kind
IsDir(d, path) == IsKind(d, Resolve(d, path), "dir")
IsFile(d, path) == IsKind(d, Resolve(d, path), "file")

-----------------------------------------------------------------------------
(* The promises: g is [want, tree] *)

Ghost == [want |-> want, tree |-> tree]
Promised(g, dir, name) == {e \in g.tree : e[1] = dir /\ e[2] = name}

GName(g, dir, name, ino, bytes) ==
  [want |-> [g.want EXCEPT ![ino] = bytes], tree |-> g.tree \cup {<<dir, name, ino>>}]
GUnlink(g, dir, name) == [g EXCEPT !.tree = @ \ Promised(g, dir, name)]
GWrite(g, ino, off, buf, n) ==
  LET old == g.want[ino]
      size == IF off + n > Len(old) THEN off + n ELSE Len(old)
      cell(i) == IF i > off /\ i <= off + n THEN buf[i - off]
                 ELSE IF i <= Len(old) THEN old[i] ELSE 0
  IN [g EXCEPT !.want[ino] = [i \in 1..size |-> cell(i)]]

\* No promise about path and inode set inos any more: take them as they are on d.
Resync(g, d, path, inos) ==
  LET As(dir, ino) ==
        [tree |-> (g.tree \ Promised(g, dir, Last(path)))
                  \cup (IF ino = 0 THEN {} ELSE {<<dir, Last(path), ino>>}),
         want |-> [i \in Inos |-> IF i \in inos \cup {ino} /\ d.ino[i].kind = "file"
                                  THEN Read(d, i, 0, NPtr * BS) ELSE g.want[i]]]
      In(dir) == As(dir, IF dir = 0 THEN 0 ELSE Lookup(d, dir, Last(path)))
  IN In(Resolve(d, Front(path)))

\* What a write_file of buf to path promises when it returned n.
GWriteFile(g, d0, s, path, buf, n) ==
  LET Fresh(ino) ==
        IF ino = 0 THEN g
        ELSE GWrite(GName(g, Resolve(d0, Front(path)), Last(path), ino, <<>>), ino, 0, buf, n)
      Over(old) == IF old # 0 THEN GWrite(g, old, 0, buf, n) ELSE Fresh(Resolve(s.d, path))
  IN Over(Resolve(d0, path))

-----------------------------------------------------------------------------
(* A call ends by returning, or by the power failing at one of its writes,  *)
(* after which the kernel mounts what is on the disk.                       *)

Reboot(d) ==
  /\ disk' = d
  /\ mem' = Memory(d)
  /\ fds' = [h \in Handles |-> Closed]
  /\ last' = Nothing
  /\ crashed' = TRUE

Return(s, f, g, l) ==
  /\ disk' = s.d
  /\ mem' = s.m
  /\ fds' = f
  /\ want' = g.want
  /\ tree' = g.tree
  /\ last' = l
  /\ UNCHANGED crashed

PowerFails(s, paths, inos) ==
  /\ load.crash = "any"
  /\ ~crashed
  /\ \E d \in s.hist :
       /\ Reboot(d)
       /\ \E g \in {FoldLeft(LAMBDA a, p : Resync(a, d, p, inos \ {0}), Ghost, paths)} :
            want' = g.want /\ tree' = g.tree

\* c names the call.
Calls(c) ==
  /\ c \in load.calls
  /\ ops < load.ops
  /\ ops' = ops + 1
  /\ UNCHANGED load

\* k is the number of the write that fails in a call that ends in s (0: none).
Fault(k, s) ==
  /\ k > 0 => s.fuse = 0
  /\ faulted' = (faulted \/ k > 0)
NoFault(c) == Calls(c) /\ UNCHANGED faulted

Faults == IF load.fault /\ ~faulted THEN 0..6 ELSE {0}

-----------------------------------------------------------------------------
(* open, read, write, lseek, close on a descriptor *)

\* do_sys_openat on a file: O_CREAT, O_TRUNC and O_APPEND.
OpenFlags == [creat : {TRUE}, trunc : {FALSE}, app : BOOLEAN]
             \cup [creat : {FALSE}, trunc : BOOLEAN, app : {FALSE}]
Open(h, path, f, k) ==
  /\ Calls("open")
  /\ fds[h] = Closed
  /\ \E ino0 \in {Resolve(disk, path)} :
     /\ IF ino0 = 0 THEN f.creat ELSE disk.ino[ino0].kind = "file"
     /\ \E s1 \in {IF ino0 = 0 THEN vfs_write_file(Start(disk, mem, k), path, <<>>)
                    ELSE Start(disk, mem, k)} :
        \E s2 \in {IF f.trunc THEN vfs_write_file(Recover(s1), path, <<>>) ELSE s1},
           ino \in {Resolve(s1.d, path)} :
        LET size == IF f.trunc THEN 0 ELSE s2.d.ino[ino].size IN
        /\ Fault(k, s2)
        /\ \/ IF s1.ok /\ ino # 0
              THEN Return(s2, [fds EXCEPT ![h] = [ino |-> ino, size |-> size, app |-> f.app, path |-> path,
                                                  pos |-> IF f.app THEN size ELSE 0]],
                          IF ino0 = 0 THEN GWriteFile(Ghost, disk, s1, path, <<>>, 0) ELSE Ghost, Nothing)
              ELSE Return(s1, fds, Resync(Ghost, s1.d, path, {}), Nothing)
           \/ PowerFails(s2, <<path>>, {ino0})

\* do_sys_fd_write on a file.
FdWrite(h, buf, k) ==
  LET f == fds[h]
      pos == IF f.app THEN f.size ELSE f.pos
  IN /\ Calls("write")
     /\ f # Closed
     /\ pos + Len(buf) <= load.max
     /\ \E s \in {Write(Start(disk, mem, k), f.ino, pos, buf)} :
        /\ Fault(k, s)
        /\ \/ IF s.ok
              THEN Return(s, [fds EXCEPT ![h].pos = pos + s.r, ![h].size = s.d.ino[f.ino].size],
                          GWrite(Ghost, f.ino, pos, buf, s.r), Nothing)
              ELSE Return(s, [fds EXCEPT ![h].pos = pos],
                          [Ghost EXCEPT !.want[f.ino] = Read(s.d, f.ino, 0, NPtr * BS)], Nothing)
           \/ PowerFails(s, <<f.path>>, {f.ino})

\* do_sys_fd_read on a file: len bytes from the position.
FdRead(h, len) ==
  /\ NoFault("read")
  /\ fds[h] # Closed
  /\ \E n \in {Len(Read(disk, fds[h].ino, fds[h].pos, len))} :
       n > 0 /\ fds' = [fds EXCEPT ![h].pos = @ + n]
  /\ UNCHANGED <<disk, mem, want, tree, crashed, last>>

\* do_sys_lseek from the start, the position or the end the descriptor knows.
Seeked(h, whence, off) ==
  off + CASE whence = "set" -> 0
          [] whence = "cur" -> fds[h].pos
          [] OTHER -> fds[h].size
Lseek(h, whence, off) ==
  /\ NoFault("lseek")
  /\ fds[h] # Closed
  /\ Seeked(h, whence, off) >= 0
  /\ fds[h].pos # Seeked(h, whence, off)
  /\ fds' = [fds EXCEPT ![h].pos = Seeked(h, whence, off)]
  /\ UNCHANGED <<disk, mem, want, tree, crashed, last>>

\* do_sys_close
Close(h) ==
  /\ NoFault("close")
  /\ fds[h] # Closed
  /\ fds' = [fds EXCEPT ![h] = Closed]
  /\ UNCHANGED <<disk, mem, want, tree, crashed, last>>

-----------------------------------------------------------------------------
(* Calls on paths *)

\* do_sys_writefile: write at offset 0, creating the file.
Writefile(path, buf, k) ==
  /\ Calls("writefile")
  /\ \E ino \in {Resolve(disk, path)}, s \in {vfs_write_file(Start(disk, mem, k), path, buf)} :
     /\ ~IsKind(disk, ino, "dir")
     /\ Fault(k, s)
     /\ \/ Return(s, fds,
             IF s.ok THEN GWriteFile(Ghost, disk, s, path, buf, s.r)
             ELSE Resync(Ghost, s.d, path, {ino} \ {0}), Nothing)
        \/ PowerFails(s, <<path>>, {ino})

\* do_sys_mkdir
Mkdir(path, k) ==
  /\ Calls("mkdir")
  /\ Resolve(disk, path) = 0
  /\ \E s \in {vfs_mkdir(Start(disk, mem, k), path)} :
     /\ Fault(k, s)
     /\ \/ Return(s, fds,
             IF s.ok THEN GName(Ghost, Resolve(disk, Front(path)), Last(path), s.r, NoFile)
             ELSE Resync(Ghost, s.d, path, {}), Nothing)
        \/ PowerFails(s, <<path>>, {})

\* do_sys_unlink of a file
SysUnlink(path, k) ==
  /\ Calls("unlink")
  /\ IsFile(disk, path)
  /\ \E s \in {vfs_unlink(Start(disk, mem, k), path)} :
     /\ Fault(k, s)
     /\ \/ Return(s, fds,
             IF s.ok THEN GUnlink(Ghost, Resolve(disk, Front(path)), Last(path)) ELSE Ghost,
             Nothing)
        \/ PowerFails(s, <<path>>, {})

RmdirAny(path, k) ==
  /\ Calls("rmdir")
  /\ IsDir(disk, path)
  /\ \E s \in {vfs_unlink(Start(disk, mem, k), path)} :
     /\ Fault(k, s)
     /\ \/ Return(s, fds,
             IF s.ok THEN GUnlink(Ghost, Resolve(disk, Front(path)), Last(path)) ELSE Ghost,
             Nothing)
        \/ PowerFails(s, <<path>>, {})

\* do_sys_rmdir: only "." and ".." may be listed.
Rmdir(path, k) ==
  LET child(ino, i) == Readdir(disk, ino, i)
      listed(ino) == {i \in 0..NI : \A j \in 0..i : child(ino, j) # <<>>}
      empty(ino) == \A i \in listed(ino) : child(ino, i)[1].name \in {".", ".."}
  IN
  /\ Calls("rmdir")
  /\ IsDir(disk, path)
  /\ empty(Resolve(disk, path))
  /\ \E s \in {vfs_unlink(Start(disk, mem, k), path)} :
     /\ Fault(k, s)
     /\ \/ Return(s, fds,
             IF s.ok THEN GUnlink(Ghost, Resolve(disk, Front(path)), Last(path)) ELSE Ghost,
             Nothing)
        \/ PowerFails(s, <<path>>, {})

\* do_sys_rename, do_sys_renameat, do_sys_mv: copy the bytes, then unlink the
\* old name.  An existing target is written over from byte 0, not cut.
Rename(old, new, k) ==
  /\ Calls("rename")
  /\ IsFile(disk, old)
  /\ \E bytes \in {vfs_read_file(disk, old)}, all \in {want[Resolve(disk, old)]},
        ino \in {Resolve(disk, new)} :
     \E s1 \in {vfs_write_file(Start(disk, mem, k), new, bytes)} :
     \E s2 \in {vfs_unlink(s1, old)},
        g1 \in {GWriteFile(Ghost, disk, s1, new, bytes, s1.r)} :
     /\ ~IsKind(disk, ino, "dir")
     /\ Fault(k, s2)
     /\ \/ Return(s2, fds,
             IF s2.ok THEN GUnlink(g1, Resolve(disk, Front(old)), Last(old))
             ELSE IF s1.ok THEN g1 ELSE Resync(Ghost, s1.d, new, {ino} \ {0}),
             [op |-> "rename", ino |-> Resolve(s2.d, new), bytes |-> all,
              moved |-> s2.ok /\ old # new /\ s1.r = Len(bytes)
                        /\ (ino # 0 => disk.ino[ino].size <= Len(all))])
        \/ PowerFails(s2, <<new, old>>, {ino})

\* do_sys_linkat: a copy under a new name.
Linkat(old, new, k) ==
  /\ Calls("link")
  /\ IsFile(disk, old)
  /\ Resolve(disk, new) = 0
  /\ \E bytes \in {vfs_read_file(disk, old)} :
     \E s \in {vfs_write_file(Start(disk, mem, k), new, bytes)} :
     /\ Fault(k, s)
     /\ \/ Return(s, fds,
             IF s.ok THEN GWriteFile(Ghost, disk, s, new, bytes, s.r)
             ELSE Resync(Ghost, s.d, new, {}), Nothing)
        \/ PowerFails(s, <<new>>, {})

\* truncate_vfs_path_to_len: read the file, pad to len, write it back from
\* byte 0; the size never shrinks.
truncate_vfs_path_to_len(s, path, len) ==
  LET Padded(old) == [i \in 1..len |-> IF i <= Len(old) THEN old[i] ELSE 0]
      Written(bytes) == [s |-> vfs_write_file(s, path, bytes), bytes |-> bytes]
  IN Written(Padded(vfs_read_file(s.d, path)))

\* do_sys_truncate
Truncate(path, len, k) ==
  /\ Calls("truncate")
  /\ IsFile(disk, path)
  /\ \E t \in {truncate_vfs_path_to_len(Start(disk, mem, k), path, len)}, ino \in {Resolve(disk, path)} :
     /\ Fault(k, t.s)
     /\ \/ Return(t.s, fds, IF t.s.ok THEN GWrite(Ghost, ino, 0, t.bytes, t.s.r)
                            ELSE Resync(Ghost, t.s.d, path, {ino}), Nothing)
        \/ PowerFails(t.s, <<path>>, {ino})

\* do_sys_ftruncate, and do_sys_fallocate when the range ends beyond the size
\* the descriptor remembers: the file now found under the descriptor's path.
Ftruncate(h, len, k) ==
  LET path == fds[h].path
  IN /\ Calls("ftruncate")
     /\ fds[h] # Closed
     /\ IsFile(disk, path)
     /\ \E t \in {truncate_vfs_path_to_len(Start(disk, mem, k), path, len)}, ino \in {Resolve(disk, path)} :
        /\ Fault(k, t.s)
        /\ \/ Return(t.s, IF t.s.ok THEN [fds EXCEPT ![h].pos = Min({@, len})] ELSE fds,
                      IF t.s.ok THEN GWrite(Ghost, ino, 0, t.bytes, t.s.r)
                      ELSE Resync(Ghost, t.s.d, path, {ino}), Nothing)
           \/ PowerFails(t.s, <<path>>, {ino})

\* do_sys_sendfile, do_sys_copy_file_range, do_sys_splice without an offset:
\* bytes read from one descriptor are written to the other.
Sendfile(from, to, len, k) ==
  LET f == fds[to]
      pos == IF f.app THEN f.size ELSE f.pos
  IN /\ Calls("sendfile")
     /\ fds[from] # Closed /\ f # Closed /\ from # to
     /\ \E bytes \in {Read(disk, fds[from].ino, fds[from].pos, len)} :
        \E s \in {Write(Start(disk, mem, k), f.ino, pos, bytes)},
           moved \in {[fds EXCEPT ![from].pos = @ + Len(bytes)]} :
        /\ bytes # <<>>
        /\ pos + Len(bytes) <= load.max
        /\ Fault(k, s)
        /\ \/ IF s.ok
              THEN Return(s, [moved EXCEPT ![to].pos = pos + s.r, ![to].size = s.d.ino[f.ino].size],
                          GWrite(Ghost, f.ino, pos, bytes, s.r), Nothing)
              ELSE Return(s, [moved EXCEPT ![to].pos = pos],
                          [Ghost EXCEPT !.want[f.ino] = Read(s.d, f.ino, 0, NPtr * BS)], Nothing)
           \/ PowerFails(s, <<f.path>>, {f.ino})

\* do_sys_chmod, vfs_chmod
Chmod(path, k) ==
  /\ Calls("chmod")
  /\ \E ino \in {Resolve(disk, path)} :
     /\ ino # 0
     /\ disk.ino[ino].attr = 0
     /\ \E s \in {Setattr(Start(disk, mem, k), ino, 1)} :
        /\ Fault(k, s)
        /\ \/ Return(s, fds, Ghost, Nothing)
           \/ PowerFails(s, <<path>>, {})

\* The power fails while no call is running.
Restart ==
  /\ load.crash = "idle"
  /\ ~crashed
  /\ Reboot(disk)
  /\ UNCHANGED <<load, want, tree, ops, faulted>>

-----------------------------------------------------------------------------
\* The image mkrootfs.py leaves: a block of metadata, the root directory with
\* /sbin and /sbin/init.  In image "deep" the extents of init do not fit in the
\* inode; in "legacy" no inode has extents.
Image(l) ==
  LET f == l.fdb
      e4 == l.fs = "ext4" /\ l.image # "legacy"
      Ino(kind, size, first, n) ==
        [FreeInode EXCEPT !.kind = kind, !.size = size, !.fl = e4, !.deep = l.image = "deep",
           !.ext = IF e4 THEN <<[l |-> 0, n |-> n, p |-> first]>> ELSE <<>>,
           !.ptr = [i \in 0..NPtr-1 |-> IF ~e4 /\ i < n THEN first + i ELSE 0]]
      dots == Dots(2, 2).e
      inos == 0..3
  IN [fdb |-> f,
      bit |-> [w \in {"b", "i"} |-> IF w = "b" THEN {b - f : b \in f..(f + 4)} \cup (NB-f)..(NB-1)
                                    ELSE inos],
      free |-> [w \in {"b", "i"} |-> IF w = "b" THEN NB - 5 - f ELSE NI - Cardinality(inos)],
      ino |-> [i \in Inos |-> CASE i = 2 -> [Ino("dir", BS, f + 1, 1) EXCEPT !.deep = FALSE]
                                [] i = 3 -> [Ino("dir", BS, f + 2, 1) EXCEPT !.deep = FALSE]
                                [] i = 4 -> Ino("file", BS + 1, f + 3, 2)
                                [] OTHER -> FreeInode],
      blk |-> [b \in Blocks |->
                CASE b = f + 1 -> DirBlock(dots \o <<[ino |-> 3, name |-> "sbin"]>>)
                  [] b = f + 2 -> DirBlock(Dots(3, 2).e \o <<[ino |-> 4, name |-> "init"]>>)
                  [] b = f + 3 -> DataBlock([i \in 1..BS |-> 7])
                  [] b = f + 4 -> DataBlock([i \in 1..BS |-> IF i = 1 THEN 7 ELSE 0])
                  [] OTHER -> DataBlock(Zeroes)]]

FilesInit ==
  /\ load \in Loads
  /\ disk = Image(load)
  /\ RootOk(disk)
  /\ mem = Memory(disk)
  /\ fds = [h \in Handles |-> Closed]
  /\ want = [i \in Inos |-> IF i = 4 THEN [k \in 1..(BS + 1) |-> 7] ELSE NoFile]
  /\ tree = {<<2, "sbin", 3>>, <<3, "init", 4>>}
  /\ ops = 0
  /\ faulted = FALSE
  /\ crashed = FALSE
  /\ last = Nothing

\* Paths are used where their parent is a directory: the code does not refuse
\* to create a name under a regular file, and spoils the file when asked to.
Places == {p \in load.paths : Resolve(disk, Front(p)) = 0 \/ IsDir(disk, Front(p))}

FilesNext ==
  \/ \E h \in Handles, p \in Places, f \in OpenFlags, k \in Faults : Open(h, p, f, k)
  \/ \E h \in Handles, buf \in load.bufs, k \in Faults : FdWrite(h, buf, k)
  \/ \E h \in Handles, k \in Faults :
       \/ \E len \in {1, load.max} : Ftruncate(h, len, k)
       \/ \E to \in Handles : Sendfile(h, to, BS, k)
  \/ \E h \in Handles, w \in {"set", "cur", "end"}, off \in {0, -1} : Lseek(h, w, off)
  \/ \E h \in Handles : FdRead(h, BS) \/ Close(h)
  \/ \E p \in Places, k \in Faults :
       \/ \E buf \in load.bufs : Writefile(p, buf, k)
       \/ Mkdir(p, k)
       \/ SysUnlink(p, k)
       \/ Rmdir(p, k)
       \/ \E len \in {1, load.max} : Truncate(p, len, k)
       \/ Chmod(p, k)
       \/ \E q \in Places : Rename(p, q, k) \/ Linkat(p, q, k)
  \/ Restart

-----------------------------------------------------------------------------
(* Properties *)

\* Directories that can be reached from the root, and the entries they show.
RECURSIVE Below(_, _)
Below(d, dirs) ==
  LET more == dirs \cup {e.ino : e \in UNION {ToSet(Entries(d, i)) : i \in dirs}}
      next == {i \in more : d.ino[i].kind = "dir"}
  IN IF next = dirs THEN dirs ELSE Below(d, next)
Dirs == Below(disk, {RootIno})
RealEntries(i) == SelectSeq(Entries(disk, i), LAMBDA e : e.name \notin {".", ".."})

\* Inodes somebody can still get at: named ones, the root, and open ones.
InUse == {RootIno} \cup {e.ino : e \in UNION {ToSet(RealEntries(i)) : i \in Dirs}}
         \cup ({fds[h].ino : h \in Handles} \ {0})
BlocksOf(i) ==
  SelectSeq([l \in 1..NPtr |-> IF ext4 THEN map_find_phys(disk.ino[i], l - 1)
                               ELSE legacy_find_phys(disk.ino[i], l - 1)], LAMBDA b : b # NoBlk)
Bits(w) == IF ext4 /\ mem.cb = w THEN mem.bm ELSE disk.bit[w]

\* ext4.c and ext2.c alloc_from_bitmap: no block belongs to two places of the
\* files and directories in use, and every block in use is marked in the
\* bitmap the next allocation will read.  ext2 keeps this through a power
\* failure at any write; ext4 through one between calls.
NoBlockShared ==
  LET own == [i \in InUse |-> ToSet(BlocksOf(i))]
  IN /\ \A i \in InUse : Cardinality(own[i]) = Len(BlocksOf(i))
     /\ \A i, j \in InUse : i # j => own[i] \cap own[j] = {}
     /\ \A i \in InUse : \A b \in own[i] : BitOf(disk, b) \in Bits("b")


\* Every name completed calls made, and no other, is found from the root, and
\* leads to the inode it was made for (ext4_lookup, dir_insert, ext4_unlink);
\* rmdir takes no directory away that still has names in it.  No inode has two
\* names, and every named inode is marked in the bitmap (ext4_create_like).
NamesKept ==
  /\ \A e \in tree : e[1] \in Dirs
  /\ \A i \in Dirs, n \in Names :
       {e[3] : e \in Promised(Ghost, i, n)} = ({Lookup(disk, i, n)} \ {0})
  /\ \A i, j \in Dirs : \A x \in DOMAIN RealEntries(i), y \in DOMAIN RealEntries(j) :
       LET e == RealEntries(i)[x] IN
       /\ (e.ino - 1) \in Bits("i")
       /\ e.ino = RealEntries(j)[y].ino => i = j /\ x = y

=============================================================================
