-------------------------------- MODULE Ext2 --------------------------------
(***************************************************************************)
(* fs/ext2/ext2.c.  No cache: an allocation writes the bitmap and the      *)
(* superblock before the block or inode it gives out is used.  Memory m is *)
(* the superblock's free counters.                                         *)
(***************************************************************************)
EXTENDS ExtDisk

ext2_memory(d) == [free |-> d.free]

ext2_sync_super_bg(s) == Put(s, [s.d EXCEPT !.free = s.m.free])

\* First fit from bit 0.  A failing bitmap write leaves the counters alone.
ext2_alloc_from_bitmap(s, w) ==
  LET free == (0..(IF w = "b" THEN NB ELSE NI)-1) \ s.d.bit[w]
      i == Min(free)
      Marked(t) == Put(t, [t.d EXCEPT !.bit[w] = @ \cup {i}])
      Counted(p) == Then(p, ext2_sync_super_bg([p EXCEPT !.m.free[w] = IF @ > 0 THEN @ - 1 ELSE 0]))
      Given(z) == Then(z, [z EXCEPT !.r = IF w = "i" THEN i + 1 ELSE i])
  IN Then(s, IF free = {} THEN Fail(s) ELSE Given(Counted(Marked(s))))

\* A directory scan visits the direct pointers that are set.
ext2_dir_blocks(in) ==
  SelectSeq([k \in 1..NDirect |-> in.ptr[k - 1]], LAMBDA b : b # 0)

ext2_lookup(d, dir, name) == FindName(d, ext2_dir_blocks(d.ino[dir]), name)
ext2_readdir(d, dir, idx) == EntryAt(d, ext2_dir_blocks(d.ino[dir]), idx)
ext2_unlink(s, dir, name) == ClearName(s, ext2_dir_blocks(s.d.ino[dir]), name)

\* A read ends early at the first block that is not mapped.
ext2_read(d, ino, off, len) ==
  LET in == d.ino[ino]
      n == IF off >= in.size THEN 0 ELSE Min({len, in.size - off})
      hole(pos) == LET l == pos \div BS IN l >= NPtr \/ in.ptr[l] = 0
      stops == {i \in 1..n : hole(off + i - 1)}
  IN [i \in 1..(IF stops = {} THEN n ELSE Min(stops) - 1) |->
        d.blk[in.ptr[(off + i - 1) \div BS]].c[((off + i - 1) % BS) + 1]]

\* Writes reach the direct pointers only; a new block is zeroed on disk first.
RECURSIVE ext2_write_loop(_, _, _, _)
ext2_write_loop(s, off, buf, done) ==
  LET l == (off + done) \div BS
      bo == (off + done) % BS
      n == Min({BS - bo, Len(buf) - done})
      Fresh(a) == Then(a, write_block([a EXCEPT !.in.ptr[l] = a.r], a.r, DataBlock(Zeroes)))
      Mapped(t) == IF t.in.ptr[l] # 0 THEN t ELSE Fresh(ext2_alloc_from_bitmap(t, "b"))
      Into(c, b) ==
        write_block(c, b, DataBlock(Overlay(c.d.blk[b].c, bo, SubSeq(buf, done + 1, done + n))))
      Written(c) == Then(c, Into(c, c.in.ptr[l]))
      Go(w) == IF w.ok THEN ext2_write_loop(w, off, buf, done + n) ELSE [w EXCEPT !.ok = TRUE, !.r = done]
  IN IF done >= Len(buf) \/ l >= NDirect THEN [s EXCEPT !.r = done] ELSE Go(Written(Mapped(s)))

ext2_write(s, ino, off, buf) ==
  LET Sized(a) == [a EXCEPT !.in.size = Max({@, off + a.r})]
      Returned(z, n) == Then(z, [z EXCEPT !.r = n])
      Saved(g) == Returned(write_inode(g, ino, g.in), g.r)
  IN Saved(Sized(ext2_write_loop([s EXCEPT !.in = s.d.ino[ino]], off, buf, 0)))

\* Reuse a cleared entry, or take the first unset direct pointer for a block
\* that holds this one entry.
ext2_insert_dirent(s, dir, ino, name) ==
  LET unset == {l \in 0..NDirect-1 : s.in.ptr[l] = 0}
      Added(a) == [a EXCEPT !.in.ptr[Min(unset)] = a.r, !.in.size = @ + BS]
      Grown(a) == Then(a, write_block(Added(a), a.r, DirBlock(<<[ino |-> ino, name |-> name]>>)))
      Entered(free) == IF free # <<>> THEN FillSlot(s, free[1], ino, name)
                       ELSE IF unset = {} THEN Fail(s) ELSE Grown(ext2_alloc_from_bitmap(s, "b"))
      Saved(f) == write_inode(f, dir, f.in)
  IN Then(s, Saved(Entered(FreeSlots(s.d, ext2_dir_blocks(s.in)))))

ext2_create_like(s, dir, name, isdir) ==
  LET empty == [FreeInode EXCEPT !.kind = IF isdir THEN "dir" ELSE "file"]
      Dotted(b, ino) ==
        write_inode(write_block(b, b.r, Dots(ino, dir)), ino, [empty EXCEPT !.ptr[0] = b.r, !.size = BS])
      Made(a) == IF isdir THEN Dotted(ext2_alloc_from_bitmap(a, "b"), a.r) ELSE write_inode(a, a.r, empty)
      Entered(w, ino) == ext2_insert_dirent([w EXCEPT !.in = s.d.ino[dir]], dir, ino, name)
      Saved(i) == write_inode(i, dir, i.in)
      Given(j, ino) == Then(j, [j EXCEPT !.r = ino])
      New(a) == Then(a, Given(Saved(Entered(Made(a), a.r)), a.r))
  IN IF ext2_lookup(s.d, dir, name) # 0 THEN Fail(s) ELSE New(ext2_alloc_from_bitmap(s, "i"))

ext2_setattr(s, ino, attr) == write_inode(s, ino, [s.d.ino[ino] EXCEPT !.attr = attr])

ext2_root_ok(d) ==
  LET Kind(ino, kind) == ino # 0 /\ d.ino[ino].kind = kind
      HasInit(sbin) == Kind(sbin, "dir") /\ Kind(ext2_lookup(d, sbin, "init"), "file")
  IN Kind(RootIno, "dir") /\ HasInit(ext2_lookup(d, RootIno, "sbin"))
=============================================================================
