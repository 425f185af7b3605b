-------------------------------- MODULE Ext4 --------------------------------
(***************************************************************************)
(* fs/ext4/ext4.c: the bitmap cache, extent and legacy block maps, reads,  *)
(* writes, directories and mounting.  Memory m of a mount:                 *)
(*   cb     which bitmap the one-block cache holds: "none", "b" or "i"     *)
(*   bm     its bits, dirty whether they differ from the disk              *)
(*   hint   where the next search of each bitmap begins                    *)
(*   free   the superblock's free counters, meta whether they are dirty    *)
(***************************************************************************)
EXTENDS ExtDisk

ext4_memory(d) == [cb |-> "none", bm |-> {}, dirty |-> FALSE,
                   hint |-> [w \in {"b", "i"} |-> 0], free |-> d.free, meta |-> FALSE]

bitmap_cache_flush(s) ==
  LET Clean(p) == Then(p, [p EXCEPT !.m.dirty = FALSE])
  IN IF ~s.ok \/ s.m.cb = "none" \/ ~s.m.dirty THEN s
     ELSE Clean(Put(s, [s.d EXCEPT !.bit[s.m.cb] = s.m.bm]))

bitmap_cache_load(s, w) ==
  LET Load(f) == Then(f, [f EXCEPT !.m.cb = w, !.m.bm = f.d.bit[w], !.m.dirty = FALSE])
  IN IF s.m.cb = w THEN s ELSE Load(bitmap_cache_flush(s))

SyncCounters(f) ==
  LET Clean(p) == Then(p, [p EXCEPT !.m.meta = FALSE])
  IN IF ~f.ok \/ ~f.m.meta THEN f ELSE Clean(Put(f, [f.d EXCEPT !.free = f.m.free]))
SyncCountersOnly(s) == SyncCounters(s)
\* The superblock and the group descriptor carry the same counters.
ext4_sync_if_dirty(s) == SyncCounters(bitmap_cache_flush(s))

\* The number of the first clear bit from the hint on; inode i has bit i - 1,
\* and a block is taken to have the number of its bit.
ext4_alloc_from_bitmap(s, w) ==
  LET max == IF w = "b" THEN NB ELSE NI
      From(l) == IF l.m.hint[w] < max THEN l.m.hint[w] ELSE 0
      Free(l, start) == {n \in 0..max-1 : ((start + n) % max) \notin l.m.bm}
      Take(l, i) == [l EXCEPT !.m.bm = @ \cup {i}, !.m.dirty = TRUE, !.m.meta = TRUE,
                              !.m.hint[w] = (i + 1) % max,
                              !.m.free[w] = IF @ > 0 THEN @ - 1 ELSE 0,
                              !.r = IF w = "i" THEN i + 1 ELSE i]
      Pick(l, start, free) == IF free = {} THEN Fail(l) ELSE Take(l, (start + Min(free)) % max)
      Loaded(l) == Then(l, Pick(l, From(l), Free(l, From(l))))
  IN Then(s, Loaded(bitmap_cache_load(s, w)))

-----------------------------------------------------------------------------
(* Block maps *)

extent_find_phys(in, l) ==
  LET hit == {i \in DOMAIN in.ext : l >= in.ext[i].l /\ l < in.ext[i].l + in.ext[i].n}
  IN IF hit = {} THEN NoBlk
     ELSE LET x == in.ext[Min(hit)] IN x.p + (l - x.l)

legacy_find_phys(in, l) ==
  IF l >= NPtr THEN NoBlk ELSE IF in.ptr[l] = 0 THEN NoBlk ELSE in.ptr[l]

map_find_phys(in, l) == IF in.fl THEN extent_find_phys(in, l) ELSE legacy_find_phys(in, l)

extent_init_inode(in) ==
  [in EXCEPT !.fl = TRUE, !.deep = FALSE, !.ext = <<>>, !.ptr = FreeInode.ptr]

\* Lengthen the extent l and p continue, or add one; a deep tree or a full
\* inode refuses.
extent_map_insert_local(s, l, p) ==
  LET ext == s.in.ext
      grow == {i \in DOMAIN ext : l = ext[i].l + ext[i].n /\ p = ext[i].p + ext[i].n}
  IN IF s.in.deep THEN Fail(s)
     ELSE IF grow # {} THEN [s EXCEPT !.in.ext[Min(grow)].n = @ + 1]
     ELSE IF Len(ext) >= ExtMax THEN Fail(s)
     ELSE [s EXCEPT !.in.ext = Append(@, [l |-> l, n |-> 1, p |-> p])]

\* The block is taken from the bitmap before the extent is known to fit.
extent_map_create(s, l) ==
  LET Insert(a) == Then(a, extent_map_insert_local(a, l, a.r))
      Found(p) == IF p # NoBlk THEN [s EXCEPT !.r = p] ELSE Insert(ext4_alloc_from_bitmap(s, "b"))
  IN Then(s, Found(extent_find_phys(s.in, l)))

\* Only a directory of an image without extents comes here (ext4_write gives
\* files an extent tree); the model's directories stay within the direct
\* pointers, so the indirect block is not created.
legacy_map_create(s, l) ==
  LET Insert(a) == Then(a, IF l >= NDirect THEN Fail(a) ELSE [a EXCEPT !.in.ptr[l] = a.r])
      Found(p) == IF p # NoBlk THEN [s EXCEPT !.r = p] ELSE Insert(ext4_alloc_from_bitmap(s, "b"))
  IN Then(s, Found(legacy_find_phys(s.in, l)))

map_create_phys(s, l) == IF s.in.fl THEN extent_map_create(s, l) ELSE legacy_map_create(s, l)

-----------------------------------------------------------------------------
(* Directories: readers walk the blocks of the directory's size. *)

ext4_dir_blocks(in) ==
  SelectSeq([k \in 1..((in.size + BS - 1) \div BS) |-> map_find_phys(in, k - 1)],
            LAMBDA b : b # NoBlk)

ext4_lookup(d, dir, name) == FindName(d, ext4_dir_blocks(d.ino[dir]), name)
ext4_readdir(d, dir, idx) == EntryAt(d, ext4_dir_blocks(d.ino[dir]), idx)
ext4_unlink(s, dir, name) == ClearName(s, ext4_dir_blocks(s.d.ino[dir]), name)

\* Reuse a cleared entry, or add a block that holds this one entry.  s.in is
\* the directory's inode.
dir_insert(s, dir, ino, name) ==
  LET nblk == (s.in.size + BS - 1) \div BS
      Sized(w) == Then(w, [w EXCEPT !.in.size = @ + BS])
      Grown(c) == Sized(write_block(c, c.r, DirBlock(<<[ino |-> ino, name |-> name]>>)))
      Entered(free) == IF free # <<>> THEN FillSlot(s, free[1], ino, name) ELSE Grown(map_create_phys(s, nblk))
      Saved(f) == write_inode(f, dir, f.in)
  IN Then(s, Saved(Entered(FreeSlots(s.d, ext4_dir_blocks(s.in)))))

ext4_create_like(s, dir, name, isdir) ==
  LET empty == [extent_init_inode(FreeInode) EXCEPT !.kind = IF isdir THEN "dir" ELSE "file"]
      Dotted(b, ino) ==
        write_inode(write_block(b, b.r, Dots(ino, dir)), ino,
                    [empty EXCEPT !.ext = <<[l |-> 0, n |-> 1, p |-> b.r]>>, !.size = BS])
      Made(a) == IF isdir THEN Dotted(ext4_alloc_from_bitmap(a, "b"), a.r) ELSE write_inode(a, a.r, empty)
      Entered(w, ino) == dir_insert([w EXCEPT !.in = s.d.ino[dir]], dir, ino, name)
      Saved(i) == IF isdir THEN write_inode(i, dir, i.in) ELSE i
      Given(z, ino) == Then(z, [z EXCEPT !.r = ino])
      New(a) == Then(a, Given(ext4_sync_if_dirty(Saved(Entered(Made(a), a.r))), a.r))
  IN IF ext4_lookup(s.d, dir, name) # 0 THEN Fail(s) ELSE New(ext4_alloc_from_bitmap(s, "i"))

-----------------------------------------------------------------------------
(* File contents *)

\* Holes read as zeroes.
ext4_read(d, ino, off, len) ==
  LET in == d.ino[ino]
      n == IF off >= in.size THEN 0 ELSE Min({len, in.size - off})
      cell(pos) == LET b == map_find_phys(in, pos \div BS)
                   IN IF b = NoBlk THEN 0 ELSE d.blk[b].c[(pos % BS) + 1]
  IN [i \in 1..n |-> cell(off + i - 1)]

\* Map logical blocks l, l+1, ... while they turn out physically contiguous;
\* s.run counts them, s.first is the first block.
RECURSIVE ext4_map_run(_, _, _, _)
ext4_map_run(s, l, k, max) ==
  LET Go(c) ==
        IF ~c.ok THEN [s EXCEPT !.s = Recover(c)]
        ELSE IF k > 0 /\ c.r # s.first + k THEN [s EXCEPT !.s = c]
        ELSE ext4_map_run([s |-> c, run |-> k + 1, first |-> IF k = 0 THEN c.r ELSE s.first],
                          l, k + 1, max)
  IN IF k = max THEN s ELSE Go(map_create_phys(s.s, l + k))

RECURSIVE PutRun(_, _, _)
PutRun(s, b, buf) ==
  IF buf = <<>> THEN s
  ELSE PutRun(write_block(s, b, DataBlock(SubSeq(buf, 1, BS))), b + 1, SubSeq(buf, BS + 1, Len(buf)))

\* The loop of ext4_write from byte done of buf on; r is how far it came.
RECURSIVE ext4_write_loop(_, _, _, _)
ext4_write_loop(s, off, buf, done) ==
  LET l == (off + done) \div BS
      bo == (off + done) % BS
      n == Min({BS - bo, Len(buf) - done})
      none == [s |-> s, run |-> 0, first |-> 0]
      Piece(len) == SubSeq(buf, done + 1, done + len)
      Fast(m) == PutRun(m.s, m.first, Piece(m.run * BS))
      Into(c) == Then(c, write_block(c, c.r, DataBlock(Overlay(c.d.blk[c.r].c, bo, Piece(n)))))
      Slow(t) == [w |-> Into(map_create_phys(t, l)), len |-> n]
      After(w, m) == IF m.run > 0 /\ w.ok THEN [w |-> w, len |-> m.run * BS] ELSE Slow(Recover(w))
      MapRun(m) == After(Fast(m), m)
      Go(x) == IF x.w.ok THEN ext4_write_loop(x.w, off, buf, done + x.len)
               ELSE [x.w EXCEPT !.ok = TRUE, !.r = done]
  IN IF done >= Len(buf) THEN [s EXCEPT !.r = done]
     ELSE Go(MapRun(IF n = BS THEN ext4_map_run(none, l, 0, (Len(buf) - done) \div BS) ELSE none))

\* An inode without the extents flag is given an empty extent tree first.
ext4_write(s, ino, off, buf) ==
  LET WithExtents(in) == IF in.fl THEN in ELSE extent_init_inode(in)
      Sized(a) == [a EXCEPT !.in.size = Max({@, off + a.r})]
      Returned(z, n) == Then(z, [z EXCEPT !.r = n])
      Saved(g) == Returned(ext4_sync_if_dirty(write_inode(g, ino, g.in)), g.r)
  IN Saved(Sized(ext4_write_loop([s EXCEPT !.in = WithExtents(s.d.ino[ino])], off, buf, 0)))

ext4_setattr(s, ino, attr) ==
  ext4_sync_if_dirty(write_inode(s, ino, [s.d.ino[ino] EXCEPT !.attr = attr]))

\* A root file system must have the file /sbin/init.
ext4_root_ok(d) ==
  LET Kind(ino, kind) == ino # 0 /\ d.ino[ino].kind = kind
      HasInit(sbin) == Kind(sbin, "dir") /\ Kind(ext4_lookup(d, sbin, "init"), "file")
  IN Kind(RootIno, "dir") /\ HasInit(ext4_lookup(d, RootIno, "sbin"))
=============================================================================
