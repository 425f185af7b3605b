------------------------------ MODULE ExtDisk ------------------------------
(***************************************************************************)
(* What ext2.c and ext4.c have in common: the disk image they keep, the    *)
(* order in which block writes reach it, and directories.                  *)
(*                                                                         *)
(* A file-system operation is an operator from a record s to the next one: *)
(*   d     the disk image                                                  *)
(*   m     the mount's memory (ext4's bitmap cache, hints and counters)    *)
(*   hist  the images the disk has gone through during the operation, any  *)
(*         of which a power failure may leave behind                       *)
(*   fuse  the number of writes until one fails (0: none does)             *)
(*   ok    FALSE once a call has returned -1, until a caller clears it     *)
(*   r     the value the last call returned                                *)
(*   in    the inode being edited in memory                                *)
(***************************************************************************)
EXTENDS Integers, Sequences, FiniteSets, SequencesExt, FiniteSetsExt

CONSTANTS NB,        \* blocks on the disk
          NI,        \* inodes per group
          BS,        \* bytes ("cells") of a block
          NPtr,      \* block pointers an inode can reach
          NDirect,   \* the direct ones among them (12 in the code)
          ExtMax     \* extents that fit in the inode (4 in the code)

ASSUME DiskAssumption ==
  /\ NB \in Nat \ {0} /\ NI \in Nat \ {0} /\ BS \in Nat \ {0}
  /\ NPtr \in Nat /\ NDirect \in 1..NPtr /\ ExtMax \in Nat \ {0}

Blocks == 0..NB-1
Inos == 1..NI
RootIno == 2
NoBlk == -1
Zeroes == [i \in 1..BS |-> 0]

\* A block holds file bytes c, or directory entries e.
DataBlock(c) == [c |-> c, e |-> <<>>]
DirBlock(e) == [c |-> Zeroes, e |-> e]

\* kind "other" is an inode that is neither file nor directory (a symbolic
\* link of the image): vfs_mode_from_ext gives 0 for it.
FreeInode == [kind |-> "free", size |-> 0, fl |-> FALSE, deep |-> FALSE,
              ext |-> <<>>, ptr |-> [l \in 0..NPtr-1 |-> 0], attr |-> 0]

Start(d, m, fuse) == [d |-> d, m |-> m, hist |-> {d}, fuse |-> fuse, ok |-> TRUE,
                      r |-> 0, in |-> FreeInode]
Fail(s) == [s EXCEPT !.ok = FALSE, !.r = -1]
Recover(s) == [s EXCEPT !.ok = TRUE]

\* The state t the code goes on to, unless the call that ended in s returned -1.
Then(s, t) == IF s.ok THEN t ELSE s

\* block_write_sectors: the write reaches the disk, or fails and changes nothing.
Put(s, nd) ==
  IF ~s.ok THEN s
  ELSE IF s.fuse = 1 THEN [Fail(s) EXCEPT !.fuse = 0]
  ELSE [s EXCEPT !.d = nd, !.hist = @ \cup {nd}, !.fuse = IF @ > 0 THEN @ - 1 ELSE 0]

write_block(s, b, content) == Put(s, [s.d EXCEPT !.blk[b] = content])
write_inode(s, ino, in) == Put(s, [s.d EXCEPT !.ino[ino] = in])

\* The bit of the block bitmap that stands for block b: the bitmap begins at
\* the first data block, which is 1 when blocks are 1024 bytes and 0 otherwise.
BitOf(d, b) == b - d.fdb

Overlay(old, at, new) ==
  [i \in 1..Len(old) |-> IF i > at /\ i <= at + Len(new) THEN new[i - at] ELSE old[i]]

-----------------------------------------------------------------------------
(* Directories.  bs is the sequence of blocks a scan of the directory visits. *)

Slots(d, bs) ==
  FlattenSeq([k \in 1..Len(bs) |->
    [i \in 1..Len(d.blk[bs[k]].e) |->
       [b |-> bs[k], i |-> i,
        ino |-> d.blk[bs[k]].e[i].ino, name |-> d.blk[bs[k]].e[i].name]]])

Live(d, bs) == SelectSeq(Slots(d, bs), LAMBDA e : e.ino # 0)
Named(d, bs, name) == SelectSeq(Live(d, bs), LAMBDA e : e.name = name)

Visible(d, ino) == d.ino[ino].kind \in {"dir", "file"}

\* The inode a scan for name ends with: the first live entry of that name
\* decides, even when its inode is of a kind the VFS does not show.
FindName(d, bs, name) ==
  LET Shown(hits) == IF hits # <<>> /\ Visible(d, hits[1].ino) THEN hits[1].ino ELSE 0
  IN Shown(Named(d, bs, name))

\* Entry idx of the live ones, <<>> at the end or at an inode that is not shown.
EntryAt(d, bs, idx) ==
  LET Shown(live) ==
        IF idx < Len(live) /\ Visible(d, live[idx + 1].ino) THEN <<live[idx + 1]>> ELSE <<>>
  IN Shown(Live(d, bs))

\* Clear the inode number of the first live entry of that name.  Neither the
\* inode nor its blocks are given back.
ClearName(s, bs, name) ==
  LET Clear(hits) == IF hits = <<>> THEN Fail(s)
                     ELSE Put(s, [s.d EXCEPT !.blk[hits[1].b].e[hits[1].i].ino = 0])
  IN Clear(Named(s.d, bs, name))

\* Put the entry in the first slot whose inode number is 0.
FreeSlots(d, bs) == SelectSeq(Slots(d, bs), LAMBDA e : e.ino = 0)
FillSlot(s, slot, ino, name) ==
  Put(s, [s.d EXCEPT !.blk[slot.b].e[slot.i] = [ino |-> ino, name |-> name]])

Dots(self, parent) == DirBlock(<<[ino |-> self, name |-> "."], [ino |-> parent, name |-> ".."]>>)
=============================================================================
