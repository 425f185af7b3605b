----------------------------- MODULE UserMemory -----------------------------
(***************************************************************************)
(* brk, mmap and munmap of src/sys/syscall.c for one task, in pages: the   *)
(* table user_vmas of tracked mappings, the top-down search for a gap, and *)
(* the program break that grows from below into the same window.           *)
(*                                                                         *)
(* mapped and arena are not in the code: they remember what the program    *)
(* has been given and has not given back (all of it, and the part whose    *)
(* place the kernel chose), given the pages that mmap has placed in the     *)
(* last step, and strained whether the table has been full, a mapping has  *)
(* failed, or a request has straddled an edge of the heap window: from     *)
(* there on nothing is claimed of what the table tells.                    *)
(* user_vma_count and user_mmap_next, which are recomputed but never read, *)
(* are left out.                                                           *)
(***************************************************************************)
EXTENDS Naturals, FiniteSets

CONSTANTS Base, Limit,  \* the heap window: USER_HEAP_BASE_ADDR and user_heap_limit
          MaxVma,       \* PROCESS_USER_VMA_MAX
          MaxLen,       \* bound on the length of a request
          Fixed,        \* addresses given with MAP_FIXED
          MayFail       \* whether a mapping can fail after its range was cleared

ASSUME WindowAssumption == /\ Base \in Nat \ {0} /\ Limit \in Nat /\ Base < Limit
                           /\ MaxVma \in Nat \ {0} /\ MaxLen \in Nat /\ Fixed \subseteq Nat \ {0}

VARIABLES vmas,    \* user_vmas
          heap,    \* user_heap_base: above the image, at least Base
          brk,     \* user_brk
          mapped,  \* pages mapped by the program
          arena,   \* those of them that mmap placed
          given,   \* those that mmap placed in the last step
          strained \* BOOLEAN

mvars == <<vmas, heap, brk, mapped, arena, given, strained>>

Slot == 1..MaxVma
Span(lo, hi) == [start |-> lo, end |-> hi]
NoVma == Span(0, 0)

Empty(v) == v.end <= v.start
Overlaps(v, lo, hi) == ~Empty(v) /\ ~(hi <= v.start \/ lo >= v.end)

FreeSlots(t) == {i \in Slot : Empty(t[i])}
user_vma_find_free_slot(t) == CHOOSE i \in FreeSlots(t) : \A j \in FreeSlots(t) : i <= j

\* user_vma_record fails (here: unchanged) when every slot is in use.
user_vma_record(t, lo, hi) ==
  IF FreeSlots(t) = {} THEN t
  ELSE [t EXCEPT ![user_vma_find_free_slot(t)] = Span(lo, hi)]

\* Mutant: the search stops at the first mapping it meets from the top.
first_gap_only(t, floor, top, need) ==
  IF top <= floor \/ need > top - floor \/ \E i \in Slot : Overlaps(t[i], top - need, top)
  THEN 0 ELSE top - need

\* Mutant: the search ignores a mapping that starts below the candidate.
gap_misses_low(t, floor, top, need) ==
  LET Try[it \in 0..(MaxVma + 4), cur \in 0..top] ==
        IF it = 0 \/ cur <= floor \/ need > cur - floor THEN 0
        ELSE LET base == cur - need
                 hits == {i \in Slot : Overlaps(t[i], base, cur) /\ t[i].start >= base}
             IN  IF hits = {} THEN base
                 ELSE LET low == CHOOSE m \in {t[i].start : i \in hits} :
                                   \A i \in hits : m <= t[i].start
                      IN  IF low >= cur THEN 0 ELSE Try[it - 1, low]
  IN  IF top <= floor \/ need > top - floor THEN 0 ELSE Try[MaxVma + 4, top]

\* The mappings in the way of a candidate, and where the lowest of them starts.
Hits(t, floor, top, base, cur) ==
  {i \in Slot : t[i].end > floor /\ t[i].start < top /\ Overlaps(t[i], base, cur)}
Lowest(t, hits) == CHOOSE m \in {t[i].start : i \in hits} : \A i \in hits : m <= t[i].start

\* One round for a candidate that ends at cur: it fits, or the next one ends below all the
\* mappings in its way; next is what the rounds after this one return.
GapRound(t, floor, top, need, next) ==
  [cur \in 0..top |->
    LET hits == Hits(t, floor, top, cur - need, cur)
    IN  IF cur <= floor \/ need > cur - floor THEN 0
        ELSE IF hits = {} THEN cur - need
        ELSE IF Lowest(t, hits) >= cur THEN 0
        ELSE next[Lowest(t, hits)]]

GapRounds(t, floor, top, need) ==
  LET Try[it \in 0..(MaxVma + 4)] ==
        IF it = 0 THEN [cur \in 0..top |-> 0] ELSE GapRound(t, floor, top, need, Try[it - 1])
  IN  Try

\* 0 means that there is no gap.
user_vma_find_topdown_gap(t, floor, top, need) ==
  IF top <= floor \/ need > top - floor THEN 0
  ELSE GapRounds(t, floor, top, need)[MaxVma + 4][top]

\* What user_vma_remove_range does to slot i: clear, trim, or split in two; without a
\* free slot the upper part of a split is forgotten.
RemoveFrom(t, i, lo, hi) ==
  LET v == t[i]
  IN  IF ~Overlaps(v, lo, hi) THEN t
      ELSE IF lo <= v.start /\ hi >= v.end THEN [t EXCEPT ![i] = NoVma]
      ELSE IF lo <= v.start THEN [t EXCEPT ![i] = Span(hi, v.end)]
      ELSE IF hi >= v.end   THEN [t EXCEPT ![i] = Span(v.start, lo)]
      ELSE [user_vma_record(t, hi, v.end) EXCEPT ![i] = Span(v.start, lo)]

\* Mutant: a split keeps the lower part only, even with slots to spare.
remove_never_splits(t, lo, hi) ==
  [i \in Slot |-> IF ~Overlaps(t[i], lo, hi) THEN t[i]
                  ELSE IF lo <= t[i].start /\ hi >= t[i].end THEN NoVma
                  ELSE IF lo <= t[i].start THEN Span(hi, t[i].end) ELSE Span(t[i].start, lo)]

\* The table after each slot in turn.
RemoveRounds(t, lo, hi) ==
  LET After[i \in 0..MaxVma] == IF i = 0 THEN t ELSE RemoveFrom(After[i - 1], i, lo, hi)
  IN  After

user_vma_remove_range(t, lo, hi) == RemoveRounds(t, lo, hi)[MaxVma]

InWindow(p) == p >= Base /\ p < Limit

Straddles(lo, need) == \E p, q \in lo..(lo + need - 1) : InWindow(p) /\ ~InWindow(q)

Strain(lo, need) == strained \/ FreeSlots(vmas') = {} \/ Straddles(lo, need)

-----------------------------------------------------------------------------
MemoryInit ==
  /\ vmas = [i \in Slot |-> NoVma]
  /\ heap = Base /\ brk = Base
  /\ mapped = {} /\ arena = {} /\ given = {} /\ strained = FALSE

\* The part of do_sys_mmap after the address is chosen: the range is cleared first,
\* then the pages and the file are checked, and the mapping is recorded last, if
\* there is a slot and it starts inside the heap window.  A mapping of a device
\* ends like a failure: its address is elsewhere and nothing is recorded.
MapAt(base, need, placed) ==
  LET pages == base..(base + need - 1)
      t == user_vma_remove_range(vmas, base, base + need)
  IN  \/ /\ ~InWindow(base) \/ FreeSlots(t) # {}
         /\ vmas' = IF InWindow(base) THEN user_vma_record(t, base, base + need) ELSE t
         /\ mapped' = mapped \cup pages
         /\ arena' = IF placed THEN arena \cup pages ELSE arena \ pages
         /\ given' = IF placed THEN pages ELSE {}
         /\ strained' = Strain(base, need)
      \/ /\ MayFail \/ (InWindow(base) /\ FreeSlots(t) = {})
         /\ vmas' = t /\ given' = {} /\ strained' = TRUE
         /\ UNCHANGED <<mapped, arena>>

Mmap ==
  \E need \in 1..MaxLen :
    LET base == user_vma_find_topdown_gap(vmas, brk, Limit, need)
    IN  base # 0 /\ MapAt(base, need, TRUE) /\ UNCHANGED <<heap, brk>>

MmapFixed ==
  \E base \in Fixed, need \in 1..MaxLen : MapAt(base, need, FALSE) /\ UNCHANGED <<heap, brk>>

\* Outside the heap window munmap reports success and does nothing.
Munmap ==
  \E lo \in Fixed \cup (Base..(Limit - 1)), need \in 1..MaxLen :
    /\ vmas' = IF InWindow(lo) THEN user_vma_remove_range(vmas, lo, lo + need) ELSE vmas
    /\ mapped' = mapped \ (lo..(lo + need - 1))
    /\ arena' = arena \ (lo..(lo + need - 1))
    /\ given' = {}
    /\ strained' = Strain(lo, need)
    /\ UNCHANGED <<heap, brk>>

\* The test of do_sys_brk when the break grows.
BrkRoom(req) == \A i \in Slot : Empty(vmas[i]) \/ vmas[i].end <= brk \/ vmas[i].start >= req

do_sys_brk ==
  \E req \in heap..Limit :
    /\ req > brk => BrkRoom(req)
    /\ brk' = req
    /\ given' = {}
    /\ UNCHANGED <<vmas, heap, mapped, arena, strained>>

\* process_prepare_exec_current empties the table; a large image moves the heap up.
Execve ==
  /\ vmas' = [i \in Slot |-> NoVma]
  /\ heap' \in Base..(Limit - 1) /\ brk' = heap'
  /\ mapped' = {} /\ arena' = {} /\ given' = {} /\ strained' = FALSE

MemoryNext == Mmap \/ MmapFixed \/ Munmap \/ do_sys_brk \/ Execve

MemorySpec == MemoryInit /\ [][MemoryNext]_mvars

-----------------------------------------------------------------------------
(* Properties *)

Pages(v) == {p \in v.start..v.end : p < v.end}
Tracked == UNION {Pages(vmas[i]) : i \in Slot}

\* No page is in two tracked mappings, however they were trimmed, split and replaced
\* by user_vma_remove_range; and as long as it is not strained, the table tells the
\* truth: a page of the heap window is tracked exactly if the program has mapped it
\* and not unmapped it.
TrackedExact ==
  /\ \A i, j \in Slot : i # j => Pages(vmas[i]) \cap Pages(vmas[j]) = {}
  /\ ~strained => Tracked = {p \in mapped : InWindow(p)}

\* user_vma_find_topdown_gap returns the highest place where the request fits above
\* the break, and 0 only if there is none: its reference definition.
GapIsHighest ==
  \A need \in 1..MaxLen :
    LET fits == {b \in brk..(Limit - need) : (b..(b + need - 1)) \cap Tracked = {}}
        base == user_vma_find_topdown_gap(vmas, brk, Limit, need)
    IN  IF fits = {} THEN base = 0 ELSE base \in fits /\ \A b \in fits : b <= base

\* "Use a dedicated top-down mmap arena separate from brk" (the comment in
\* do_sys_mmap): a page that mmap placed is never below the program break.
ArenaAboveBrk == \A p \in arena : p >= brk

\* As long as the table is not strained, no page that mmap hands out without MAP_FIXED
\* is one that the program still has mapped, whoever placed it, and do_sys_brk never
\* reaches a page that mmap handed out.
NoPageGivenTwice ==
  [][~strained => given' \cap mapped = {} /\ (~strained' => ArenaAboveBrk')]_mvars
=============================================================================
