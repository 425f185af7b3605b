------------------------------- MODULE Lists -------------------------------
(***************************************************************************)
(* The few operators on sequences that the models with proofs use.  They   *)
(* are those of the community module SequencesExt, which brings in Bags;   *)
(* the proof system takes ten times as long for every step behind Bags.    *)
(***************************************************************************)
EXTENDS Integers, Sequences

Last(s) == s[Len(s)]
Front(s) == SubSeq(s, 1, Len(s) - 1)

\* The value after op has taken in the elements of s, the first one first.
FoldLeft(op(_, _), base, s) ==
  LET done[i \in 0..Len(s)] == IF i = 0 THEN base ELSE op(done[i - 1], s[i])
  IN  done[Len(s)]

FlattenSeq(ss) == FoldLeft(LAMBDA a, b : a \o b, <<>>, ss)
=============================================================================
