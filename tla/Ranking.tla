------------------------------- MODULE Ranking -------------------------------
(* What the stores build with filter, sort and slice before they answer.      *)
(* SortSeq and SelectSeq give the same sequences; here an element's place is  *)
(* the number of those that come before it.                                   *)
EXTENDS Integers, Sequences, FiniteSets

\* The elements of S in a strict total order of them.
Ranked(S, order) ==
  [n \in 1..Cardinality(S) |->
     CHOOSE x \in S : Cardinality({y \in S : <<y, x>> \in order}) = n - 1]

Ascending(S) == {p \in S \X S : p[1] < p[2]}

\* The most first, and the smaller of equals.
MostFirst(S, score) ==
  {p \in S \X S : \/ score[p[1]] > score[p[2]]
                  \/ score[p[1]] = score[p[2]] /\ p[1] < p[2]}

\* The places in I, in their order; what a filter keeps of a sequence.
Picked(seq, I) ==
  LET places == Ranked(I, Ascending(I))
  IN  [n \in 1..Cardinality(I) |-> seq[places[n]]]

\* slice(0, max): a negative end counts from the end.
Slice(seq, max) ==
  LET end == IF max < 0 THEN Len(seq) + max ELSE max
  IN  SubSeq(seq, 1, IF end > Len(seq) THEN Len(seq) ELSE end)
=============================================================================
