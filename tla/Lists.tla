------------------------------- MODULE Lists -------------------------------
(***************************************************************************)
(* What is left of a list when some of it is left out, as the loops that    *)
(* copy or erase entries by a condition do it.                              *)
(***************************************************************************)
EXTENDS Integers, SequencesExt

\* The members of `list' that are in S, in their order: SelectSeq, without the
\* recursion that no theorem could be proved about.
Only(list, S) ==
  LET at == {i \in 1..Len(list) : list[i] \in S}
      Rank(i) == Cardinality({j \in at : j <= i})
  IN  [k \in 1..Cardinality(at) |-> list[CHOOSE i \in at : Rank(i) = k]]
=============================================================================
