------------------------------- MODULE Lists --------------------------------
(***************************************************************************)
(* What a loop makes of a list, and a sorted list of a set.  SelectSeq and *)
(* SetToSortSeq do the same; these are definitions that a proof can use.   *)
(***************************************************************************)
EXTENDS Integers, Sequences, FiniteSets

\* The elements of a list at some of its positions, in their order.
Sublist(list, positions) ==
  LET kept[n \in 0..Len(list)] ==
        IF n = 0 THEN << >>
        ELSE IF n \in positions THEN Append(kept[n - 1], list[n]) ELSE kept[n - 1]
  IN  kept[Len(list)]

\* The members of a set in a strict total order.
InOrder(S, Before(_, _)) ==
  [n \in 1..Cardinality(S) |-> CHOOSE x \in S : Cardinality({y \in S : Before(y, x)}) = n - 1]
=============================================================================
