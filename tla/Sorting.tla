------------------------------ MODULE Sorting -------------------------------
(***************************************************************************)
(* Sorting a finite set, as the queries' ORDER BY and Array.sort do: the   *)
(* place of an element is the number of elements before it.  Unlike        *)
(* SetToSortSeq this has a definition a proof can use.                     *)
(***************************************************************************)
EXTENDS Naturals, FiniteSets

Sorted(S, Before(_, _)) ==
  [i \in 1..Cardinality(S) |->
     CHOOSE x \in S : Cardinality({y \in S : Before(y, x)}) = i - 1]
=============================================================================
