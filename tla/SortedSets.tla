------------------------------ MODULE SortedSets ------------------------------
(***************************************************************************)
(* The elements of a finite set of numbers as a sequence, each at the      *)
(* place that the number of those before it gives.                         *)
(***************************************************************************)
EXTENDS Integers, FiniteSets

Upwards(S) ==
  [i \in 1..Cardinality(S) |-> CHOOSE x \in S : Cardinality({y \in S : y < x}) = i - 1]

Downwards(S) ==
  [i \in 1..Cardinality(S) |-> CHOOSE x \in S : Cardinality({y \in S : y > x}) = i - 1]
=============================================================================
