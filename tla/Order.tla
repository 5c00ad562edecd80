--------------------------------- MODULE Order ---------------------------------
(***************************************************************************)
(* The elements of a finite set of numbers in ascending order: how the     *)
(* loops of the server, which count upwards, leave what they collect.      *)
(***************************************************************************)
EXTENDS Integers, Sequences, FiniteSets

(* The number of elements below x. *)
Rank(S, x) == Cardinality({y \in S : y < x})

Sorted(S) == [n \in 1 .. Cardinality(S) |-> CHOOSE x \in S : Rank(S, x) = n - 1]

=============================================================================
