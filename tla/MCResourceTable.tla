--------------------------- MODULE MCResourceTable ---------------------------
(* A small instance of ResourceTable for TLC: three nodes with the same    *)
(* device paths, two of them without eno1, and a run of azure_delete.      *)
EXTENDS ResourceTable, TLC

CONSTANTS n1, n2, n3, ip1, d1, d2

SomeAddress == [n \in {n1} |-> ip1]
SomePaths == <<d1, d2>>

(* The two nodes without eno1 are alike. *)
Symmetry == Permutations({n2, n3})

=============================================================================
