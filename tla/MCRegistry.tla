----------------------------- MODULE MCRegistry -----------------------------
(* Instances of Registry for TLC. *)
EXTENDS Registry, TLC

CONSTANTS r1, r2

Requests == {r1, r2}
Symmetry == Permutations(Requests)
ShortTTL == [s \in Sources |-> 1]
=============================================================================
