----------------------------- MODULE MCTTLCache -----------------------------
(* Instances of TTLCache for TLC. *)
EXTENDS TTLCache, TLC

CONSTANTS t1, t2, t3

Tasks3 == {t1, t2, t3}
Symmetry == Permutations(Tasks3)
=============================================================================
