------------------------------- MODULE MCTiers -------------------------------
(* Instances of Tiers for TLC. *)
EXTENDS Tiers, TLC

CONSTANTS s1, s2, s3, s4, s5, s6

SixSlugs == {s1, s2, s3, s4, s5, s6}
Symmetry == Permutations(SixSlugs)

(* DEFAULT_THRESHOLDS, which config/tiers.yaml repeats. *)
DefaultThresholds == 5 :> 90 @@ 4 :> 70 @@ 3 :> 40 @@ 2 :> 15
=============================================================================
