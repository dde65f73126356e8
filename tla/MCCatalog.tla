------------------------------ MODULE MCCatalog ------------------------------
(* Instances of Catalog for TLC. *)
EXTENDS Catalog, TLC

CONSTANTS s1, s2, m1, m2, coding, agentic

TwoSlugs == {s1, s2}
TwoIndices == {coding, agentic}

(* s2 is ranked too, but its model is one that no alias reaches. *)
SlugsToModels == s1 :> m1 @@ s2 :> None

(* Two models are enough for tiers 1, 2 and 5 under these cutoffs. *)
SmallThresholds == 5 :> 75 @@ 2 :> 30

Bare == [ tiers |-> Nothing, indices |-> Nothing, scores |-> Nothing, speed |-> None,
          tags |-> {}, has |-> {} ]

(* Cards as OpenRouter lists them, and a local card that has everything.   *)
Cards ==
  { [Bare EXCEPT !.has = {"structured_outputs"}], [Bare EXCEPT !.has = {"tools"}],
    [ tiers |-> agentic :> 3, indices |-> agentic :> 2, scores |-> "gpqa" :> 1,
      speed |-> 10, tags |-> {"own"}, has |-> {"tools", "structured_outputs"} ] }

Measurements ==
  { [scores |-> Nothing, speed |-> None], [scores |-> "gpqa" :> 2 @@ "hle" :> 2, speed |-> 20] }

Overrides ==
  { [tiers |-> agentic :> 1, scores |-> Nothing, tags |-> {"own"}],
    [tiers |-> coding :> 4, scores |-> "gpqa" :> 3, tags |-> {"approved"}] }
=============================================================================
