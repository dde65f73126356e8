-------------------------------- MODULE Tiers --------------------------------
(***************************************************************************)
(* Capability tiers (benchmarks/tiers.py).  Artificial Analysis reports    *)
(* quality indices of models; each index ranks the models that report it,  *)
(* and a model's tier for the capability the index stands for is read off  *)
(* its percentile in that population.                                      *)
(*                                                                         *)
(* The configuration maps each index to a capability of its own, so an     *)
(* index also names its capability here.  A percentile is                  *)
(* 100 * (below + ties / 2) / n; it is compared with a cutoff without      *)
(* dividing.  A definition named D_X is D with the bug X.                  *)
(***************************************************************************)
EXTENDS Integers, FiniteSets

CONSTANTS Slugs,      \* the models Artificial Analysis knows
          Indices,    \* the indices of index_capability_map
          Scores,     \* the values an index takes
          Threshold,  \* percentile_thresholds: tier -> cutoff
          None

ASSUME SlugsAssumption     == IsFiniteSet(Slugs)
ASSUME ScoresAssumption    == Scores \subseteq Int /\ None \notin Scores
ASSUME ThresholdAssumption ==
  /\ DOMAIN Threshold \subseteq 1..5
  /\ \A tier \in DOMAIN Threshold : Threshold[tier] \in Nat

VARIABLE reports  \* what each model reports for each index, or None

(***************************************************************************)
(* The population of an index, and a model's rank in it.                   *)
(***************************************************************************)
Population(i) == {p \in Slugs : reports[p][i] # None}

Below_Swapped(i, s) == {p \in Population(i) : reports[p][i] > reports[s][i]}
Below(i, s) == {p \in Population(i) : reports[p][i] < reports[s][i]}
Ties(i, s)  == {p \in Population(i) : reports[p][i] = reports[s][i]}

Meets_TiesCountFull(i, s, cutoff) ==
  100 * (Cardinality(Below(i, s)) + Cardinality(Ties(i, s)))
    >= cutoff * Cardinality(Population(i))

(* percentile_of(population, value) >= cutoff *)
Meets(i, s, cutoff) ==
  100 * (2 * Cardinality(Below(i, s)) + Cardinality(Ties(i, s)))
    >= 2 * cutoff * Cardinality(Population(i))

(* The highest tier whose cutoff is met, tier 1 if there is none. *)
Tier(i, s) ==
  LET met == {tier \in DOMAIN Threshold : Meets(i, s, Threshold[tier])}
  IN  IF met = {} THEN 1 ELSE CHOOSE tier \in met : \A other \in met : other <= tier

Derived_Everything(s) == [i \in Indices |-> Tier(i, s)]

(* derive_population: the tiers of model s, for the indices it reports. *)
Derived(s) == [i \in {j \in Indices : reports[s][j] # None} |-> Tier(i, s)]

-----------------------------------------------------------------------------
Init == reports = [s \in Slugs |-> [i \in Indices |-> None]]

(* Artificial Analysis changes, adds or withdraws one value. *)
Report(s, i, v) ==
  /\ v # reports[s][i]
  /\ reports' = [reports EXCEPT ![s] = [@ EXCEPT ![i] = v]]

Next == \E s \in Slugs, i \in Indices, v \in Scores \cup {None} : Report(s, i, v)

Spec == Init /\ [][Next]_reports

-----------------------------------------------------------------------------
(* Types; a model has a tier, from 1 to 5, for exactly what it reports.    *)
TypeOK ==
  /\ reports \in [Slugs -> [Indices -> Scores \cup {None}]]
  /\ \A s \in Slugs : \A i \in DOMAIN Derived(s) :
       reports[s][i] # None /\ Derived(s)[i] \in 1..5

(* Of two models that report an index, the one with the higher value never *)
(* gets the lower tier, and equal values get equal tiers.                  *)
TiersFollowScores ==
  \A i \in Indices : \A p, s \in Population(i) :
    reports[p][i] <= reports[s][i] => Tier(i, p) <= Tier(i, s)

(* High tiers stay scarce.  Ties count half, so a model that meets the     *)
(* cutoff c shares the places from its own rank upward with at most        *)
(* 2 * (100 - c) percent of the population: however many models tie at     *)
(* the top, no more than a fifth of them is at or above a P90 model.       *)
HighTiersAreScarce ==
  \A i \in Indices : \A s \in Population(i) : \A tier \in DOMAIN Threshold :
    Meets(i, s, Threshold[tier]) =>
      100 * Cardinality({p \in Population(i) : reports[p][i] >= reports[s][i]})
        <= 2 * (100 - Threshold[tier]) * Cardinality(Population(i))

(* A model is ranked against the models that report the index and nobody   *)
(* else: it falls in tier only when its own value falls, some rival's      *)
(* rises or appears, or a rival it beats or equals drops out.              *)
FallsNeedACause ==
  \A i \in Indices, s \in Slugs :
    reports[s][i] # None /\ reports'[s][i] = reports[s][i] /\ Tier(i, s)' < Tier(i, s) =>
      \E p \in Slugs \ {s} :
        /\ reports'[p][i] # reports[p][i]
        /\ \/ reports[p][i] # None /\ reports'[p][i] = None
             /\ reports[p][i] <= reports[s][i]
           \/ reports[p][i] = None /\ reports'[p][i] >= reports[s][i]
           \/ reports[p][i] # None /\ reports'[p][i] # None /\ reports'[p][i] > reports[p][i]
TierFallsHaveCauses == [][FallsNeedACause]_reports
=============================================================================
