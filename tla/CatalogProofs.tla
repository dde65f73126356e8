---------------------------- MODULE CatalogProofs ----------------------------
(***************************************************************************)
(* Proofs about Tiers and about Catalog, which extends it, for any models, *)
(* indices, thresholds, aliases, cards, records and overrides.             *)
(*                                                                         *)
(* The argument for Tiers: the invariants follow from the type of          *)
(* `reports` alone, by counting: a population falls into the models below, *)
(* tied with and above a model.  So does the cause of a fall, by counting  *)
(* before and after the step.                                              *)
(*                                                                         *)
(* The argument for Catalog: each layer of the merge has a lemma that says *)
(* what it does to every field of a card, and the lemmas add up to a       *)
(* description of the served card (Described).  Only one thing about the   *)
(* state is needed: a base card is a card, with all its fields.            *)
(***************************************************************************)
EXTENDS Catalog, FiniteSetTheorems, TLAPS

-----------------------------------------------------------------------------
(***************************************************************************)
(* Tiers.                                                                  *)
(***************************************************************************)
AtOrBelow(i, s) == {p \in Population(i) : reports[p][i] <= reports[s][i]}
AtOrAbove(i, s) == {p \in Population(i) : reports[p][i] >= reports[s][i]}

Types == reports \in [Slugs -> [Indices -> Scores \cup {None}]]

LEMMA DisjointUnion ==
  ASSUME NEW S, NEW T, IsFiniteSet(S), IsFiniteSet(T), S \cap T = {}
  PROVE  Cardinality(S \cup T) = Cardinality(S) + Cardinality(T)
<1>1. Cardinality(S \cup T) = Cardinality(S) + Cardinality(T) - Cardinality(S \cap T)
  BY FS_Union
<1>2. Cardinality(S \cap T) = 0
  BY FS_EmptySet
<1>3. Cardinality(S) \in Nat /\ Cardinality(T) \in Nat
  BY FS_CardinalityType
<1> QED
  BY <1>1, <1>2, <1>3

(* Counting the models below twice and the ties once is counting the       *)
(* models below and the models at or below; and whoever is not below is at *)
(* or above.                                                               *)
LEMMA RankArithmetic ==
  ASSUME Types, NEW i \in Indices, NEW s \in Population(i)
  PROVE  LET n == Cardinality(Population(i))
             b == Cardinality(Below(i, s))
             t == Cardinality(Ties(i, s))
         IN  /\ n \in Nat /\ b \in Nat /\ t \in Nat
             /\ IsFiniteSet(AtOrBelow(i, s))
             /\ Cardinality(AtOrBelow(i, s)) = b + t
             /\ Cardinality(AtOrAbove(i, s)) = n - b
             /\ b + t <= n
<1> DEFINE Pop == Population(i)
<1>1. IsFiniteSet(Pop) /\ Cardinality(Pop) \in Nat
  BY SlugsAssumption, FS_Subset, FS_CardinalityType DEF Population
<1>2. \A p \in Pop : reports[p][i] \in Int
  BY ScoresAssumption DEF Types, Population
<1>3. /\ Below(i, s) \in SUBSET Pop /\ Ties(i, s) \in SUBSET Pop
      /\ AtOrBelow(i, s) \in SUBSET Pop /\ AtOrAbove(i, s) \in SUBSET Pop
  BY DEF Below, Ties, AtOrBelow, AtOrAbove
<1>4. /\ IsFiniteSet(Below(i, s)) /\ IsFiniteSet(Ties(i, s))
      /\ IsFiniteSet(AtOrBelow(i, s)) /\ IsFiniteSet(AtOrAbove(i, s))
  BY <1>1, <1>3, FS_Subset
<1>5. /\ Cardinality(Below(i, s)) \in Nat /\ Cardinality(Ties(i, s)) \in Nat
      /\ Cardinality(AtOrAbove(i, s)) \in Nat
  BY <1>4, FS_CardinalityType
<1>6. Cardinality(AtOrBelow(i, s)) = Cardinality(Below(i, s)) + Cardinality(Ties(i, s))
  <2>1. /\ AtOrBelow(i, s) = Below(i, s) \cup Ties(i, s)
        /\ Below(i, s) \cap Ties(i, s) = {}
    BY <1>2 DEF AtOrBelow, Below, Ties
  <2> QED
    BY <2>1, <1>4, DisjointUnion
<1>7. Cardinality(Pop) = Cardinality(Below(i, s)) + Cardinality(AtOrAbove(i, s))
  <2>1. /\ Pop = Below(i, s) \cup AtOrAbove(i, s)
        /\ Below(i, s) \cap AtOrAbove(i, s) = {}
    BY <1>2 DEF AtOrAbove, Below
  <2> QED
    BY <2>1, <1>4, DisjointUnion
<1>8. Cardinality(AtOrBelow(i, s)) <= Cardinality(Pop)
  BY <1>1, <1>3, FS_Subset
<1> QED
  BY <1>1, <1>4, <1>5, <1>6, <1>7, <1>8

(* The higher value meets every cutoff the lower one meets.                *)
LEMMA MeetsIsMonotone ==
  ASSUME Types, NEW i \in Indices, NEW p \in Population(i), NEW s \in Population(i),
         reports[p][i] <= reports[s][i],
         NEW cutoff \in Nat, Meets(i, p, cutoff)
  PROVE  Meets(i, s, cutoff)
<1>1. \A q \in Population(i) : reports[q][i] \in Int
  BY ScoresAssumption DEF Types, Population
<1>2. Below(i, p) \in SUBSET Below(i, s) /\ AtOrBelow(i, p) \in SUBSET AtOrBelow(i, s)
  BY <1>1 DEF Below, AtOrBelow
<1>3. IsFiniteSet(Below(i, s)) /\ IsFiniteSet(AtOrBelow(i, s))
  BY SlugsAssumption, FS_Subset, RankArithmetic DEF Below, Population
<1>4. /\ Cardinality(Below(i, p)) <= Cardinality(Below(i, s))
      /\ Cardinality(AtOrBelow(i, p)) <= Cardinality(AtOrBelow(i, s))
  BY <1>2, <1>3, FS_Subset
<1>5. 100 * (2 * Cardinality(Below(i, p)) + Cardinality(Ties(i, p)))
        <= 100 * (2 * Cardinality(Below(i, s)) + Cardinality(Ties(i, s)))
  BY <1>4, RankArithmetic
<1>6. /\ Cardinality(Population(i)) \in Nat
      /\ Cardinality(Below(i, p)) \in Nat /\ Cardinality(Ties(i, p)) \in Nat
      /\ Cardinality(Below(i, s)) \in Nat /\ Cardinality(Ties(i, s)) \in Nat
  BY RankArithmetic
<1>7. 2 * cutoff * Cardinality(Population(i)) \in Int
  BY <1>6
<1> DEFINE rhs == 2 * cutoff * Cardinality(Population(i))
<1>8. rhs \in Int /\ 100 * (2 * Cardinality(Below(i, p)) + Cardinality(Ties(i, p))) >= rhs
  BY <1>7 DEF Meets
<1> HIDE DEF rhs
<1>9. 100 * (2 * Cardinality(Below(i, s)) + Cardinality(Ties(i, s))) >= rhs
  BY <1>5, <1>6, <1>8
<1> QED
  BY <1>9 DEF Meets, rhs

(* What Tier picks: the highest tier met, or 1.                            *)
LEMMA TierIsHighest ==
  ASSUME NEW i, NEW s
  PROVE  LET met == {tier \in DOMAIN Threshold : Meets(i, s, Threshold[tier])}
         IN  /\ Tier(i, s) \in 1..5
             /\ met = {} => Tier(i, s) = 1
             /\ met # {} => Tier(i, s) \in met /\ \A other \in met : other <= Tier(i, s)
<1> DEFINE met == {tier \in DOMAIN Threshold : Meets(i, s, Threshold[tier])}
<1>1. met \subseteq 1..5
  BY ThresholdAssumption
<1>2. ASSUME met # {}
      PROVE  \E tier \in met : \A other \in met : other <= tier
  BY <1>1, <1>2
<1> QED
  BY <1>1, <1>2 DEF Tier

(* TypeOK: what a model reports is a known value, and it is given a tier   *)
(* from 1 to 5 for exactly the indices it reports.                         *)
THEOREM TypeCorrect == Spec => []TypeOK
<1>1. Init => Types
  BY DEF Init, Types
<1>2. Types /\ [Next]_reports => Types'
  BY DEF Types, Next, Report
<1>3. Types => TypeOK
  BY TierIsHighest DEF Types, TypeOK, Derived
<1> QED
  BY <1>1, <1>2, <1>3, PTL DEF Spec

(* TiersFollowScores: the better score never gets the lower tier.          *)
THEOREM ScoresOrderTiers == Spec => []TiersFollowScores
<1>1. Types => TiersFollowScores
  <2> SUFFICES ASSUME Types, NEW i \in Indices,
                      NEW p \in Population(i), NEW s \in Population(i),
                      reports[p][i] <= reports[s][i]
               PROVE  Tier(i, p) <= Tier(i, s)
    BY DEF TiersFollowScores
  <2> DEFINE met(q) == {tier \in DOMAIN Threshold : Meets(i, q, Threshold[tier])}
  <2>1. met(p) \subseteq met(s)
    BY MeetsIsMonotone, ThresholdAssumption
  <2> QED
    BY <2>1, TierIsHighest
<1>2. TypeOK => Types
  BY DEF TypeOK, Types
<1> QED
  BY <1>1, <1>2, TypeCorrect, PTL

(* HighTiersAreScarce: at or above a model that meets the cutoff c there   *)
(* is at most the share 2 * (100 - c) percent of the population.           *)
THEOREM TopIsScarce == Spec => []HighTiersAreScarce
<1>1. Types => HighTiersAreScarce
  <2> SUFFICES ASSUME Types, NEW i \in Indices, NEW s \in Population(i),
                      NEW tier \in DOMAIN Threshold, Meets(i, s, Threshold[tier])
               PROVE  100 * Cardinality(AtOrAbove(i, s))
                        <= 2 * (100 - Threshold[tier]) * Cardinality(Population(i))
    BY DEF HighTiersAreScarce, AtOrAbove
  <2> DEFINE n == Cardinality(Population(i))
             b == Cardinality(Below(i, s))
             t == Cardinality(Ties(i, s))
             c == Threshold[tier]
  <2>1. /\ n \in Nat /\ b \in Nat /\ t \in Nat /\ b + t <= n
        /\ Cardinality(AtOrAbove(i, s)) = n - b
    BY RankArithmetic
  <2>2. c \in Nat
    BY ThresholdAssumption
  <2>3. 100 * (2 * b + t) >= 2 * c * n
    BY DEF Meets
  <2> HIDE DEF n, b, t, c
  <2>4. 100 * (b + n) >= 2 * c * n
    <3>1. 2 * c * n \in Int
      BY <2>1, <2>2
    <3> QED
      BY <2>1, <2>3, <3>1
  <2>5. 2 * (100 - c) * n = 200 * n - 2 * c * n
    BY <2>1, <2>2
  <2>6. 100 * (n - b) <= 2 * (100 - c) * n
    <3> DEFINE product == 2 * c * n
    <3>1. product \in Int
      BY <2>1, <2>2
    <3>2. 100 * (b + n) >= product /\ 2 * (100 - c) * n = 200 * n - product
      BY <2>4, <2>5
    <3> HIDE DEF product
    <3>3. 100 * (n - b) <= 200 * n - product
      BY <2>1, <3>1, <3>2
    <3> QED
      BY <3>2, <3>3
  <2> QED
    BY <2>1, <2>6 DEF n, c
<1>2. TypeOK => Types
  BY DEF TypeOK, Types
<1> QED
  BY <1>1, <1>2, TypeCorrect, PTL

-----------------------------------------------------------------------------
(***************************************************************************)
(* A step that gives s no cause to fall leaves as many or more below it    *)
(* and as many or fewer above it.  x counts the models below s twice and   *)
(* its ties once, and y the models above it twice and its ties once, so    *)
(* that x + y is twice the population.                                     *)
(***************************************************************************)
LEMMA BetterRankMeetsMore ==
  ASSUME NEW x \in Nat, NEW y \in Nat, NEW u \in Nat, NEW v \in Nat, NEW c \in Nat,
         x >= 1, x <= u, v <= y, 100 * x >= c * (x + y)
  PROVE  100 * u >= c * (u + v)
<1>1. c <= 100
  <2> SUFFICES ASSUME c >= 101 PROVE FALSE
    OBVIOUS
  <2>1. c * (x + y) >= 101 * (x + y)
    <3> PICK d \in Nat : c = 101 + d
      BY c - 101 \in Nat
    <3> PICK z \in Nat : z = x + y
      OBVIOUS
    <3>1. c * z = 101 * z + d * z /\ d * z \in Nat
      OBVIOUS
    <3> QED
      BY <3>1
  <2> QED
    BY <2>1
<1> PICK e \in Nat : e = 100 - c
  BY <1>1
<1> PICK dx \in Nat : u = x + dx
  BY u - x \in Nat
<1> PICK dy \in Nat : y = v + dy
  BY y - v \in Nat
<1>2. e * x >= c * y
  BY 100 * x = e * x + c * x, c * (x + y) = c * x + c * y
<1>3. e * u = e * x + e * dx /\ c * y = c * v + c * dy
  OBVIOUS
<1>4. e * dx \in Nat /\ c * dy \in Nat /\ e * x \in Nat /\ c * v \in Nat
  OBVIOUS
<1>5. e * u >= c * v
  BY <1>2, <1>3, <1>4
<1>6. 100 * u = e * u + c * u /\ c * (u + v) = c * u + c * v /\ c * u \in Nat /\ e * u \in Nat
  OBVIOUS
<1> QED
  BY <1>4, <1>5, <1>6

Above(i, s) == Population(i) \ AtOrBelow(i, s)

Twice(i, s)   == Cardinality(Below(i, s)) + Cardinality(AtOrBelow(i, s))
Against(i, s) == Cardinality(Above(i, s)) + Cardinality(AtOrAbove(i, s))

(* What the counting comes to, as a fact of a state and of the next one.   *)
RankFacts ==
  /\ Types
  /\ \A i \in Indices : \A s \in Population(i) :
       /\ IsFiniteSet(Below(i, s)) /\ IsFiniteSet(AtOrBelow(i, s))
       /\ IsFiniteSet(Above(i, s)) /\ IsFiniteSet(AtOrAbove(i, s))
       /\ Cardinality(Below(i, s)) \in Nat /\ Cardinality(AtOrBelow(i, s)) \in Nat \ {0}
       /\ Cardinality(Above(i, s)) \in Nat /\ Cardinality(AtOrAbove(i, s)) \in Nat
       /\ \A cutoff \in Nat :
            Meets(i, s, cutoff) <=> 100 * Twice(i, s) >= cutoff * (Twice(i, s) + Against(i, s))
       /\ LET met == {tier \in DOMAIN Threshold : Meets(i, s, Threshold[tier])}
          IN  /\ Tier(i, s) \in 1..5
              /\ met = {} => Tier(i, s) = 1
              /\ met # {} => Tier(i, s) \in met /\ \A other \in met : other <= Tier(i, s)

LEMMA RanksCount == Types => RankFacts
<1> SUFFICES ASSUME Types, NEW i \in Indices, NEW s \in Population(i)
             PROVE  /\ IsFiniteSet(Below(i, s)) /\ IsFiniteSet(AtOrBelow(i, s))
                    /\ IsFiniteSet(Above(i, s)) /\ IsFiniteSet(AtOrAbove(i, s))
                    /\ Cardinality(Below(i, s)) \in Nat
                    /\ Cardinality(AtOrBelow(i, s)) \in Nat \ {0}
                    /\ Cardinality(Above(i, s)) \in Nat /\ Cardinality(AtOrAbove(i, s)) \in Nat
                    /\ \A cutoff \in Nat :
                         Meets(i, s, cutoff) <=>
                           100 * Twice(i, s) >= cutoff * (Twice(i, s) + Against(i, s))
  BY TierIsHighest DEF RankFacts
<1> DEFINE n == Cardinality(Population(i))
           b == Cardinality(Below(i, s))
           t == Cardinality(Ties(i, s))
           l == Cardinality(AtOrBelow(i, s))
           h == Cardinality(AtOrAbove(i, s))
           a == Cardinality(Above(i, s))
<1>1. n \in Nat /\ b \in Nat /\ t \in Nat /\ l = b + t /\ h = n - b
  BY RankArithmetic
<1>2. /\ IsFiniteSet(Population(i)) /\ IsFiniteSet(Below(i, s)) /\ IsFiniteSet(AtOrBelow(i, s))
      /\ IsFiniteSet(Above(i, s)) /\ IsFiniteSet(AtOrAbove(i, s))
  BY SlugsAssumption, FS_Subset DEF Population, Below, AtOrBelow, Above, AtOrAbove
<1>3. l \in Nat /\ h \in Nat /\ a \in Nat
  BY <1>2, FS_CardinalityType
<1>4. n = l + a
  <2>1. /\ Population(i) = AtOrBelow(i, s) \cup Above(i, s)
        /\ AtOrBelow(i, s) \cap Above(i, s) = {}
    BY DEF AtOrBelow, Above
  <2> QED
    BY <1>2, <2>1, DisjointUnion
<1>5. l # 0
  <2>1. reports[s][i] \in Int
    BY ScoresAssumption DEF Types, Population
  <2>2. s \in AtOrBelow(i, s)
    BY <2>1 DEF AtOrBelow
  <2> QED
    BY <1>2, <2>2, FS_EmptySet
<1>6. ASSUME NEW cutoff \in Nat
      PROVE  Meets(i, s, cutoff) <=> 100 * (b + l) >= cutoff * ((b + l) + (a + h))
  <2>1. Meets(i, s, cutoff) <=> 100 * (2 * b + t) >= 2 * cutoff * n
    BY DEF Meets
  <2> HIDE DEF n, b, t, l, h, a
  <2>2. 2 * b + t = b + l /\ 2 * n = (b + l) + (a + h)
    BY <1>1, <1>3, <1>4
  <2>3. 2 * cutoff * n = cutoff * (2 * n)
    BY <1>1
  <2> QED
    BY <2>1, <2>2, <2>3
<1> QED
  BY <1>1, <1>2, <1>3, <1>5, <1>6 DEF Twice, Against

(* TierFallsHaveCauses: a model whose own value stays falls in tier only   *)
(* when some rival's value rises or appears, or a rival it beats or equals *)
(* drops out.                                                              *)
THEOREM NoFallWithoutACause == Spec => TierFallsHaveCauses
<1>1. ASSUME RankFacts, RankFacts' PROVE FallsNeedACause
  <2> SUFFICES ASSUME NEW i \in Indices, NEW s \in Slugs,
                      reports[s][i] # None, reports'[s][i] = reports[s][i],
                      Tier(i, s)' < Tier(i, s),
                      \A p \in Slugs \ {s} :
                        reports'[p][i] # reports[p][i] =>
                          /\ ~(reports[p][i] # None /\ reports'[p][i] = None
                                 /\ reports[p][i] <= reports[s][i])
                          /\ ~(reports[p][i] = None /\ reports'[p][i] >= reports[s][i])
                          /\ ~(reports[p][i] # None /\ reports'[p][i] # None
                                 /\ reports'[p][i] > reports[p][i])
               PROVE  FALSE
    BY DEF FallsNeedACause
  <2>1. s \in Population(i) /\ s \in Population(i)'
    BY DEF Population
  <2>2. /\ \A p \in Slugs : reports[p][i] \in Scores \cup {None}
        /\ \A p \in Slugs : reports'[p][i] \in Scores \cup {None}
    BY <1>1 DEF RankFacts, Types
  <2>3. /\ \A p \in Slugs : reports[p][i] \in Int \cup {None}
        /\ \A p \in Slugs : reports'[p][i] \in Int \cup {None}
        /\ reports[s][i] \in Int
    BY <2>2, ScoresAssumption
  <2>4. /\ Below(i, s) \subseteq Below(i, s)' /\ AtOrBelow(i, s) \subseteq AtOrBelow(i, s)'
        /\ Above(i, s)' \subseteq Above(i, s) /\ AtOrAbove(i, s)' \subseteq AtOrAbove(i, s)
    BY <2>1, <2>3, ScoresAssumption DEF Below, AtOrBelow, Above, AtOrAbove, Population
  <2>5. /\ IsFiniteSet(Below(i, s)') /\ IsFiniteSet(AtOrBelow(i, s)')
        /\ IsFiniteSet(Above(i, s)) /\ IsFiniteSet(AtOrAbove(i, s))
    BY <1>1, <2>1 DEF RankFacts
  <2> PICK x \in Nat : x = Twice(i, s) /\ x >= 1
    BY <1>1, <2>1 DEF RankFacts, Twice
  <2> PICK y \in Nat : y = Against(i, s)
    BY <1>1, <2>1 DEF RankFacts, Against
  <2> PICK u \in Nat : u = Twice(i, s)'
    BY <1>1, <2>1 DEF RankFacts, Twice
  <2> PICK v \in Nat : v = Against(i, s)'
    BY <1>1, <2>1 DEF RankFacts, Against
  <2>6. x <= u /\ v <= y
    <3>1. /\ Cardinality(Below(i, s)) <= Cardinality(Below(i, s)')
          /\ Cardinality(AtOrBelow(i, s)) <= Cardinality(AtOrBelow(i, s)')
          /\ Cardinality(Above(i, s)') <= Cardinality(Above(i, s))
          /\ Cardinality(AtOrAbove(i, s)') <= Cardinality(AtOrAbove(i, s))
      BY <2>4, <2>5, FS_Subset
    <3>2. /\ Cardinality(Below(i, s)) \in Nat /\ Cardinality(AtOrBelow(i, s)) \in Nat
          /\ Cardinality(Above(i, s)) \in Nat /\ Cardinality(AtOrAbove(i, s)) \in Nat
          /\ Cardinality(Below(i, s)') \in Nat /\ Cardinality(AtOrBelow(i, s)') \in Nat
          /\ Cardinality(Above(i, s)') \in Nat /\ Cardinality(AtOrAbove(i, s)') \in Nat
      BY <1>1, <2>1 DEF RankFacts
    <3> QED
      BY <3>1, <3>2 DEF Twice, Against
  <2>7. ASSUME NEW cutoff \in Nat, Meets(i, s, cutoff)
        PROVE  Meets(i, s, cutoff)'
    <3>1. 100 * x >= cutoff * (x + y)
      BY <1>1, <2>1, <2>7 DEF RankFacts
    <3>2. 100 * u >= cutoff * (u + v)
      BY <2>6, <3>1, BetterRankMeetsMore
    <3> QED
      BY <1>1, <2>1, <3>2 DEF RankFacts
  <2> DEFINE met == {tier \in DOMAIN Threshold : Meets(i, s, Threshold[tier])}
  <2>8. met \subseteq met'
    BY <2>7, ThresholdAssumption
  <2>9. /\ Tier(i, s) \in 1..5 /\ Tier(i, s)' \in 1..5
        /\ met = {} => Tier(i, s) = 1
        /\ met # {} => Tier(i, s) \in met
        /\ met' # {} => \A other \in met' : other <= Tier(i, s)'
    BY <1>1, <2>1 DEF RankFacts
  <2> HIDE DEF met
  <2> QED
    BY <2>8, <2>9
<1>2. Init => Types
  BY DEF Init, Types
<1>3. Types /\ [Next]_reports => Types'
  BY DEF Types, Next, Report
<1> QED
  BY <1>1, <1>2, <1>3, RanksCount, PTL DEF Spec, TierFallsHaveCauses

-----------------------------------------------------------------------------
(***************************************************************************)
(* The merge.                                                              *)
(***************************************************************************)
USE ModelsAssumption, AliasAssumption, ListableAssumption

Fields == {"tiers", "indices", "scores", "speed", "tags", "has"}

CardsInv ==
  /\ DOMAIN openrouter \subseteq Models /\ \A m \in DOMAIN openrouter : openrouter[m] \in Listable
  /\ DOMAIN local \subseteq Models /\ \A m \in DOMAIN local : local[m] \in Listable

-----------------------------------------------------------------------------
(***************************************************************************)
(* The layers of the merge.                                                *)
(***************************************************************************)
LEMMA QualityLayer ==
  ASSUME NEW m, NEW card, DOMAIN card = Fields, m # None
  PROVE  LET q == WithQuality(m, card)
         IN  /\ DOMAIN q = Fields /\ q.has = card.has /\ q.tags = card.tags
             /\ SlugOf(m) = {} => q = card
             /\ \A s \in SlugOf(m) :
                  /\ q.indices = RecordOf(s).indices
                  /\ q.scores = Update(card.scores, RecordOf(s).scores)
                  /\ q.speed = IF RecordOf(s).speed = None THEN card.speed ELSE RecordOf(s).speed
                  /\ q.tiers = Update(card.tiers, Derived(s))
<1>1. CASE SlugOf(m) = {}
  BY <1>1 DEF WithQuality
<1>2. CASE SlugOf(m) # {}
  <2> DEFINE s == CHOOSE p \in SlugOf(m) : TRUE
  <2>1. s \in SlugOf(m)
    BY <1>2
  <2>2. ASSUME NEW p \in SlugOf(m) PROVE p = s
    BY <2>1 DEF SlugOf
  <2>3. WithQuality(m, card) =
          [card EXCEPT !.indices = RecordOf(s).indices,
                       !.scores = Update(@, RecordOf(s).scores),
                       !.speed = IF RecordOf(s).speed = None THEN @ ELSE RecordOf(s).speed,
                       !.tiers = Update(@, Derived(s))]
    BY <1>2 DEF WithQuality
  <2> HIDE DEF s
  <2> QED
    BY <1>2, <2>2, <2>3 DEF Fields
<1> QED
  BY <1>1, <1>2

LEMMA OverridesLayer ==
  ASSUME NEW m, NEW card, DOMAIN card = Fields
  PROVE  LET o == WithOverrides(m, card)
         IN  /\ DOMAIN o = Fields /\ o.has = card.has
             /\ o.indices = card.indices /\ o.speed = card.speed
             /\ m \notin DOMAIN curated => o = card
             /\ m \in DOMAIN curated =>
                  /\ o.tiers = Update(card.tiers, curated[m].tiers)
                  /\ o.scores = Update(card.scores, curated[m].scores)
                  /\ o.tags = card.tags \cup curated[m].tags
  BY DEF WithOverrides, Fields

LEMMA SignalsLayer ==
  ASSUME NEW card, DOMAIN card = Fields
  PROVE  LET w == WithSignals(card)
         IN  /\ DOMAIN w = Fields /\ w.has = card.has
             /\ w.indices = card.indices /\ w.speed = card.speed /\ w.scores = card.scores
             /\ w.tags = card.tags \cup (card.has \cap {"structured_outputs"})
             /\ w.tiers = IF "tools" \in card.has /\ Agentic \notin DOMAIN card.tiers
                            THEN Put(card.tiers, Agentic, 2) ELSE card.tiers
  BY DEF WithSignals, Signals, Fields

LEMMA BaseCards ==
  ASSUME CardsInv, NEW m \in DOMAIN Base
  PROVE  m \in Models /\ m # None /\ DOMAIN Base[m] = Fields
<1>1. /\ DOMAIN Base = DOMAIN openrouter \cup DOMAIN local
      /\ m \in DOMAIN local => Base[m] = local[m]
      /\ m \notin DOMAIN local => Base[m] = openrouter[m]
  BY DEF Base, Update
<1>2. Base[m] \in Listable /\ m \in Models
  BY <1>1 DEF CardsInv
<1> QED
  BY <1>2 DEF Fields

LEMMA SlugIsUnique ==
  ASSUME NEW m, m # None, NEW s \in SlugOf(m)
  PROVE  SlugOf(m) = {s}
  BY DEF SlugOf

(* w is what base card b of model m is served as; q has its record, and o  *)
(* also its override.                                                      *)
Layered(m, b, q, o, w) ==
  /\ w.has = b.has /\ w.indices = q.indices /\ w.speed = q.speed /\ w.scores = o.scores
  /\ SlugOf(m) = {} => q = b
  /\ \A s \in SlugOf(m) :
       /\ q.indices = RecordOf(s).indices
       /\ q.scores = Update(b.scores, RecordOf(s).scores)
       /\ q.speed = IF RecordOf(s).speed = None THEN b.speed ELSE RecordOf(s).speed
       /\ q.tiers = Update(b.tiers, Derived(s))
  /\ m \notin DOMAIN curated => o.tiers = q.tiers /\ o.scores = q.scores /\ o.tags = b.tags
  /\ m \in DOMAIN curated => /\ o.tiers = Update(q.tiers, curated[m].tiers)
                             /\ o.scores = Update(q.scores, curated[m].scores)
                             /\ o.tags = b.tags \cup curated[m].tags
  /\ w.tags = o.tags \cup (b.has \cap {"structured_outputs"})
  /\ w.tiers = IF "tools" \in b.has /\ Agentic \notin DOMAIN o.tiers
                 THEN Put(o.tiers, Agentic, 2) ELSE o.tiers

LEMMA ServedIsLayered ==
  ASSUME CardsInv, NEW m \in DOMAIN Served
  PROVE  \E q, o : Layered(m, Base[m], q, o, Served[m])
<1> DEFINE b == Base[m]
           q == WithQuality(m, b)
           o == WithOverrides(m, q)
           w == WithSignals(o)
<1>1. m # None /\ DOMAIN b = Fields /\ Served[m] = w
  BY BaseCards DEF Served
<1> HIDE DEF b
<1>2. /\ DOMAIN q = Fields /\ q.has = b.has /\ q.tags = b.tags
      /\ SlugOf(m) = {} => q = b
      /\ \A s \in SlugOf(m) :
           /\ q.indices = RecordOf(s).indices
           /\ q.scores = Update(b.scores, RecordOf(s).scores)
           /\ q.speed = IF RecordOf(s).speed = None THEN b.speed ELSE RecordOf(s).speed
           /\ q.tiers = Update(b.tiers, Derived(s))
  BY <1>1, QualityLayer
<1> HIDE DEF q
<1>3. /\ DOMAIN o = Fields /\ o.has = q.has /\ o.indices = q.indices /\ o.speed = q.speed
      /\ m \notin DOMAIN curated => o = q
      /\ m \in DOMAIN curated =>
           /\ o.tiers = Update(q.tiers, curated[m].tiers)
           /\ o.scores = Update(q.scores, curated[m].scores)
           /\ o.tags = q.tags \cup curated[m].tags
  BY <1>2, OverridesLayer
<1> HIDE DEF o
<1>4. /\ w.has = o.has /\ w.indices = o.indices /\ w.speed = o.speed /\ w.scores = o.scores
      /\ w.tags = o.tags \cup (o.has \cap {"structured_outputs"})
      /\ w.tiers = IF "tools" \in o.has /\ Agentic \notin DOMAIN o.tiers
                     THEN Put(o.tiers, Agentic, 2) ELSE o.tiers
  BY <1>3, SignalsLayer
<1> HIDE DEF w
<1>5. Layered(m, b, q, o, w)
  BY <1>2, <1>3, <1>4 DEF Layered
<1> QED
  BY <1>1, <1>5 DEF b

(* What a served card has a tier, a score, a tag or a speed from.          *)
CuratedTiers(m) == IF m \in DOMAIN curated THEN DOMAIN curated[m].tiers ELSE {}
Described(m, card, base) ==
  /\ DOMAIN card.tiers =
       UNION { DOMAIN base.tiers, CuratedTiers(m),
               {i \in Indices : \E s \in SlugOf(m) : reports[s][i] # None},
               IF "tools" \in base.has THEN {Agentic} ELSE {} }
  /\ DOMAIN card.scores =
       UNION { DOMAIN base.scores,
               UNION {DOMAIN RecordOf(s).scores : s \in SlugOf(m)},
               IF m \in DOMAIN curated THEN DOMAIN curated[m].scores ELSE {} }
  /\ card.tags =
       UNION { base.tags, base.has \cap {"structured_outputs"},
               IF m \in DOMAIN curated THEN curated[m].tags ELSE {} }
  /\ card.speed # None <=>
       base.speed # None \/ \E s \in SlugOf(m) : RecordOf(s).speed # None

AllDescribed == \A m \in DOMAIN Served : Described(m, Served[m], Base[m])

LEMMA ServedIsDescribed == CardsInv => AllDescribed
<1> SUFFICES ASSUME CardsInv, NEW m \in DOMAIN Served
             PROVE  Described(m, Served[m], Base[m])
  BY DEF AllDescribed
<1> DEFINE b == Base[m]
           w == Served[m]
<1>1. m # None
  BY BaseCards DEF Served
<1>2. PICK q, o : Layered(m, b, q, o, w)
  BY ServedIsLayered
<1> HIDE DEF b, w
<1> USE DEF Layered
<1>3. DOMAIN w.tiers = UNION { DOMAIN b.tiers, CuratedTiers(m),
               {i \in Indices : \E s \in SlugOf(m) : reports[s][i] # None},
               IF "tools" \in b.has THEN {Agentic} ELSE {} }
  <2>1. DOMAIN q.tiers = DOMAIN b.tiers \cup
          {i \in Indices : \E s \in SlugOf(m) : reports[s][i] # None}
    <3>1. CASE SlugOf(m) = {}
      BY <1>2, <3>1
    <3>2. ASSUME NEW s \in SlugOf(m)
          PROVE  DOMAIN q.tiers = DOMAIN b.tiers \cup
                   {i \in Indices : \E p \in SlugOf(m) : reports[p][i] # None}
      <4>1. DOMAIN Derived(s) = {j \in Indices : reports[s][j] # None}
        BY DEF Derived
      <4>2. SlugOf(m) = {s}
        BY <1>1, SlugIsUnique
      <4> QED
        BY <1>2, <4>1, <4>2 DEF Update
    <3> QED
      BY <3>1, <3>2
  <2>2. DOMAIN o.tiers = DOMAIN q.tiers \cup CuratedTiers(m)
    BY <1>2 DEF CuratedTiers, Update
  <2>3. DOMAIN w.tiers = DOMAIN o.tiers \cup IF "tools" \in b.has THEN {Agentic} ELSE {}
    BY <1>2 DEF Put, Update
  <2> QED
    BY <2>1, <2>2, <2>3
<1>4. DOMAIN w.scores =
        UNION { DOMAIN b.scores,
                UNION {DOMAIN RecordOf(s).scores : s \in SlugOf(m)},
                IF m \in DOMAIN curated THEN DOMAIN curated[m].scores ELSE {} }
  <2>1. DOMAIN q.scores = DOMAIN b.scores \cup
          UNION {DOMAIN RecordOf(s).scores : s \in SlugOf(m)}
    <3>1. CASE SlugOf(m) = {}
      BY <1>2, <3>1
    <3>2. ASSUME NEW s \in SlugOf(m)
          PROVE  DOMAIN q.scores = DOMAIN b.scores \cup
                   UNION {DOMAIN RecordOf(p).scores : p \in SlugOf(m)}
      <4>1. SlugOf(m) = {s}
        BY <1>1, SlugIsUnique
      <4> QED
        BY <1>2, <4>1 DEF Update
    <3> QED
      BY <3>1, <3>2
  <2>2. DOMAIN o.scores = DOMAIN q.scores \cup
          IF m \in DOMAIN curated THEN DOMAIN curated[m].scores ELSE {}
    BY <1>2 DEF Update
  <2> QED
    BY <1>2, <2>1, <2>2
<1>5. w.tags = UNION { b.tags, b.has \cap {"structured_outputs"},
                       IF m \in DOMAIN curated THEN curated[m].tags ELSE {} }
  BY <1>2
<1>6. w.speed # None <=> b.speed # None \/ \E s \in SlugOf(m) : RecordOf(s).speed # None
  <2>1. CASE SlugOf(m) = {}
    BY <1>2, <2>1
  <2>2. ASSUME NEW s \in SlugOf(m)
        PROVE  w.speed # None <=> b.speed # None \/ \E p \in SlugOf(m) : RecordOf(p).speed # None
    <3>1. SlugOf(m) = {s}
      BY <1>1, SlugIsUnique
    <3> QED
      BY <1>2, <3>1
  <2> QED
    BY <2>1, <2>2
<1> QED
  BY <1>3, <1>4, <1>5, <1>6 DEF Described, b, w

-----------------------------------------------------------------------------
(***************************************************************************)
(* The invariant.                                                          *)
(***************************************************************************)
LEMMA InitCards == ASSUME CatalogInit PROVE CardsInv
  BY DEF CatalogInit, CardsInv, Nothing

LEMMA StepCards == ASSUME CardsInv, [CatalogNext]_vars PROVE CardsInv'
<1> USE DEF CardsInv
<1>1. CASE QualityChanges
  BY <1>1 DEF QualityChanges
<1>2. ASSUME NEW m \in Models, OpenRouterChanges(m)
      PROVE  CardsInv'
  <2>1. ASSUME NEW card \in Listable, openrouter' = Put(openrouter, m, card)
        PROVE  CardsInv'
    BY <1>2, <2>1 DEF OpenRouterChanges, Put, Update
  <2>2. CASE openrouter' = Drop(openrouter, m)
    BY <1>2, <2>2 DEF OpenRouterChanges, Drop
  <2> QED
    BY <1>2, <2>1, <2>2 DEF OpenRouterChanges
<1>3. ASSUME NEW m \in Models, LocalChanges(m)
      PROVE  CardsInv'
  <2>1. ASSUME NEW card \in Listable, local' = Put(local, m, card)
        PROVE  CardsInv'
    BY <1>3, <2>1 DEF LocalChanges, Put, Update
  <2>2. CASE local' = Drop(local, m)
    BY <1>3, <2>2 DEF LocalChanges, Drop
  <2> QED
    BY <1>3, <2>1, <2>2 DEF LocalChanges
<1>4. ASSUME NEW m \in Models, CuratorEdits(m)
      PROVE  CardsInv'
  BY <1>4 DEF CuratorEdits
<1>5. CASE UNCHANGED vars
  BY <1>5 DEF vars
<1> QED
  BY <1>1, <1>2, <1>3, <1>4, <1>5 DEF CatalogNext

LEMMA CardsHold == CatalogSpec => []CardsInv
<1>1. CatalogInit => CardsInv
  BY InitCards
<1>2. CardsInv /\ [CatalogNext]_vars => CardsInv'
  BY StepCards
<1> QED
  BY <1>1, <1>2, PTL DEF CatalogSpec

-----------------------------------------------------------------------------
(***************************************************************************)
(* Theorems.                                                               *)
(***************************************************************************)
(* overrides.yaml always wins: a curated tier or score is the one served,  *)
(* and a curated tag is there, whatever the other layers wrote.            *)
THEOREM OverridesHaveFinalSay == CatalogSpec => []CuratedWins
<1>1. CardsInv => CuratedWins
  <2> SUFFICES ASSUME CardsInv, NEW m \in DOMAIN Served \cap DOMAIN curated
               PROVE  /\ \A c \in DOMAIN curated[m].tiers :
                           Served[m].tiers[c] = curated[m].tiers[c]
                      /\ \A e \in DOMAIN curated[m].scores :
                           Served[m].scores[e] = curated[m].scores[e]
                      /\ curated[m].tags \subseteq Served[m].tags
    BY DEF CuratedWins
  <2> DEFINE b == Base[m]
             w == Served[m]
  <2>1. PICK q, o : Layered(m, b, q, o, w)
    BY ServedIsLayered
  <2> HIDE DEF b, w
  <2>2. ASSUME NEW c \in DOMAIN curated[m].tiers
        PROVE  w.tiers[c] = curated[m].tiers[c]
    <3>1. c \in DOMAIN o.tiers /\ o.tiers[c] = curated[m].tiers[c]
      BY <2>1 DEF Layered, Update
    <3> QED
      BY <2>1, <3>1 DEF Layered, Put, Update
  <2>3. ASSUME NEW e \in DOMAIN curated[m].scores
        PROVE  w.scores[e] = curated[m].scores[e]
    BY <2>1 DEF Layered, Update
  <2>4. curated[m].tags \subseteq w.tags
    BY <2>1 DEF Layered
  <2> QED
    BY <2>2, <2>3, <2>4 DEF w
<1> QED
  BY <1>1, CardsHold, PTL

(* A tier served that nobody curated is explained by the card it is served *)
(* on: by the index shown there, by the base card, or by tool support.     *)
THEOREM NoTierFromNowhere == CatalogSpec => []TiersAreExplained
<1>1. CardsInv => TiersAreExplained
  <2> DEFINE b(m) == Base[m]
             w(m) == Served[m]
             Explained(m, c) ==
               \/ Curates(m, c)
               \/ \E s \in SlugOf(m) :
                    /\ c \in DOMAIN w(m).indices
                    /\ w(m).indices[c] = reports[s][c] /\ w(m).tiers[c] = Tier(c, s)
               \/ /\ c \in DOMAIN b(m).tiers /\ w(m).tiers[c] = b(m).tiers[c]
                  /\ c \notin DOMAIN w(m).indices \/ w(m).indices = b(m).indices
               \/ c = Agentic /\ "tools" \in w(m).has /\ w(m).tiers[c] = 2
  <2> SUFFICES ASSUME CardsInv, NEW m \in DOMAIN Served, NEW c \in DOMAIN w(m).tiers
               PROVE  Explained(m, c)
    BY DEF TiersAreExplained
  <2>1. PICK q, o : Layered(m, b(m), q, o, w(m))
    BY ServedIsLayered
  <2>2. m # None
    BY BaseCards DEF Served
  <2> HIDE DEF b, w
  <2>3. CASE c \notin DOMAIN o.tiers
    BY <2>1, <2>3 DEF Layered, Put, Update
  <2>4. CASE c \in DOMAIN o.tiers /\ ~Curates(m, c)
    <3>1. /\ w(m).tiers[c] = o.tiers[c] /\ c \in DOMAIN q.tiers /\ o.tiers[c] = q.tiers[c]
      BY <2>1, <2>4 DEF Layered, Curates, Put, Update
    <3>2. CASE SlugOf(m) = {}
      BY <2>1, <3>1, <3>2 DEF Layered
    <3>3. ASSUME NEW s \in SlugOf(m)
          PROVE  Explained(m, c)
      <4>1. /\ q.tiers = Update(b(m).tiers, Derived(s))
            /\ w(m).indices = RecordOf(s).indices
        BY <2>1 DEF Layered
      <4>2. RecordOf(s).indices = [i \in {j \in Indices : reports[s][j] # None} |-> reports[s][i]]
        BY DEF RecordOf
      <4>3. CASE c \in Indices /\ reports[s][c] # None
        BY <3>1, <4>1, <4>2, <4>3 DEF Derived, Update
      <4>4. CASE ~(c \in Indices /\ reports[s][c] # None)
        BY <3>1, <4>1, <4>2, <4>4 DEF Derived, Update
      <4> QED
        BY <4>3, <4>4
    <3> QED
      BY <3>2, <3>3
  <2> QED
    BY <2>3, <2>4
<1> QED
  BY <1>1, CardsHold, PTL

(* Knowing more of models takes nothing off their cards: when a record     *)
(* arrives, grows or is revised, or an override is added, every model      *)
(* keeps a tier where it had one, every score, its tags and a speed.       *)
THEOREM KnowingMoreLosesNothing == CatalogSpec => EnrichmentOnlyAdds
<1> DEFINE Adds == MoreIsKnown => LET before == Served
                                      after == Served'
                                  IN  \A m \in DOMAIN before :
                                        \E later \in {after[m]} : Keeps(before[m], later)
<1>1. ASSUME AllDescribed, AllDescribed' PROVE Adds
  <2> SUFFICES ASSUME MoreIsKnown, NEW m \in DOMAIN Served
               PROVE  Keeps(Served[m], Served'[m])
    OBVIOUS
  <2>1. DOMAIN Served' = DOMAIN Base' /\ Base' = Base /\ DOMAIN Served = DOMAIN Base
    BY DEF MoreIsKnown, Base, Update, Served
  <2> PICK b : b = Base[m]
    OBVIOUS
  <2> PICK card : card = Served[m]
    OBVIOUS
  <2> PICK later : later = Served'[m]
    OBVIOUS
  <2>2. Described(m, card, b)
    BY <1>1 DEF AllDescribed
  <2>3. Described(m, later, b)'
    BY <1>1, <2>1 DEF AllDescribed
  <2>4. \A s \in SlugOf(m) : s \in SlugOf(m)' /\ s \in Slugs
    BY DEF SlugOf, HasRecord, MoreIsKnown
  <2>5. DOMAIN card.tiers \subseteq DOMAIN later.tiers
    <3>1. CuratedTiers(m) \subseteq CuratedTiers(m)'
      BY DEF CuratedTiers, MoreIsKnown
    <3>2. \A i \in Indices, s \in SlugOf(m) : reports[s][i] # None => reports'[s][i] # None
      BY <2>4 DEF MoreIsKnown
    <3> QED
      BY <2>2, <2>3, <2>4, <3>1, <3>2 DEF Described
  <2>6. DOMAIN card.scores \subseteq DOMAIN later.scores
    <3>1. \A s \in SlugOf(m) : DOMAIN RecordOf(s).scores \subseteq DOMAIN RecordOf(s).scores'
      BY <2>4 DEF MoreIsKnown, RecordOf, Nothing
    <3> QED
      BY <2>2, <2>3, <2>4, <3>1 DEF Described, MoreIsKnown
  <2>7. card.tags \subseteq later.tags
    BY <2>2, <2>3 DEF Described, MoreIsKnown
  <2>8. card.speed # None => later.speed # None
    <3>1. \A s \in SlugOf(m) : RecordOf(s).speed # None => RecordOf(s).speed' # None
      BY <2>4 DEF MoreIsKnown, RecordOf
    <3> QED
      BY <2>2, <2>3, <2>4, <3>1 DEF Described
  <2> QED
    BY <2>5, <2>6, <2>7, <2>8 DEF Keeps
<1>2. CardsInv => AllDescribed
  BY ServedIsDescribed
<1> QED
  BY <1>1, <1>2, CardsHold, PTL DEF EnrichmentOnlyAdds

(* A local card stands for its model altogether: while it is there,        *)
(* whatever OpenRouter lists or withdraws changes nothing that is served   *)
(* of that model.                                                          *)
THEOREM LocalCardsStand == CatalogSpec => LocalCardsShadow
<1> DEFINE Shadowed ==
      \A m \in DOMAIN local \cap DOMAIN local' :
        reports' = reports /\ measured' = measured /\ local' = local /\ curated' = curated
          => Served'[m] = Served[m]
<1>1. Shadowed
  <2> SUFFICES ASSUME NEW m \in DOMAIN local,
                      UNCHANGED <<reports, measured, local, curated>>
               PROVE  Served'[m] = Served[m]
    OBVIOUS
  <2>1. ASSUME NEW s \in Slugs
        PROVE  RecordOf(s)' = RecordOf(s) /\ Derived(s)' = Derived(s)
    <3>1. ASSUME NEW i \in Indices
          PROVE  Tier(i, s)' = Tier(i, s)
      <4>1. \A cutoff : Meets(i, s, cutoff)' = Meets(i, s, cutoff)
        BY DEF Meets, Below, Ties, Population
      <4> DEFINE met == {tier \in DOMAIN Threshold : Meets(i, s, Threshold[tier])}
                 Top(M) == IF M = {} THEN 1 ELSE CHOOSE tier \in M : \A other \in M : other <= tier
      <4>2. met' = met
        BY <4>1
      <4>3. Tier(i, s) = Top(met) /\ Tier(i, s)' = Top(met')
        BY DEF Tier
      <4> HIDE DEF met, Top
      <4> QED
        BY <4>2, <4>3
    <3> QED
      BY <3>1 DEF RecordOf, Derived
  <2>2. SlugOf(m)' = SlugOf(m)
    BY DEF SlugOf, HasRecord
  <2> DEFINE Chosen(S) == CHOOSE p \in S : TRUE
             Recorded(card, r, d) ==
               [card EXCEPT !.indices = r.indices,
                            !.scores = Update(@, r.scores),
                            !.speed = IF r.speed = None THEN @ ELSE r.speed,
                            !.tiers = Update(@, d)]
  <2>3. ASSUME NEW card
        PROVE  WithQuality(m, card)' = WithQuality(m, card)
    <3> PICK S : S = SlugOf(m)
      OBVIOUS
    <3> PICK s : s = Chosen(S)
      OBVIOUS
    <3>1. WithQuality(m, card) =
            IF S = {} THEN card ELSE Recorded(card, RecordOf(s), Derived(s))
      BY DEF WithQuality
    <3>2. WithQuality(m, card)' =
            IF S = {} THEN card ELSE Recorded(card, RecordOf(s)', Derived(s)')
      BY <2>2 DEF WithQuality
    <3>3. S # {} => s \in Slugs
      BY DEF SlugOf
    <3> HIDE DEF Recorded
    <3> QED
      BY <2>1, <3>1, <3>2, <3>3
  <2>4. ASSUME NEW card
        PROVE  WithOverrides(m, card)' = WithOverrides(m, card)
    BY DEF WithOverrides
  <2>5. /\ Served[m] = WithSignals(WithOverrides(m, WithQuality(m, local[m])))
        /\ Served'[m] = WithSignals(WithOverrides(m, WithQuality(m, local[m])))'
    BY DEF Served, Base, Update
  <2> QED
    BY <2>3, <2>4, <2>5
<1> QED
  BY <1>1, PTL DEF LocalCardsShadow
=============================================================================
