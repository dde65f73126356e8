---------------------------- MODULE QueriesProofs ----------------------------
(***************************************************************************)
(* Theorems about Queries, for any ids, cards and weights and any top_n.   *)
(* Each ranking is a linear order of the candidates, however many there    *)
(* are, so it has a first one, and each place in it is taken.              *)
(***************************************************************************)
EXTENDS Queries, RanksAndSums

USE IdsAssumption

-----------------------------------------------------------------------------
(***************************************************************************)
(* The three orders.                                                       *)
(***************************************************************************)
ByThree(t, e, p, m, n) ==
  \/ t[m] > t[n]
  \/ t[m] = t[n] /\ \/ e[m] > e[n]
                    \/ e[m] = e[n] /\ (p[m] < p[n] \/ (p[m] = p[n] /\ m < n))

LEMMA LexOfThreeIsLinear ==
  ASSUME NEW D \in SUBSET Int, NEW R, NEW t \in [D -> Int], NEW e \in [D -> Int],
         NEW p \in [D -> Int], \A m, n \in D : <<m, n>> \in R <=> ByThree(t, e, p, m, n)
  PROVE  Linear(R, D)
<1>1. \A x \in D : x \in Int /\ t[x] \in Int /\ e[x] \in Int /\ p[x] \in Int
  OBVIOUS
<1>2. /\ \A x \in D : <<x, x>> \notin R
      /\ \A x, y \in D : x # y => <<x, y>> \in R \/ <<y, x>> \in R
  BY <1>1 DEF ByThree
<1>3. ASSUME NEW x \in D, NEW y \in D, NEW z \in D, <<x, y>> \in R, <<y, z>> \in R
      PROVE  <<x, z>> \in R
  BY <1>1, <1>3 DEF ByThree
<1> QED
  BY <1>2, <1>3 DEF Linear

(* Quotients compared by cross-multiplying. *)
LEMMA QuotientsAreTransitive ==
  ASSUME NEW a \in Int, NEW b \in Int, NEW c \in Int,
         NEW x \in Nat \ {0}, NEW y \in Nat \ {0}, NEW z \in Nat \ {0},
         a * y >= b * x, b * z >= c * y
  PROVE  /\ a * z >= c * x
         /\ a * y > b * x \/ b * z > c * y => a * z > c * x
<1>1. (a * z - c * x) * y = (a * y - b * x) * z + (b * z - c * y) * x
  OBVIOUS
<1> PICK u \in Nat : u = a * y - b * x
  OBVIOUS
<1> PICK v \in Nat : v = b * z - c * y
  OBVIOUS
<1> PICK d \in Int : d = a * z - c * x
  OBVIOUS
<1>2. d * y = u * z + v * x
  BY <1>1
<1>3. u * z + v * x \in Nat /\ (u > 0 \/ v > 0 => u * z + v * x > 0)
  <2>1. \A i \in Nat, j \in Nat \ {0} : i * j \in Nat /\ (i > 0 => i * j > 0)
    OBVIOUS
  <2>2. u * z \in Nat /\ (u > 0 => u * z > 0) /\ v * x \in Nat /\ (v > 0 => v * x > 0)
    BY <2>1
  <2> QED
    BY <2>2
<1>4. \A i \in Int, j \in Nat \ {0} : (i * j >= 0 => i >= 0) /\ (i * j > 0 => i > 0)
  OBVIOUS
<1>5. d * y >= 0 => d >= 0
  BY <1>4
<1>6. d * y > 0 => d > 0
  BY <1>4
<1>7. d >= 0 /\ (u > 0 \/ v > 0 => d > 0)
  BY <1>2, <1>3, <1>5, <1>6
<1> QED
  BY <1>7

LEMMA QuotientsAreLinear ==
  ASSUME NEW D \in SUBSET Int, NEW R, NEW t \in [D -> Int], NEW f \in [D -> Nat \ {0}],
         \A m, n \in D : <<m, n>> \in R <=>
           t[m] * f[n] > t[n] * f[m] \/ (t[m] * f[n] = t[n] * f[m] /\ m < n)
  PROVE  Linear(R, D)
<1>1. \A m, n \in D : t[m] * f[n] \in Int
  OBVIOUS
<1>2. \A x \in D : <<x, x>> \notin R
  BY <1>1
<1>3. \A x, y \in D : x # y => <<x, y>> \in R \/ <<y, x>> \in R
  BY <1>1
<1>4. ASSUME NEW x \in D, NEW y \in D, NEW z \in D, <<x, y>> \in R, <<y, z>> \in R
      PROVE  <<x, z>> \in R
  <2>1. /\ t[x] * f[y] >= t[y] * f[x] /\ t[y] * f[z] >= t[z] * f[y]
        /\ (t[x] * f[y] > t[y] * f[x] \/ t[y] * f[z] > t[z] * f[y]) \/ (x < y /\ y < z)
    BY <1>1, <1>4
  <2>2. /\ t[x] * f[z] >= t[z] * f[x]
        /\ t[x] * f[y] > t[y] * f[x] \/ t[y] * f[z] > t[z] * f[y] => t[x] * f[z] > t[z] * f[x]
    BY <2>1, QuotientsAreTransitive
  <2>3. x < y /\ y < z => x < z
    OBVIOUS
  <2> QED
    BY <1>1, <2>1, <2>2, <2>3
<1> QED
  BY <1>2, <1>3, <1>4 DEF Linear
-----------------------------------------------------------------------------
(***************************************************************************)
(* The catalog stays finite, and its cards are cards.                      *)
(***************************************************************************)
GoodCard(card) == /\ card.tier \in Int /\ card.input \in Int
                  /\ card.output \in Int /\ card.evidence \in Int

CatalogInv ==
  /\ IsFiniteSet(DOMAIN cards) /\ DOMAIN cards \in SUBSET Ids
  /\ \A m \in DOMAIN cards : GoodCard(cards[m])

LEMMA CatalogInvHolds == Spec => []CatalogInv
<1>1. Init => CatalogInv
  BY FS_EmptySet DEF Init, CatalogInv
<1>2. CatalogInv /\ [Next]_vars => CatalogInv'
  <2> SUFFICES ASSUME CatalogInv, [Next]_vars PROVE CatalogInv'
    OBVIOUS
  <2>1. ASSUME NEW m \in Ids, NEW card \in Cards, List(m, card)
        PROVE  CatalogInv'
    <3>1. GoodCard(card)
      BY CardsAssumption DEF GoodCard
    <3>2. /\ DOMAIN cards' = DOMAIN cards \cup {m}
          /\ \A n \in DOMAIN cards' : cards'[n] = IF n = m THEN card ELSE cards[n]
      BY <2>1 DEF List
    <3>3. IsFiniteSet(DOMAIN cards')
      BY <3>2, FS_AddElement DEF CatalogInv
    <3>4. \A n \in DOMAIN cards' : GoodCard(cards'[n])
      BY <3>1, <3>2 DEF CatalogInv
    <3>5. DOMAIN cards' \in SUBSET Ids
      BY <3>2 DEF CatalogInv
    <3> QED
      BY <3>3, <3>4, <3>5 DEF CatalogInv, GoodCard
  <2>2. ASSUME NEW m \in Ids, Delist(m)
        PROVE  CatalogInv'
    <3>1. /\ DOMAIN cards' = DOMAIN cards \ {m}
          /\ \A n \in DOMAIN cards' : cards'[n] = cards[n]
      BY <2>2 DEF Delist
    <3>2. IsFiniteSet(DOMAIN cards')
      BY <3>1, FS_RemoveElement DEF CatalogInv
    <3>3. \A n \in DOMAIN cards' : GoodCard(cards'[n])
      BY <3>1 DEF CatalogInv
    <3> QED
      BY <3>1, <3>2, <3>3 DEF CatalogInv, GoodCard
  <2>3. CASE NextDay
    BY <2>3 DEF NextDay, CatalogInv, GoodCard
  <2>4. CASE UNCHANGED vars
    BY <2>4 DEF vars, CatalogInv, GoodCard
  <2> QED
    BY <2>1, <2>2, <2>3, <2>4 DEF Next
<1> QED
  BY <1>1, <1>2, PTL DEF Spec

-----------------------------------------------------------------------------
(***************************************************************************)
(* Prices and candidates.                                                  *)
(***************************************************************************)
LEMMA EffectiveIsSound ==
  ASSUME NEW w \in Weights
  PROVE  /\ Effective(w).input \in Int /\ Effective(w).output \in Int
         /\ Divisor(w) \in Nat \ {0}
<1>1. Weight(w, "input") \in Int /\ Weight(w, "output") \in Int
  BY WeightsAssumption DEF Weight, DefaultWeights
<1> PICK i \in Int : i = Weight(w, "input")
  BY <1>1
<1> PICK o \in Int : o = Weight(w, "output")
  BY <1>1
<1> PICK full : full = [side \in {"input", "output"} |-> Weight(w, side)]
  OBVIOUS
<1>2. full.input = i /\ full.output = o
  OBVIOUS
<1>3. Effective(w) = IF i + o <= 0 THEN DefaultWeights ELSE full
  BY <1>2 DEF Effective
<1> QED
  BY <1>2, <1>3 DEF DefaultWeights, Divisor

LEMMA PriceIsInteger ==
  ASSUME CatalogInv, NEW w \in Weights, NEW m \in DOMAIN cards
  PROVE  Price(m, w) \in Int /\ Floored(m, w) \in Nat \ {0}
<1>1. /\ cards[m].input \in Int /\ cards[m].output \in Int
  BY DEF CatalogInv, GoodCard
<1>2. Effective(w).input \in Int /\ Effective(w).output \in Int /\ Divisor(w) \in Nat \ {0}
  BY EffectiveIsSound
<1>3. \A x, y \in Int : x * y \in Int
  OBVIOUS
<1>4. Price(m, w) \in Int
  BY <1>1, <1>2, <1>3 DEF Price
<1> QED
  BY <1>2, <1>4 DEF Floored

LEMMA CandidatesAre ==
  ASSUME NEW bar \in Int
  PROVE  Candidates(bar) = {m \in DOMAIN cards : ~Deprecated(m) /\ cards[m].tier >= bar}
<1> PICK q : q = Bar(bar)
  OBVIOUS
<1>1. /\ q.deprecatedToo = FALSE /\ q.byCapability = TRUE /\ q.minTier = bar
      /\ q.maxInput = None /\ q.maxOutput = None /\ q.minContext = None
      /\ q.modalities = {} /\ q.needs = {}
  BY DEF Bar, Anything
<1>2. bar # None
  OBVIOUS
<1>3. \A m \in DOMAIN cards : Passes(m, q) <=> ~Deprecated(m) /\ cards[m].tier >= bar
  BY <1>1, <1>2 DEF Passes
<1> QED
  BY <1>3 DEF Candidates, Filter

CheaperPairs(S, w)   == {p \in S \X S : Cheaper(p[1], p[2], w)}
BetterPairs(S, w)    == {p \in S \X S : Better(p[1], p[2], w)}
WorthMorePairs(S, w) == {p \in S \X S : WorthMore(p[1], p[2], w)}

LEMMA OrdersAreLinear ==
  ASSUME CatalogInv, NEW w \in Weights, NEW S \in SUBSET DOMAIN cards
  PROVE  /\ IsFiniteSet(S)
         /\ Linear(CheaperPairs(S, w), S) /\ Linear(BetterPairs(S, w), S)
         /\ Linear(WorthMorePairs(S, w), S)
<1>1. IsFiniteSet(S)
  BY FS_Subset DEF CatalogInv
<1>2. S \in SUBSET Int
  BY DEF CatalogInv
<1> PICK p \in [S -> Int] : p = [m \in S |-> Price(m, w)]
  BY PriceIsInteger
<1> PICK t \in [S -> Int] : t = [m \in S |-> cards[m].tier]
  BY DEF CatalogInv, GoodCard
<1> PICK e \in [S -> Int] : e = [m \in S |-> cards[m].evidence]
  BY DEF CatalogInv, GoodCard
<1> PICK f \in [S -> Nat \ {0}] : f = [m \in S |-> Floored(m, w)]
  BY PriceIsInteger
<1>3. \A m, n \in S : Cheaper(m, n, w) <=> p[m] < p[n] \/ (p[m] = p[n] /\ m < n)
  BY DEF Cheaper
<1>4. Linear(CheaperPairs(S, w), S)
  <2>1. \A m, n \in S : <<m, n>> \in CheaperPairs(S, w) <=> Cheaper(m, n, w)
    BY DEF CheaperPairs
  <2> QED
    BY <1>2, <1>3, <2>1, LexIsLinear
<1>5. Linear(BetterPairs(S, w), S)
  <2>1. \A m, n \in S : <<m, n>> \in BetterPairs(S, w) <=> Better(m, n, w)
    BY DEF BetterPairs
  <2>2. \A m, n \in S : Better(m, n, w) <=> ByThree(t, e, p, m, n)
    BY <1>3 DEF Better, ByThree
  <2> QED
    BY <1>2, <2>1, <2>2, LexOfThreeIsLinear
<1>6. Linear(WorthMorePairs(S, w), S)
  <2>1. \A m, n \in S : <<m, n>> \in WorthMorePairs(S, w) <=> WorthMore(m, n, w)
    BY DEF WorthMorePairs
  <2>2. \A m, n \in S : WorthMore(m, n, w) <=>
           t[m] * f[n] > t[n] * f[m] \/ (t[m] * f[n] = t[n] * f[m] /\ m < n)
    BY DEF WorthMore
  <2> QED
    BY <1>2, <2>1, <2>2, QuotientsAreLinear
<1> QED
  BY <1>1, <1>4, <1>5, <1>6
-----------------------------------------------------------------------------
(***************************************************************************)
(* The winners are the first candidates, and the only ones that are.       *)
(***************************************************************************)
IsCheapest(x, S, w) == x \in S /\ \A n \in S \ {x} : Cheaper(x, n, w)
IsBest(x, S, w)     == x \in S /\ \A n \in S \ {x} : Better(x, n, w)

LEMMA OnlyOneIsFirst ==
  ASSUME CatalogInv, NEW w \in Weights, NEW S \in SUBSET DOMAIN cards, NEW x, NEW y
  PROVE  /\ IsCheapest(x, S, w) /\ IsCheapest(y, S, w) => x = y
         /\ IsBest(x, S, w) /\ IsBest(y, S, w) => x = y
<1>1. ASSUME IsCheapest(x, S, w), IsCheapest(y, S, w), x # y
      PROVE  FALSE
  <2> PICK R : R = CheaperPairs(S, w)
    OBVIOUS
  <2>1. x \in S /\ y \in S /\ <<x, y>> \in R /\ <<y, x>> \in R
    BY <1>1 DEF IsCheapest, CheaperPairs
  <2>2. Linear(R, S)
    BY OrdersAreLinear
  <2> QED
    BY <2>1, <2>2 DEF Linear
<1>2. ASSUME IsBest(x, S, w), IsBest(y, S, w), x # y
      PROVE  FALSE
  <2> PICK R : R = BetterPairs(S, w)
    OBVIOUS
  <2>1. x \in S /\ y \in S /\ <<x, y>> \in R /\ <<y, x>> \in R
    BY <1>2 DEF IsBest, BetterPairs
  <2>2. Linear(R, S)
    BY OrdersAreLinear
  <2> QED
    BY <2>1, <2>2 DEF Linear
<1> QED
  BY <1>1, <1>2

LEMMA SomeoneIsFirst ==
  ASSUME CatalogInv, NEW w \in Weights, NEW S \in SUBSET DOMAIN cards, S # {}
  PROVE  (\E x \in S : IsCheapest(x, S, w)) /\ (\E x \in S : IsBest(x, S, w))
<1>1. PICK x \in S : \A y \in S \ {x} : <<x, y>> \in CheaperPairs(S, w)
  BY OrdersAreLinear, SomeIsFirst
<1>2. PICK z \in S : \A y \in S \ {z} : <<z, y>> \in BetterPairs(S, w)
  BY OrdersAreLinear, SomeIsFirst
<1> QED
  BY <1>1, <1>2 DEF IsCheapest, IsBest, CheaperPairs, BetterPairs

LEMMA WinnersAreFirst ==
  ASSUME CatalogInv, NEW w \in Weights, NEW bar \in Int
  PROVE  /\ Candidates(bar) = {} => Cheapest(bar, w) = None /\ Best(bar, w) = None
         /\ Candidates(bar) # {} => /\ IsCheapest(Cheapest(bar, w), Candidates(bar), w)
                                    /\ IsBest(Best(bar, w), Candidates(bar), w)
         /\ Cheapest(bar, w) # None => Candidates(bar) # {}
         /\ Best(bar, w) # None => Candidates(bar) # {}
<1> PICK S : S = Candidates(bar)
  OBVIOUS
<1>1. S \in SUBSET DOMAIN cards
  BY CandidatesAre
<1>2. CASE S = {}
  BY <1>2 DEF Cheapest, Best
<1>3. CASE S # {}
  <2>1. (\E x \in S : IsCheapest(x, S, w)) /\ (\E x \in S : IsBest(x, S, w))
    BY <1>1, <1>3, SomeoneIsFirst
  <2>2. Cheapest(bar, w) = CHOOSE x \in S : \A n \in S \ {x} : Cheaper(x, n, w)
    BY <1>3 DEF Cheapest
  <2>3. Best(bar, w) = CHOOSE x \in S : \A n \in S \ {x} : Better(x, n, w)
    BY <1>3 DEF Best
  <2>4. IsCheapest(Cheapest(bar, w), S, w)
    BY <2>1, <2>2 DEF IsCheapest
  <2>5. IsBest(Best(bar, w), S, w)
    BY <2>1, <2>3 DEF IsBest
  <2> QED
    BY <1>3, <2>4, <2>5
<1> QED
  BY <1>2, <1>3

-----------------------------------------------------------------------------
(***************************************************************************)
(* The theorems.                                                           *)
(***************************************************************************)
(* Asking `cheapest` for less never costs more: whatever the weights, a    *)
(* lower min_tier never turns its answer into none, nor into a dearer one. *)
THEOREM LoweringTheBarIsFree == Spec => []LowerBarNeverCostsMore
<1>1. CatalogInv => LowerBarNeverCostsMore
  <2> SUFFICES ASSUME CatalogInv, NEW w \in Weights, NEW bar \in Bars \ {1},
                      Cheapest(bar, w) # None
               PROVE  /\ Cheapest(bar - 1, w) # None
                      /\ Price(Cheapest(bar - 1, w), w) <= Price(Cheapest(bar, w), w)
    BY DEF LowerBarNeverCostsMore
  <2>1. bar \in Int /\ bar - 1 \in Int
    BY DEF Bars
  <2> PICK low \in Int : low = bar - 1
    BY <2>1
  <2> PICK x : x = Cheapest(bar, w)
    OBVIOUS
  <2> PICK y : y = Cheapest(low, w)
    OBVIOUS
  <2>2. IsCheapest(x, Candidates(bar), w)
    BY <2>1, WinnersAreFirst
  <2>3. x \in Candidates(low)
    <3>1. x \in DOMAIN cards /\ ~Deprecated(x) /\ cards[x].tier >= bar
      BY <2>1, <2>2, CandidatesAre DEF IsCheapest
    <3>2. cards[x].tier \in Int
      BY <3>1 DEF CatalogInv, GoodCard
    <3>3. cards[x].tier >= low
      BY <2>1, <3>1, <3>2
    <3> QED
      BY <3>1, <3>3, CandidatesAre
  <2>4. IsCheapest(y, Candidates(low), w)
    BY <2>3, WinnersAreFirst
  <2>5. y = x \/ Cheaper(y, x, w)
    BY <2>3, <2>4 DEF IsCheapest
  <2>6. x \in DOMAIN cards /\ y \in DOMAIN cards
    BY <2>3, <2>4, CandidatesAre DEF IsCheapest
  <2>7. Price(x, w) \in Int /\ Price(y, w) \in Int /\ y # None
    BY <2>6, PriceIsInteger DEF CatalogInv
  <2>8. Price(y, w) <= Price(x, w)
    BY <2>5, <2>7 DEF Cheaper
  <2> QED
    BY <2>7, <2>8
<1> QED
  BY <1>1, CatalogInvHolds, PTL

(* No candidate that is at least as good in tier, evidence and price beats *)
(* the answer of `best`, and raising min_tier to the answer's tier leaves  *)
(* it the answer.                                                          *)
THEOREM NobodyBeatsTheBest == Spec => []BestIsUndominated
<1>1. CatalogInv => BestIsUndominated
  <2> SUFFICES ASSUME CatalogInv, NEW w \in Weights, NEW bar \in Bars, NEW best,
                      best = Best(bar, w), best # None
               PROVE  /\ ~ \E m \in Candidates(bar) :
                             /\ cards[m].tier >= cards[best].tier
                             /\ cards[m].evidence >= cards[best].evidence
                             /\ Price(m, w) <= Price(best, w)
                             /\ \/ cards[m].tier # cards[best].tier
                                \/ cards[m].evidence # cards[best].evidence
                                \/ Price(m, w) # Price(best, w)
                      /\ Best(cards[best].tier, w) = best
    BY DEF BestIsUndominated
  <2>1. bar \in Int
    BY DEF Bars
  <2>2. IsBest(best, Candidates(bar), w)
    BY <2>1, WinnersAreFirst
  <2>3. best \in DOMAIN cards /\ ~Deprecated(best) /\ cards[best].tier >= bar
    BY <2>1, <2>2, CandidatesAre DEF IsBest
  <2>4. ASSUME NEW m \in Candidates(bar),
               cards[m].tier >= cards[best].tier, cards[m].evidence >= cards[best].evidence,
               Price(m, w) <= Price(best, w),
               \/ cards[m].tier # cards[best].tier
               \/ cards[m].evidence # cards[best].evidence
               \/ Price(m, w) # Price(best, w)
        PROVE  FALSE
    <3>1. m \in DOMAIN cards /\ m # best
      BY <2>1, <2>4, CandidatesAre
    <3>2. Better(best, m, w)
      BY <2>2, <3>1 DEF IsBest
    <3>3. /\ Price(m, w) \in Int /\ Price(best, w) \in Int
          /\ cards[m].tier \in Int /\ cards[best].tier \in Int
          /\ cards[m].evidence \in Int /\ cards[best].evidence \in Int
      BY <2>3, <3>1, PriceIsInteger DEF CatalogInv, GoodCard
    <3> QED
      BY <2>4, <3>2, <3>3 DEF Better, Cheaper
  <2>5. Best(cards[best].tier, w) = best
    <3> PICK top \in Int : top = cards[best].tier
      BY <2>3 DEF CatalogInv, GoodCard
    <3>1. Candidates(top) \in SUBSET Candidates(bar)
      <4>1. ASSUME NEW m \in DOMAIN cards, cards[m].tier >= top
            PROVE  cards[m].tier >= bar
        <5>1. cards[m].tier \in Int
          BY DEF CatalogInv, GoodCard
        <5> QED
          BY <2>1, <2>3, <4>1, <5>1
      <4> QED
        BY <2>1, <4>1, CandidatesAre
    <3>2. best \in Candidates(top)
      BY <2>3, CandidatesAre
    <3>3. IsBest(best, Candidates(top), w)
      BY <2>2, <3>1, <3>2 DEF IsBest
    <3>4. IsBest(Best(top, w), Candidates(top), w)
      BY <3>2, WinnersAreFirst
    <3>5. Candidates(top) \in SUBSET DOMAIN cards
      BY CandidatesAre
    <3> QED
      BY <3>3, <3>4, <3>5, OnlyOneIsFirst
  <2> QED
    BY <2>4, <2>5
<1> QED
  BY <1>1, CatalogInvHolds, PTL

(* What best-value lists: in each place the candidate of that rank. *)
IsRanking(top, S, R) ==
  /\ S \in SUBSET DOMAIN cards /\ IsFiniteSet(S) /\ Linear(R, S)
  /\ Listed(S) \in Nat /\ Listed(S) <= Cardinality(S)
  /\ Listed(S) = TopN \/ Listed(S) = Cardinality(S)
  /\ S # {} => Listed(S) >= 1
  /\ DOMAIN top = 1..Listed(S)
  /\ \A i \in 1..Listed(S) : top[i] \in S /\ Cardinality(Before(R, S, top[i])) = i - 1

LEMMA ListedByRank ==
  ASSUME CatalogInv, NEW w \in Weights, NEW bar \in Int
  PROVE  IsRanking(BestValue(bar, w), Candidates(bar), WorthMorePairs(Candidates(bar), w))
<1> PICK S : S = Candidates(bar)
  OBVIOUS
<1> PICK R : R = WorthMorePairs(S, w)
  OBVIOUS
<1> PICK top : top = BestValue(bar, w)
  OBVIOUS
<1>1. S \in SUBSET DOMAIN cards
  BY CandidatesAre
<1>2. IsFiniteSet(S) /\ Linear(R, S)
  BY <1>1, OrdersAreLinear
<1>3. Cardinality(S) \in Nat /\ (S # {} => Cardinality(S) # 0)
  BY <1>2, FS_CardinalityType, FS_EmptySet
<1>4. /\ Listed(S) \in Nat /\ Listed(S) <= Cardinality(S)
      /\ Listed(S) = TopN \/ Listed(S) = Cardinality(S)
      /\ S # {} => Listed(S) >= 1
  BY <1>3, TopNAssumption DEF Listed
<1>5. top = [i \in 1..Listed(S) |->
               CHOOSE m \in S : Cardinality({n \in S : WorthMore(n, m, w)}) = i - 1]
  BY DEF BestValue
<1>6. ASSUME NEW i \in 1..Listed(S)
      PROVE  top[i] \in S /\ Cardinality(Before(R, S, top[i])) = i - 1
  <2>1. i \in 1..Cardinality(S)
    BY <1>3, <1>4
  <2>2. PICK x \in S : Cardinality(Before(R, S, x)) = i - 1
    BY <1>2, <2>1, EachRankIsTaken
  <2>3. ASSUME NEW m \in S
        PROVE  {n \in S : WorthMore(n, m, w)} = Before(R, S, m)
    BY DEF Before, WorthMorePairs
  <2>4. top[i] = CHOOSE m \in S : Cardinality({n \in S : WorthMore(n, m, w)}) = i - 1
    BY <1>5
  <2>5. Cardinality({n \in S : WorthMore(n, x, w)}) = i - 1
    BY <2>2, <2>3
  <2>6. top[i] \in S /\ Cardinality({n \in S : WorthMore(n, top[i], w)}) = i - 1
    BY <2>4, <2>5
  <2> QED
    BY <2>3, <2>6
<1>7. DOMAIN top = 1..Listed(S)
  BY <1>5
<1> QED
  BY <1>1, <1>2, <1>4, <1>6, <1>7 DEF IsRanking

(* A candidate whose rank is listed is listed, in that place. *)
LEMMA RankedIsListed ==
  ASSUME NEW S, NEW R, NEW top, IsRanking(top, S, R),
         NEW m \in S, Cardinality(Before(R, S, m)) < Listed(S)
  PROVE  /\ Cardinality(Before(R, S, m)) + 1 \in 1..Listed(S)
         /\ top[Cardinality(Before(R, S, m)) + 1] = m
<1>1. /\ IsFiniteSet(S) /\ Linear(R, S) /\ Listed(S) \in Nat
      /\ \A i \in 1..Listed(S) : top[i] \in S /\ Cardinality(Before(R, S, top[i])) = i - 1
  BY DEF IsRanking
<1>2. Cardinality(Before(R, S, m)) \in Nat
  BY <1>1, RankIsBounded, FS_CardinalityType
<1> PICK k \in Nat : k = Cardinality(Before(R, S, m))
  BY <1>2
<1>3. k + 1 \in 1..Listed(S)
  BY <1>1
<1>4. top[k + 1] \in S /\ Cardinality(Before(R, S, top[k + 1])) = k
  BY <1>1, <1>3
<1>5. top[k + 1] = m
  BY <1>1, <1>4, EqualRanks
<1> QED
  BY <1>3, <1>5

(* best-value lists as many candidates as top_n allows, each once, and     *)
(* nobody it leaves out or lists later has both a higher tier and no       *)
(* higher price than one it lists, although free models are ranked at a    *)
(* floor.                                                                  *)
THEOREM ValueIsRankedFairly == Spec => []ValueRankingIsFair
<1>1. CatalogInv => ValueRankingIsFair
  <2> SUFFICES ASSUME CatalogInv, NEW w \in Weights, NEW bar \in Bars,
                      NEW top, top = BestValue(bar, w),
                      NEW listed, listed = {top[i] : i \in DOMAIN top}
               PROVE  /\ Cardinality(listed) = Cardinality(DOMAIN top)
                      /\ DOMAIN top = 1..TopN \/ listed = Candidates(bar)
                      /\ \A i \in DOMAIN top : \A m \in Candidates(bar) \ {top[j] : j \in 1..i} :
                           ~ (cards[m].tier > cards[top[i]].tier /\ Price(m, w) <= Price(top[i], w))
    BY DEF ValueRankingIsFair
  <2> PICK S : S = Candidates(bar)
    OBVIOUS
  <2> PICK R : R = WorthMorePairs(S, w)
    OBVIOUS
  <2>1. bar \in Nat \ {0}
    BY DEF Bars
  <2>0. IsRanking(top, S, R)
    <3>1. bar \in Int
      BY <2>1
    <3> QED
      BY <3>1, ListedByRank
  <2>2. /\ S \in SUBSET DOMAIN cards /\ IsFiniteSet(S) /\ Linear(R, S)
        /\ Listed(S) \in Nat /\ Listed(S) <= Cardinality(S)
        /\ Listed(S) = TopN \/ Listed(S) = Cardinality(S)
        /\ DOMAIN top = 1..Listed(S)
        /\ \A i \in 1..Listed(S) : top[i] \in S /\ Cardinality(Before(R, S, top[i])) = i - 1
    BY <2>0 DEF IsRanking
  <2>3. Cardinality(listed) = Cardinality(DOMAIN top)
    <3> PICK f : f = [i \in 1..Listed(S) |-> top[i]]
      OBVIOUS
    <3>1. f \in Surjection(1..Listed(S), listed)
      BY <2>2 DEF Surjection
    <3>2. f \in Injection(1..Listed(S), listed)
      <4>1. f \in [1..Listed(S) -> listed]
        BY <2>2
      <4>2. ASSUME NEW i \in 1..Listed(S), NEW j \in 1..Listed(S), f[i] = f[j]
            PROVE  i = j
        <5>1. i - 1 = j - 1
          BY <2>2, <4>2
        <5> QED
          BY <2>2, <5>1
      <4> QED
        BY <4>1, <4>2 DEF Injection, IsInjective
    <3>3. IsFiniteSet(1..Listed(S))
      BY <2>2, FS_Interval
    <3> QED
      BY <2>2, <3>1, <3>2, <3>3, FS_Surjection
  <2>4. DOMAIN top = 1..TopN \/ listed = S
    <3>1. ASSUME Listed(S) = Cardinality(S), NEW m \in S
          PROVE  m \in listed
      <4>1. Cardinality(Before(R, S, m)) + 1 \in 1..Cardinality(S) /\ IsFiniteSet(Before(R, S, m))
        BY <2>2, RankIsBounded
      <4>2. Cardinality(Before(R, S, m)) < Listed(S)
        BY <2>2, <3>1, <4>1, FS_CardinalityType
      <4> PICK k : k = Cardinality(Before(R, S, m)) + 1
        OBVIOUS
      <4>3. k \in 1..Listed(S) /\ top[k] = m
        BY <2>0, <4>2, RankedIsListed
      <4> QED
        BY <2>2, <4>3
    <3>2. listed \in SUBSET S
      BY <2>2
    <3> QED
      BY <2>2, <3>1, <3>2
  <2>5. ASSUME NEW i \in DOMAIN top, NEW m \in S \ {top[j] : j \in 1..i},
               cards[m].tier > cards[top[i]].tier, Price(m, w) <= Price(top[i], w)
        PROVE  FALSE
    <3> PICK x \in S : x = top[i]
      BY <2>2
    <3>1. /\ cards[m].tier \in Nat /\ cards[x].tier \in Nat
          /\ Price(m, w) \in Int /\ Price(x, w) \in Int
          /\ Floored(m, w) \in Nat \ {0} /\ Floored(x, w) \in Nat \ {0}
      <4>1. /\ m \in DOMAIN cards /\ x \in DOMAIN cards
            /\ cards[m].tier >= bar /\ cards[x].tier >= bar
        BY <2>1, CandidatesAre
      <4>2. cards[m].tier \in Int /\ cards[x].tier \in Int
        BY <4>1 DEF CatalogInv, GoodCard
      <4> QED
        BY <2>1, <4>1, <4>2, PriceIsInteger
    <3>2. Floored(m, w) <= Floored(x, w)
      BY <2>5, <3>1, EffectiveIsSound DEF Floored
    <3>3. cards[m].tier * Floored(x, w) > cards[x].tier * Floored(m, w)
      <4>1. \A a, b \in Nat, u, v \in Nat \ {0} : a > b /\ u <= v => a * v > b * u
        <5> SUFFICES ASSUME NEW a \in Nat, NEW b \in Nat, NEW u \in Nat \ {0}, NEW v \in Nat \ {0},
                            a > b, u <= v
                     PROVE  a * v > b * u
          OBVIOUS
        <5>1. a * v - b * u = (a - b) * v + b * (v - u)
          OBVIOUS
        <5>2. \A c \in Nat, d \in Nat \ {0} : c * d \in Nat /\ (c > 0 => c * d > 0)
          OBVIOUS
        <5>3. (a - b) * v \in Nat /\ (a - b) * v > 0
          BY <5>2
        <5>4. b * (v - u) \in Nat
          <6>1. \A p, q \in Nat : p * q \in Nat
            OBVIOUS
          <6> QED
            BY <6>1
        <5>5. a * v \in Nat /\ b * u \in Nat
          BY <5>2
        <5> QED
          BY <5>1, <5>3, <5>4, <5>5
      <4> QED
        BY <2>5, <3>1, <3>2, <4>1
    <3>4. <<m, x>> \in R
      BY <3>3 DEF WorthMorePairs, WorthMore
    <3>5. Cardinality(Before(R, S, m)) < Cardinality(Before(R, S, x))
      BY <2>2, <3>4, RanksFollowTheOrder
    <3>6. IsFiniteSet(Before(R, S, m))
      BY <2>2, RankIsBounded
    <3> PICK k \in Nat : k = Cardinality(Before(R, S, m))
      BY <3>6, FS_CardinalityType
    <3>7. k < i - 1 /\ k < Listed(S)
      BY <2>2, <3>5
    <3>8. top[k + 1] = m
      BY <2>0, <3>7, RankedIsListed
    <3>9. k + 1 \in 1..i
      BY <2>2, <3>7
    <3> QED
      BY <3>8, <3>9
  <2> QED
    BY <2>3, <2>4, <2>5
<1> QED
  BY <1>1, CatalogInvHolds, PTL

(* Among candidates of one tier none of which is under the floor, the      *)
(* first of best-value is the answer of `cheapest`.                        *)
THEOREM FirstValueIsCheapest == Spec => []RankingsAgree
<1>1. CatalogInv => RankingsAgree
  <2> SUFFICES ASSUME CatalogInv, NEW w \in Weights, NEW bar \in Bars,
                      NEW S, S = Candidates(bar), S # {},
                      \A m, n \in S : cards[m].tier = cards[n].tier,
                      \A m \in S : Price(m, w) >= Divisor(w)
               PROVE  BestValue(bar, w)[1] = Cheapest(bar, w)
    BY DEF RankingsAgree
  <2> PICK R : R = WorthMorePairs(S, w)
    OBVIOUS
  <2> PICK top : top = BestValue(bar, w)
    OBVIOUS
  <2>1. bar \in Nat \ {0} /\ bar \in Int
    BY DEF Bars
  <2>2. IsRanking(top, S, R)
    BY <2>1, ListedByRank
  <2>3. S \in SUBSET DOMAIN cards /\ IsFiniteSet(S) /\ Linear(R, S) /\ 1 \in 1..Listed(S)
    BY <2>2 DEF IsRanking
  <2> PICK x \in S : x = top[1]
    BY <2>2, <2>3 DEF IsRanking
  <2>4. Before(R, S, x) = {}
    <3>1. Cardinality(Before(R, S, x)) = 0
      BY <2>2, <2>3 DEF IsRanking
    <3>2. IsFiniteSet(Before(R, S, x))
      BY <2>3, RankIsBounded
    <3> QED
      BY <3>1, <3>2, FS_EmptySet
  <2>5. ASSUME NEW n \in S \ {x}
        PROVE  Cheaper(x, n, w)
    <3>1. <<n, x>> \notin R
      BY <2>4 DEF Before
    <3>2. <<x, n>> \in R
      BY <2>3, <3>1 DEF Linear
    <3>3. WorthMore(x, n, w)
      BY <3>2 DEF WorthMorePairs
    <3>4. Floored(x, w) = Price(x, w) /\ Floored(n, w) = Price(n, w)
      <4>1. Divisor(w) \in Nat /\ Price(x, w) \in Int /\ Price(n, w) \in Int
        BY <2>3, EffectiveIsSound, PriceIsInteger
      <4>2. Price(x, w) >= Divisor(w) /\ Price(n, w) >= Divisor(w)
        OBVIOUS
      <4> QED
        BY <4>1, <4>2 DEF Floored
    <3> PICK t \in Nat \ {0} : t = cards[x].tier /\ t = cards[n].tier
      <4>1. cards[x].tier >= bar /\ cards[x].tier \in Int /\ cards[n].tier = cards[x].tier
        BY <2>1, <2>3, CandidatesAre DEF CatalogInv, GoodCard
      <4> QED
        BY <2>1, <4>1
    <3> PICK p \in Int : p = Price(x, w)
      BY <2>3, PriceIsInteger
    <3> PICK q \in Int : q = Price(n, w)
      BY <2>3, PriceIsInteger
    <3>5. t * q > t * p \/ (t * q = t * p /\ x < n)
      BY <3>3, <3>4 DEF WorthMore
    <3>6. (t * q > t * p => q > p) /\ (t * q = t * p => q = p)
      OBVIOUS
    <3> QED
      BY <3>5, <3>6 DEF Cheaper
  <2>6. IsCheapest(x, S, w)
    BY <2>5 DEF IsCheapest
  <2>7. IsCheapest(Cheapest(bar, w), S, w)
    BY <2>1, WinnersAreFirst
  <2>8. x = Cheapest(bar, w)
    BY <2>3, <2>6, <2>7, OnlyOneIsFirst
  <2> QED
    BY <2>8
<1> QED
  BY <1>1, CatalogInvHolds, PTL
-----------------------------------------------------------------------------
(***************************************************************************)
(* Winners and changes.  AllWinners says of every query who wins it, in a  *)
(* form that can be read of the catalog before and after a step.           *)
(***************************************************************************)
AllWinners ==
  \A w \in Weights : \A bar \in Bars : \A C, x, y :
    C = Candidates(bar) /\ x = Cheapest(bar, w) /\ y = Best(bar, w) =>
      /\ C = {m \in DOMAIN cards : ~Deprecated(m) /\ cards[m].tier >= bar}
      /\ C = {} => x = None /\ y = None
      /\ C # {} => /\ x \in C /\ \A n \in C \ {x} : Cheaper(x, n, w)
                   /\ y \in C /\ \A n \in C \ {y} : Better(y, n, w)
      /\ \A m, n \in DOMAIN cards : m # n => /\ ~(Cheaper(m, n, w) /\ Cheaper(n, m, w))
                                             /\ ~(Better(m, n, w) /\ Better(n, m, w))

LEMMA CatalogHasWinners == CatalogInv => AllWinners
<1> SUFFICES ASSUME CatalogInv, NEW w \in Weights, NEW bar \in Bars,
                    NEW C, NEW x, NEW y,
                    C = Candidates(bar), x = Cheapest(bar, w), y = Best(bar, w)
             PROVE  /\ C = {m \in DOMAIN cards : ~Deprecated(m) /\ cards[m].tier >= bar}
                    /\ C = {} => x = None /\ y = None
                    /\ C # {} => /\ x \in C /\ \A n \in C \ {x} : Cheaper(x, n, w)
                                 /\ y \in C /\ \A n \in C \ {y} : Better(y, n, w)
                    /\ \A m, n \in DOMAIN cards : m # n =>
                         /\ ~(Cheaper(m, n, w) /\ Cheaper(n, m, w))
                         /\ ~(Better(m, n, w) /\ Better(n, m, w))
  BY DEF AllWinners
<1>1. bar \in Int
  BY DEF Bars
<1>2. C = {m \in DOMAIN cards : ~Deprecated(m) /\ cards[m].tier >= bar}
  BY <1>1, CandidatesAre
<1>3. /\ C = {} => x = None /\ y = None
      /\ C # {} => IsCheapest(x, C, w) /\ IsBest(y, C, w)
  BY <1>1, WinnersAreFirst
<1>4. ASSUME NEW m \in DOMAIN cards, NEW n \in DOMAIN cards, m # n
      PROVE  ~(Cheaper(m, n, w) /\ Cheaper(n, m, w)) /\ ~(Better(m, n, w) /\ Better(n, m, w))
  <2>1. /\ m \in Int /\ n \in Int /\ Price(m, w) \in Int /\ Price(n, w) \in Int
        /\ cards[m].tier \in Int /\ cards[n].tier \in Int
        /\ cards[m].evidence \in Int /\ cards[n].evidence \in Int
    BY PriceIsInteger DEF CatalogInv, GoodCard
  <2>2. ~(Cheaper(m, n, w) /\ Cheaper(n, m, w))
    BY <1>4, <2>1 DEF Cheaper
  <2> QED
    BY <2>1, <2>2 DEF Better
<1> QED
  BY <1>2, <1>3, <1>4 DEF IsCheapest, IsBest

(* A change to one model changes a winner only if that model wins or has   *)
(* won: no answer depends on a model that is irrelevant to it.             *)
THEOREM OnlyWinnersMatter == Spec => WinnersDependOnWinners
<1> DEFINE Unchanged(m) ==
      /\ today' = today
      /\ \A n \in Ids \ {m} :
           /\ n \in DOMAIN cards <=> n \in DOMAIN cards'
           /\ n \in DOMAIN cards => cards'[n] = cards[n]
<1>1. ASSUME CatalogInv, CatalogInv', AllWinners, AllWinners',
             NEW m \in Ids, Unchanged(m), NEW w \in Weights, NEW bar \in Bars
      PROVE  /\ m \in {Cheapest(bar, w), Cheapest(bar, w)'}
                  \/ Cheapest(bar, w)' = Cheapest(bar, w)
             /\ m \in {Best(bar, w), Best(bar, w)'} \/ Best(bar, w)' = Best(bar, w)
  <2> PICK C : C = Candidates(bar)
    OBVIOUS
  <2> PICK D : D = Candidates(bar)'
    OBVIOUS
  <2> PICK x : x = Cheapest(bar, w)
    OBVIOUS
  <2> PICK u : u = Cheapest(bar, w)'
    OBVIOUS
  <2> PICK y : y = Best(bar, w)
    OBVIOUS
  <2> PICK v : v = Best(bar, w)'
    OBVIOUS
  <2>1. /\ C = {k \in DOMAIN cards : ~Deprecated(k) /\ cards[k].tier >= bar}
        /\ C = {} => x = None /\ y = None
        /\ C # {} => /\ x \in C /\ \A n \in C \ {x} : Cheaper(x, n, w)
                     /\ y \in C /\ \A n \in C \ {y} : Better(y, n, w)
        /\ \A k, n \in DOMAIN cards : k # n => /\ ~(Cheaper(k, n, w) /\ Cheaper(n, k, w))
                                               /\ ~(Better(k, n, w) /\ Better(n, k, w))
    BY <1>1 DEF AllWinners
  <2>2. /\ D = {k \in DOMAIN cards' : ~Deprecated(k)' /\ cards'[k].tier >= bar}
        /\ D = {} => u = None /\ v = None
        /\ D # {} => /\ u \in D /\ \A n \in D \ {u} : Cheaper(u, n, w)'
                     /\ v \in D /\ \A n \in D \ {v} : Better(v, n, w)'
    BY <1>1 DEF AllWinners
  <2>3. C \subseteq Ids /\ D \subseteq Ids /\ C \subseteq DOMAIN cards /\ m # None
    BY <1>1, <2>1, <2>2 DEF CatalogInv
  <2>4. ASSUME NEW n \in Ids \ {m}
        PROVE  n \in C <=> n \in D
    <3>1. n \in DOMAIN cards => (Deprecated(n) <=> Deprecated(n)')
      BY <1>1 DEF Deprecated
    <3> QED
      BY <1>1, <2>1, <2>2, <3>1
  <2>5. ASSUME NEW k \in C \ {m}, NEW n \in C \ {m}
        PROVE  (Cheaper(k, n, w) <=> Cheaper(k, n, w)') /\ (Better(k, n, w) <=> Better(k, n, w)')
    <3>1. cards'[k] = cards[k] /\ cards'[n] = cards[n]
      BY <1>1, <2>3
    <3>2. Cheaper(k, n, w) <=> Cheaper(k, n, w)'
      BY <3>1 DEF Cheaper, Price, Effective, Weight
    <3> QED
      BY <3>1, <3>2 DEF Better
  <2> HIDE <1>1
  <2>6. ASSUME m \notin {x, u}
        PROVE  u = x
    <3>1. CASE C = {} \/ D = {}
      BY <2>1, <2>2, <2>3, <2>4, <2>6, <3>1
    <3>2. CASE C # {} /\ D # {}
      <4>1. x \in C \ {m} /\ u \in D \ {m}
        BY <2>1, <2>2, <2>6, <3>2
      <4>2. x \in D /\ u \in C
        BY <2>3, <2>4, <4>1
      <4>3. ASSUME u # x
            PROVE  FALSE
        <5>1. Cheaper(x, u, w) /\ Cheaper(u, x, w)'
          BY <2>1, <2>2, <3>2, <4>2, <4>3
        <5>2. Cheaper(u, x, w)
          BY <2>5, <4>1, <4>2, <5>1
        <5> QED
          BY <2>1, <2>3, <4>1, <4>2, <4>3, <5>1, <5>2
      <4> QED
        BY <4>3
    <3> QED
      BY <3>1, <3>2
  <2>7. ASSUME m \notin {y, v}
        PROVE  v = y
    <3>1. CASE C = {} \/ D = {}
      BY <2>1, <2>2, <2>3, <2>4, <2>7, <3>1
    <3>2. CASE C # {} /\ D # {}
      <4>1. y \in C \ {m} /\ v \in D \ {m}
        BY <2>1, <2>2, <2>7, <3>2
      <4>2. y \in D /\ v \in C
        BY <2>3, <2>4, <4>1
      <4>3. ASSUME v # y
            PROVE  FALSE
        <5>1. Better(y, v, w) /\ Better(v, y, w)'
          BY <2>1, <2>2, <3>2, <4>2, <4>3
        <5>2. Better(v, y, w)
          BY <2>5, <4>1, <4>2, <5>1
        <5> QED
          BY <2>1, <2>3, <4>1, <4>2, <4>3, <5>1, <5>2
      <4> QED
        BY <4>3
    <3> QED
      BY <3>1, <3>2
  <2> QED
    BY <2>6, <2>7
<1> DEFINE Depends ==
      \A m \in Ids :
        Unchanged(m) =>
          \A w \in Weights : \A bar \in Bars :
            /\ m \in {Cheapest(bar, w), Cheapest(bar, w)'}
                 \/ Cheapest(bar, w)' = Cheapest(bar, w)
            /\ m \in {Best(bar, w), Best(bar, w)'} \/ Best(bar, w)' = Best(bar, w)
<1>2. CatalogInv /\ CatalogInv' /\ AllWinners /\ AllWinners' => Depends
  BY <1>1
<1>3. (CatalogInv => AllWinners) /\ (Spec => []CatalogInv)
  BY CatalogHasWinners, CatalogInvHolds
<1>4. WinnersDependOnWinners <=> [][Depends]_vars
  BY DEF WinnersDependOnWinners
<1> QED
  BY <1>2, <1>3, <1>4, PTL
=============================================================================
