------------------------------- MODULE Queries -------------------------------
(***************************************************************************)
(* The selection helpers (registry/queries.py) over a catalog that changes *)
(* between one query and the next: the filter behind GET /v1/models and    *)
(* the cheapest, best and best-value rankings of one capability.           *)
(*                                                                         *)
(* Ids are numbers, in the order of the id strings.  Prices are in units   *)
(* of the floor best_value puts under them, $0.001 per million; weights    *)
(* are in quarters, so that the defaults 0.75 and 0.25 are 3 and 1.  All   *)
(* prices of one query share the divisor w_in + w_out: the model leaves it *)
(* out and scales the floor instead.  A card's tier is the one for the     *)
(* capability asked for, 0 if it has none.                                 *)
(***************************************************************************)
EXTENDS Integers, FiniteSets

CONSTANTS Ids,      \* model ids
          Cards,    \* the cards a model may have
          Weights,  \* the `weights` a query may give: partial, by "input", "output"
          TopN,     \* top_n of best_value
          LastDay,  \* bound on the date
          None

ASSUME IdsAssumption == Ids \subseteq Int /\ None \notin Int
ASSUME CardsAssumption ==
  \A card \in Cards : {card.tier, card.input, card.output, card.evidence} \subseteq Int
ASSUME WeightsAssumption == \A w \in Weights : \A side \in DOMAIN w : w[side] \in Int
ASSUME TopNAssumption    == TopN \in Nat \ {0}

VARIABLES cards,  \* the catalog: id -> card
          today

vars == <<cards, today>>

(***************************************************************************)
(* Prices.                                                                 *)
(***************************************************************************)
DefaultWeights == [input |-> 3, output |-> 1]

Weight(w, side) == IF side \in DOMAIN w THEN w[side] ELSE DefaultWeights[side]

(* Weights that do not add up to something positive give way to the default. *)
Effective(w) ==
  LET full == [side \in {"input", "output"} |-> Weight(w, side)]
  IN  IF full.input + full.output <= 0 THEN DefaultWeights ELSE full

Divisor(w) == Effective(w).input + Effective(w).output

(* blended_price, times Divisor(w) *)
Price(m, w) ==
  Effective(w).input * cards[m].input + Effective(w).output * cards[m].output

(***************************************************************************)
(* The filter.                                                             *)
(***************************************************************************)
Deprecated(m) == cards[m].expires # None /\ cards[m].expires <= today

Passes(m, q) ==
  /\ q.deprecatedToo \/ ~Deprecated(m)
  /\ q.byCapability => cards[m].tier >= (IF q.minTier = None THEN 1 ELSE q.minTier)
  /\ q.maxInput # None => cards[m].input <= q.maxInput
  /\ q.maxOutput # None => cards[m].output <= q.maxOutput
  /\ q.minContext # None => cards[m].context >= q.minContext
  /\ q.modalities \subseteq cards[m].accepts
  /\ q.needs \subseteq cards[m].has

Filter(q) == {m \in DOMAIN cards : Passes(m, q)}

(* No criteria. *)
Anything == [ deprecatedToo |-> FALSE, byCapability |-> FALSE, minTier |-> None,
              maxInput |-> None, maxOutput |-> None, minContext |-> None,
              modalities |-> {}, needs |-> {} ]

Bar(minTier) == [Anything EXCEPT !.byCapability = TRUE, !.minTier = minTier]

Candidates_FirstFew(minTier) ==
  {m \in Filter(Bar(minTier)) : Cardinality({n \in Filter(Bar(minTier)) : n < m}) < TopN}

Candidates(minTier) == Filter(Bar(minTier))

(***************************************************************************)
(* The rankings.  Each comes before every candidate it precedes: equal     *)
(* keys are told apart by id.                                              *)
(***************************************************************************)
Cheaper_InputOnly(m, n, w) ==
  \/ cards[m].input < cards[n].input
  \/ cards[m].input = cards[n].input /\ m < n

Cheaper(m, n, w) ==
  \/ Price(m, w) < Price(n, w)
  \/ Price(m, w) = Price(n, w) /\ m < n

Better_PriceFirst(m, n, w) ==
  \/ Price(m, w) < Price(n, w)
  \/ Price(m, w) = Price(n, w) /\ cards[m].tier > cards[n].tier
  \/ Price(m, w) = Price(n, w) /\ cards[m].tier = cards[n].tier /\ m < n

Better(m, n, w) ==
  \/ cards[m].tier > cards[n].tier
  \/ /\ cards[m].tier = cards[n].tier
     /\ \/ cards[m].evidence > cards[n].evidence
        \/ cards[m].evidence = cards[n].evidence /\ Cheaper(m, n, w)

(* A price of at least $0.001, so that free models can be divided by. *)
Floored(m, w) == IF Price(m, w) < Divisor(w) THEN Divisor(w) ELSE Price(m, w)

WorthMore_TierOnly(m, n, w) ==
  \/ cards[m].tier > cards[n].tier
  \/ cards[m].tier = cards[n].tier /\ m < n

(* tier / price, compared without dividing *)
WorthMore(m, n, w) ==
  LET left == cards[m].tier * Floored(n, w)
      right == cards[n].tier * Floored(m, w)
  IN  left > right \/ (left = right /\ m < n)

(* The candidate that comes before all others, or None. *)
Cheapest(minTier, w) ==
  LET found == Candidates(minTier) IN
  IF found = {} THEN None ELSE CHOOSE m \in found : \A n \in found \ {m} : Cheaper(m, n, w)

Best(minTier, w) ==
  LET found == Candidates(minTier) IN
  IF found = {} THEN None ELSE CHOOSE m \in found : \A n \in found \ {m} : Better(m, n, w)

Listed(found) == IF Cardinality(found) < TopN THEN Cardinality(found) ELSE TopN

BestValue_Unsorted(minTier, w) ==
  LET found == Candidates(minTier)
  IN  [i \in 1..Listed(found) |->
         CHOOSE m \in found : Cardinality({n \in found : n < m}) = i - 1]

(* The first TopN candidates, each in the place of its rank. *)
BestValue(minTier, w) ==
  LET found == Candidates(minTier)
      Rank(m) == Cardinality({n \in found : WorthMore(n, m, w)})
  IN  [i \in 1..Listed(found) |-> CHOOSE m \in found : Rank(m) = i - 1]

-----------------------------------------------------------------------------
Init == cards = [m \in {} |-> None] /\ today = 0

(* The catalog lists a model, with a new card or another one, or drops it. *)
List(m, card) ==
  /\ cards' = [n \in DOMAIN cards \cup {m} |-> IF n = m THEN card ELSE cards[n]]
  /\ UNCHANGED today

Delist(m) ==
  /\ m \in DOMAIN cards
  /\ cards' = [n \in DOMAIN cards \ {m} |-> cards[n]]
  /\ UNCHANGED today

NextDay ==
  /\ today < LastDay
  /\ today' = today + 1
  /\ UNCHANGED cards

Next ==
  \/ \E m \in Ids : Delist(m) \/ \E card \in Cards : List(m, card)
  \/ NextDay

Spec == Init /\ [][Next]_vars

-----------------------------------------------------------------------------
(***************************************************************************)
(* Properties.  Bars are the values min_tier is tried with.                *)
(***************************************************************************)
Bars == 1..5

(* Asking for less never costs more: lowering min_tier never turns an      *)
(* answer of `cheapest` into none, nor into a dearer one.                  *)
LowerBarNeverCostsMore ==
  \A w \in Weights : \A bar \in Bars \ {1} :
    Cheapest(bar, w) # None =>
      /\ Cheapest(bar - 1, w) # None
      /\ Price(Cheapest(bar - 1, w), w) <= Price(Cheapest(bar, w), w)

(* `best` is beaten by no candidate that is at least as good in tier,      *)
(* evidence and price and better in one; and raising the bar up to the     *)
(* tier it has leaves it the answer.                                       *)
BestIsUndominated ==
  \A w \in Weights : \A bar \in Bars :
    LET best == Best(bar, w) IN
    best # None =>
      /\ ~ \E m \in Candidates(bar) :
             /\ cards[m].tier >= cards[best].tier
             /\ cards[m].evidence >= cards[best].evidence
             /\ Price(m, w) <= Price(best, w)
             /\ \/ cards[m].tier # cards[best].tier
                \/ cards[m].evidence # cards[best].evidence
                \/ Price(m, w) # Price(best, w)
      /\ Best(cards[best].tier, w) = best

(* best-value lists as many candidates as it may, each once, and nobody it *)
(* leaves out or lists later has both a higher tier and no higher price,   *)
(* whatever the floor does to free models.                                 *)
ValueRankingIsFair ==
  \A w \in Weights : \A bar \in Bars :
    LET top == BestValue(bar, w)
        listed == {top[i] : i \in DOMAIN top}
    IN  /\ Cardinality(listed) = Cardinality(DOMAIN top)
        /\ DOMAIN top = 1..TopN \/ listed = Candidates(bar)
        /\ \A i \in DOMAIN top : \A m \in Candidates(bar) \ {top[j] : j \in 1..i} :
             ~ (cards[m].tier > cards[top[i]].tier /\ Price(m, w) <= Price(top[i], w))

(* Among candidates of one tier that are not under the floor, best-value   *)
(* and cheapest agree.                                                     *)
RankingsAgree ==
  \A w \in Weights : \A bar \in Bars :
    LET found == Candidates(bar) IN
    /\ found # {}
    /\ \A m, n \in found : cards[m].tier = cards[n].tier
    /\ \A m \in found : Price(m, w) >= Divisor(w)
    => BestValue(bar, w)[1] = Cheapest(bar, w)

(* A change to one model changes a winner only if that model wins or has   *)
(* won: no answer depends on a model that is irrelevant to it.             *)
WinnersDependOnWinners ==
  [][ \A m \in Ids :
        /\ today' = today
        /\ \A n \in Ids \ {m} :
             /\ n \in DOMAIN cards <=> n \in DOMAIN cards'
             /\ n \in DOMAIN cards => cards'[n] = cards[n]
        => \A w \in Weights : \A bar \in Bars :
             /\ m \in {Cheapest(bar, w), Cheapest(bar, w)'}
                  \/ Cheapest(bar, w)' = Cheapest(bar, w)
             /\ m \in {Best(bar, w), Best(bar, w)'} \/ Best(bar, w)' = Best(bar, w)
    ]_vars
=============================================================================
