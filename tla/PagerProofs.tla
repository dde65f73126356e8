---------------------------- MODULE PagerProofs ----------------------------
(***************************************************************************)
(* Proofs about Pager, for any payloads and folders, any query, any limit  *)
(* and any finite set of ids.                                              *)
(***************************************************************************)
EXTENDS Pager, FiniteSetTheorems, TLAPS

(***************************************************************************)
(* Parsing: the last usable entry of an id makes its card.                 *)
(***************************************************************************)
LEMMA LeastNatural ==
  ASSUME NEW S \in SUBSET Nat, S # {}
  PROVE  \E x \in S : \A y \in S : x <= y
<1>1. PICK x \in S : \A y \in S : ~(<<y, x>> \in OpToRel(<, Nat))
  BY NatLessThanWellFounded, WFMin
<1>2. \A y \in S : ~(y < x)
  BY <1>1 DEF OpToRel
<1> QED
  BY <1>2

LEMMA LastIndex ==
  ASSUME NEW n \in Nat, NEW S \in SUBSET (1..n), S # {}
  PROVE  \E i \in S : \A j \in S : j <= i
<1> DEFINE T == {n - i : i \in S}
<1>0. T \in SUBSET Nat /\ T # {}
  <2>1. \A i \in S : n - i \in Nat
    OBVIOUS
  <2> QED
    BY <2>1
<1>1. PICK x \in T : \A y \in T : x <= y
  <2> HIDE DEF T
  <2> QED
    BY <1>0, LeastNatural
<1>2. PICK i \in S : x = n - i
  BY <1>1
<1>3. \A j \in S : n - i <= n - j
  BY <1>1, <1>2
<1> QED
  BY <1>3

(* Entries of a payload or a folder. *)
LEMMA EntriesOf ==
  ASSUME NEW p \in Payloads \cup Folders \cup {<<>>}
  PROVE  p \in Seq(Entry) /\ Len(p) \in Nat /\ DOMAIN p = 1..Len(p)
<1>1. p \in Seq(Entry)
  <2>1. <<>> \in Seq(Entry)
    OBVIOUS
  <2> QED
    BY <2>1, PayloadAssumption
<1> QED
  BY <1>1

(* A parsed card is made of an entry that was found usable. *)
LEMMA CardsAreOfEntries ==
  ASSUME NEW p \in Payloads \cup Folders \cup {<<>>}, NEW found \in SUBSET DOMAIN p
  PROVE  \A m \in DOMAIN CardsOf(p, found) :
           \E i \in found : p[i].id = m /\ CardsOf(p, found)[m] = CardOf(p[i])
<1> SUFFICES ASSUME NEW m \in {p[i].id : i \in found}
             PROVE  \E i \in found : p[i].id = m /\ CardsOf(p, found)[m] = CardOf(p[i])
  BY DEF CardsOf
<1> DEFINE Mine == {i \in found : p[i].id = m}
           Last(i) == p[i].id = m /\ \A j \in found : p[j].id = m => j <= i
<1>1. Mine # {} /\ Mine \in SUBSET (1..Len(p)) /\ Len(p) \in Nat
  BY EntriesOf
<1>2. PICK i \in Mine : \A j \in Mine : j <= i
  BY <1>1, LastIndex
<1>3. \E k \in found : Last(k)
  BY <1>2
<1>4. LET k == CHOOSE k \in found : Last(k) IN k \in found /\ Last(k)
  BY <1>3
<1>5. CardsOf(p, found)[m] = CardOf(p[CHOOSE k \in found : Last(k)])
  BY DEF CardsOf
<1> QED
  BY <1>4, <1>5

Parsed == cards = Parse(payload) /\ payload \in Payloads \cup {<<>>}

(* What is in the cache comes from the payload. *)
LEMMA ParsedPrices ==
  ASSUME Parsed
  PROVE  /\ PricesArePublished
         /\ DOMAIN cards \subseteq Ids
         /\ \A m \in DOMAIN cards : cards[m].input \in Nat /\ cards[m].output \in Nat
<1>1. \A m \in DOMAIN cards : \E i \in DOMAIN payload :
        Usable(payload[i]) /\ payload[i].id = m /\ cards[m] = CardOf(payload[i])
  <2> DEFINE found == {i \in DOMAIN payload : Usable(payload[i])}
  <2>1. cards = CardsOf(payload, found)
    BY DEF Parsed, Parse
  <2>2. payload \in Payloads \cup Folders \cup {<<>>} /\ found \in SUBSET DOMAIN payload
    BY DEF Parsed
  <2>3. \A m \in DOMAIN cards :
          \E i \in found : payload[i].id = m /\ cards[m] = CardOf(payload[i])
    <3> HIDE DEF found
    <3> QED
      BY <2>1, <2>2, CardsAreOfEntries
  <2> QED
    BY <2>3
<1>2. \A i \in DOMAIN payload : payload[i] \in Entry
  BY EntriesOf DEF Parsed
<1> SUFFICES ASSUME NEW i \in DOMAIN payload, Usable(payload[i])
             PROVE  LET e == payload[i] IN
                      /\ e.id \in Ids
                      /\ CardOf(e).input \in Nat /\ CardOf(e).output \in Nat
                      /\ ~CardOf(e).estimated =>
                           CardOf(e).input = e.prompt /\ CardOf(e).output = e.completion
  BY <1>1 DEF PricesArePublished
<1>3. payload[i] \in Entry
  BY <1>2
<1> QED
  BY <1>3 DEF Entry, Price, Usable, CardOf

LEMMA EmptyPayload == Parse(<<>>) = [m \in {} |-> None]
<1>1. {i \in DOMAIN <<>> : Usable(<<>>[i])} = {}
  OBVIOUS
<1>2. {<<>>[i].id : i \in {}} = {}
  OBVIOUS
<1> QED
  BY <1>1, <1>2 DEF Parse, CardsOf

(* Models listed for a query have an id. *)
LEMMA ListedIds ==
  ASSUME DOMAIN cards \subseteq Ids, folder \in Folders
  PROVE  Listed \subseteq Ids
<1>1. DOMAIN Local(folder) \subseteq Ids
  <2>1. \A i \in DOMAIN folder : folder[i] \in Entry
    BY EntriesOf
  <2>2. \A i \in DOMAIN folder : folder[i].id \in Ids
    BY <2>1 DEF Entry
  <2> QED
    BY <2>2 DEF Local, CardsOf
<1>2. DOMAIN Base = DOMAIN Local(folder) \cup DOMAIN cards
  BY DEF Base
<1> QED
  BY <1>1, <1>2 DEF Listed, Q!Filter

(***************************************************************************)
(* Places in a listing.                                                    *)
(***************************************************************************)
LEMMA Sizes ==
  ASSUME NEW S \in SUBSET Ids, NEW m
  PROVE  /\ IsFiniteSet(S) /\ IsFiniteSet({n \in S : n < m})
         /\ Cardinality(S) \in Nat /\ Rank(m, S) \in Nat
<1>1. IsFiniteSet(S)
  BY FiniteAssumption, FS_Subset
<1>2. IsFiniteSet({n \in S : n < m})
  BY <1>1, FS_Subset
<1> QED
  BY <1>1, <1>2, FS_CardinalityType DEF Rank

(* What has nothing new before it does not move back. *)
LEMMA RankIsMonotone ==
  ASSUME NEW S \in SUBSET Ids, NEW T \in SUBSET Ids, NEW m,
         \A n \in S : n < m => n \in T
  PROVE  Rank(m, S) <= Rank(m, T)
<1>1. {n \in S : n < m} \in SUBSET {n \in T : n < m}
  OBVIOUS
<1>2. IsFiniteSet({n \in T : n < m})
  BY Sizes
<1>3. Cardinality({n \in S : n < m}) <= Cardinality({n \in T : n < m})
  BY <1>1, <1>2, FS_Subset
<1> QED
  BY <1>3 DEF Rank

LEMMA RankIsInside ==
  ASSUME NEW S \in SUBSET Ids, NEW m \in S
  PROVE  Rank(m, S) < Cardinality(S)
<1> DEFINE Before == {n \in S : n < m}
<1>1. Before \in SUBSET S /\ m \notin Before
  BY IdAssumption
<1>2. Cardinality(Before) <= Cardinality(S) /\ Cardinality(S) # Cardinality(Before)
  BY <1>1, Sizes, FS_Subset
<1>3. Cardinality(Before) \in Nat /\ Cardinality(S) \in Nat
  BY Sizes DEF Rank
<1> QED
  BY <1>2, <1>3 DEF Rank

(***************************************************************************)
(* The walk.  What is missed at its end is a place the walk has gone past  *)
(* without seeing the model; what is repeated is a model the walk has seen *)
(* at a place it has not gone past.  SkipInv and RepeatInv say why neither *)
(* is so on the way.                                                       *)
(***************************************************************************)
WalkTypes ==
  /\ folder \in Folders /\ today \in 0..LastDay
  /\ walking \in BOOLEAN /\ offset \in Nat
  /\ seen \subseteq Ids /\ kept \subseteq Ids /\ added \subseteq Ids /\ removed \subseteq Ids
  /\ repeated \subseteq seen
  /\ walking => kept \subseteq Listed

SkipInv ==
  walking => \A m \in kept :
    (\A n \in removed : ~(n < m)) /\ Rank(m, Listed) < offset => m \in seen

RepeatInv ==
  walking => \A m \in seen \cap Listed :
    (\A n \in added : ~(n <= m)) => Rank(m, Listed) < offset

IInv == /\ Parsed /\ WalkTypes /\ SkipInv /\ RepeatInv
        /\ SkipsAreExplained /\ RepeatsAreExplained

LEMMA ListedStays == ASSUME UNCHANGED sourceVars PROVE Listed' = Listed
BY DEF sourceVars, Listed, Q!Filter, Q!Passes, Q!Deprecated, Base

LEMMA ListingTypes ==
  ASSUME Parsed, WalkTypes
  PROVE  Listed \subseteq Ids
BY ParsedPrices, ListedIds DEF WalkTypes

LEMMA ListingTypesAfter ==
  ASSUME Parsed', folder' \in Folders
  PROVE  Listed' \subseteq Ids
<1>1. (Parsed => DOMAIN cards \subseteq Ids)'
  BY ParsedPrices, PTL
<1>2. (DOMAIN cards \subseteq Ids /\ folder \in Folders => Listed \subseteq Ids)'
  BY ListedIds, PTL
<1> QED
  BY <1>1, <1>2

LEMMA InitIInv == ASSUME Init PROVE IInv
<1> USE DEF Init, SourceInit
<1>1. Parsed
  BY EmptyPayload DEF Parsed
<1>2. WalkTypes
  <2>1. today \in 0..LastDay /\ folder \in Folders
    BY DayAssumption
  <2>2. walking \in BOOLEAN /\ ~walking /\ offset \in Nat
    OBVIOUS
  <2>3. /\ seen \subseteq Ids /\ kept \subseteq Ids /\ added \subseteq Ids /\ removed \subseteq Ids
        /\ repeated \subseteq seen
    OBVIOUS
  <2> QED
    BY <2>1, <2>2, <2>3 DEF WalkTypes
<1>3. SkipInv /\ RepeatInv /\ SkipsAreExplained /\ RepeatsAreExplained
  BY DEF SkipInv, RepeatInv, SkipsAreExplained, RepeatsAreExplained
<1> QED
  BY <1>1, <1>2, <1>3 DEF IInv

LEMMA BeginKeeps == ASSUME IInv, Begin PROVE IInv'
<1>1. Listed' = Listed /\ Listed \subseteq Ids /\ UNCHANGED sourceVars
  BY ListedStays, ListingTypes DEF IInv, Begin
<1>2. Parsed'
  BY <1>1 DEF IInv, Parsed, sourceVars
<1>3. WalkTypes'
  BY <1>1 DEF IInv, WalkTypes, Begin, sourceVars
<1>4. SkipInv'
  <2>1. \A m \in kept' : Rank(m, Listed') \in Nat
    BY <1>1, Sizes
  <2>2. \A m \in kept' : ~(Rank(m, Listed') < 0)
    BY <2>1
  <2> QED
    BY <2>2 DEF Begin, SkipInv
<1>5. RepeatInv' /\ SkipsAreExplained' /\ RepeatsAreExplained'
  BY DEF Begin, RepeatInv, SkipsAreExplained, RepeatsAreExplained
<1> QED
  BY <1>2, <1>3, <1>4, <1>5 DEF IInv

LEMMA NextPageKeeps == ASSUME IInv, NextPage PROVE IInv'
<1> DEFINE page == PageOf(Listed, offset)
<1>1. Listed' = Listed /\ Listed \subseteq Ids /\ UNCHANGED sourceVars
  BY ListedStays, ListingTypes DEF IInv, NextPage
<1>2. /\ walking /\ offset \in Nat /\ offset' = offset + Limit /\ seen' = seen \cup page
      /\ repeated' = repeated \cup (seen \cap page)
      /\ walking' = (offset + Limit < Cardinality(Listed))
      /\ UNCHANGED <<kept, added, removed>>
  BY DEF NextPage, IInv, WalkTypes
<1>3. \A m \in page : m \in Listed
  BY DEF PageOf
<1>3a. \A m \in Listed : m \in page <=> Rank(m, Listed) \in offset .. offset + Limit - 1
  BY DEF PageOf
<1>3b. \A m \in Listed : Rank(m, Listed) \in Nat /\ Rank(m, Listed) < Cardinality(Listed)
  BY <1>1, Sizes, RankIsInside
<1> HIDE DEF page
<1>4. Parsed'
  BY <1>1 DEF IInv, Parsed, sourceVars
<1>5. WalkTypes'
  <2>1. Limit \in Nat /\ offset' \in Nat
    BY <1>2, LimitAssumption
  <2>2. kept \subseteq Listed'
    BY <1>1, <1>2 DEF IInv, WalkTypes
  <2>3. folder' \in Folders /\ today' \in 0..LastDay
    BY <1>1 DEF IInv, WalkTypes, sourceVars
  <2>4. seen' \subseteq Ids /\ repeated' \subseteq seen'
    BY <1>1, <1>2, <1>3 DEF IInv, WalkTypes
  <2>5. walking' \in BOOLEAN
    BY <1>2
  <2> QED
    BY <1>2, <2>1, <2>2, <2>3, <2>4, <2>5 DEF IInv, WalkTypes
<1>6. \A m \in kept :
        (\A n \in removed : ~(n < m)) /\ Rank(m, Listed) < offset + Limit => m \in seen'
  <2> SUFFICES ASSUME NEW m \in kept, \A n \in removed : ~(n < m),
                      Rank(m, Listed) < offset + Limit
               PROVE  m \in seen'
    OBVIOUS
  <2>1. m \in Listed /\ Rank(m, Listed) \in Nat
    BY <1>2, <1>3b DEF IInv, WalkTypes
  <2>2. CASE Rank(m, Listed) < offset
    BY <1>2, <2>2 DEF IInv, SkipInv
  <2>3. CASE ~(Rank(m, Listed) < offset)
    <3>1. Rank(m, Listed) \in offset .. offset + Limit - 1
      BY <1>2, <2>1, <2>3, LimitAssumption
    <3> QED
      BY <1>2, <1>3a, <2>1, <3>1
  <2> QED
    BY <2>2, <2>3
<1>7. SkipInv'
  BY <1>1, <1>2, <1>6 DEF SkipInv
<1>8. SkipsAreExplained'
  <2> SUFFICES ASSUME ~walking', NEW m \in kept, \A n \in removed : ~(n < m)
               PROVE  m \in seen'
    BY <1>2 DEF SkipsAreExplained
  <2>1. m \in Listed
    BY <1>2 DEF IInv, WalkTypes
  <2>2. /\ Rank(m, Listed) \in Nat /\ Cardinality(Listed) \in Nat
        /\ Rank(m, Listed) < Cardinality(Listed) /\ ~(offset + Limit < Cardinality(Listed))
    BY <1>1, <1>2, <1>3b, <2>1, Sizes
  <2>3. Rank(m, Listed) < offset + Limit
    BY <1>2, <2>2, LimitAssumption
  <2> QED
    BY <1>6, <2>3
<1>9. RepeatInv'
  <2> SUFFICES ASSUME NEW m \in (seen \cup page) \cap Listed, \A n \in added : ~(n <= m)
               PROVE  Rank(m, Listed) < offset + Limit
    BY <1>1, <1>2 DEF RepeatInv
  <2>1. Rank(m, Listed) \in Nat
    BY <1>3b
  <2>2. CASE m \in seen
    <3>1. Rank(m, Listed) < offset
      BY <1>2, <2>2 DEF IInv, RepeatInv
    <3> QED
      BY <1>2, <2>1, <3>1, LimitAssumption
  <2>3. CASE m \in page
    BY <1>2, <1>3a, <2>1, <2>3, LimitAssumption
  <2> QED
    BY <2>2, <2>3
<1>10. RepeatsAreExplained'
  <2> SUFFICES ASSUME NEW m \in seen \cap page, \A n \in added : ~(n <= m)
               PROVE  FALSE
    BY <1>2 DEF IInv, RepeatsAreExplained
  <2>1. Rank(m, Listed) < offset
    BY <1>2, <1>3 DEF IInv, RepeatInv
  <2>2. Rank(m, Listed) \in offset .. offset + Limit - 1
    BY <1>3, <1>3a
  <2>3. m \in Listed
    BY <1>3
  <2> QED
    BY <1>2, <1>3b, <2>1, <2>2, <2>3, LimitAssumption
<1> QED
  BY <1>4, <1>5, <1>7, <1>8, <1>9, <1>10 DEF IInv

LEMMA SourcesChangeKeeps == ASSUME IInv, SourcesChange PROVE IInv'
<1>1. Parsed' /\ folder' \in Folders /\ today' \in 0..LastDay
  BY DayAssumption DEF IInv, Parsed, WalkTypes, SourcesChange, SourceNext, Fetch, FetchGarbled,
     EditFolder, NextDay, sourceVars
<1>2. Listed \subseteq Ids /\ Listed' \subseteq Ids
  BY <1>1, ListingTypes, ListingTypesAfter DEF IInv
<1>3. walking' = walking /\ offset' = offset /\ seen' = seen /\ repeated' = repeated
  BY DEF SourcesChange, walkVars
<1>4. CASE ~walking
  <2>1. UNCHANGED <<kept, added, removed>>
    BY <1>4 DEF SourcesChange
  <2> QED
    BY <1>1, <1>3, <1>4, <2>1
       DEF IInv, WalkTypes, SkipInv, RepeatInv, SkipsAreExplained, RepeatsAreExplained
<1>5. CASE walking
  <2>1. /\ kept' = kept \cap Listed'
        /\ added' = added \cup (Listed' \ Listed)
        /\ removed' = removed \cup (Listed \ Listed')
    BY <1>5 DEF SourcesChange
  <2>2. WalkTypes'
    BY <1>1, <1>2, <1>3, <2>1 DEF IInv, WalkTypes
  <2>3. SkipInv'
    <3> SUFFICES ASSUME NEW m \in kept', \A n \in removed' : ~(n < m),
                        Rank(m, Listed') < offset
                 PROVE  m \in seen
      BY <1>3 DEF SkipInv
    <3>1. Rank(m, Listed) <= Rank(m, Listed')
      BY <1>2, <2>1, RankIsMonotone
    <3>2. Rank(m, Listed) \in Nat /\ Rank(m, Listed') \in Nat /\ offset \in Nat
      BY <1>2, Sizes DEF IInv, WalkTypes
    <3>3. Rank(m, Listed) < offset
      BY <3>1, <3>2
    <3> QED
      BY <1>5, <2>1, <3>3 DEF IInv, SkipInv
  <2>4. RepeatInv'
    <3> SUFFICES ASSUME NEW m \in seen \cap Listed', \A n \in added' : ~(n <= m)
                 PROVE  Rank(m, Listed') < offset
      BY <1>3 DEF RepeatInv
    <3>1. m \in Int
      BY <1>2, IdAssumption
    <3>2. m \in Listed
      BY <2>1, <3>1
    <3>3. \A n \in Listed' : n < m => n \in Listed
      BY <1>2, <2>1, <3>1, IdAssumption
    <3>4. Rank(m, Listed') <= Rank(m, Listed)
      BY <1>2, <3>3, RankIsMonotone
    <3>5. Rank(m, Listed) < offset
      BY <1>5, <2>1, <3>2 DEF IInv, RepeatInv
    <3>6. Rank(m, Listed) \in Nat /\ Rank(m, Listed') \in Nat /\ offset \in Nat
      BY <1>2, Sizes DEF IInv, WalkTypes
    <3> QED
      BY <3>4, <3>5, <3>6
  <2>5. SkipsAreExplained' /\ RepeatsAreExplained'
    BY <1>3, <1>5, <2>1 DEF IInv, SkipsAreExplained, RepeatsAreExplained
  <2> QED
    BY <1>1, <2>2, <2>3, <2>4, <2>5 DEF IInv
<1> QED
  BY <1>4, <1>5

LEMMA StutterKeeps == ASSUME IInv, UNCHANGED vars PROVE IInv'
<1>1. Listed' = Listed /\ UNCHANGED <<sourceVars, walkVars, kept, added, removed>>
  BY ListedStays DEF vars
<1> QED
  BY <1>1 DEF sourceVars, walkVars, IInv, Parsed, WalkTypes, SkipInv, RepeatInv,
     SkipsAreExplained, RepeatsAreExplained

(* The invariant, for every instance. *)
THEOREM Invariance == Spec => []IInv
<1>1. Init => IInv
  BY InitIInv
<1>2. IInv /\ [Next]_vars => IInv'
  BY BeginKeeps, NextPageKeeps, SourcesChangeKeeps, StutterKeeps DEF Next
<1> QED
  BY <1>1, <1>2, PTL DEF Spec

-----------------------------------------------------------------------------
(* The walk's variables have their types, and no card of OpenRouter asks   *)
(* less than nothing.                                                      *)
THEOREM TypeCorrect == Spec => []TypeOK
<1>1. IInv => TypeOK
  BY ParsedPrices DEF IInv, WalkTypes, TypeOK
<1> QED
  BY <1>1, Invariance, PTL

(* Whatever OpenRouter publishes, a price is published or flagged. *)
THEOREM PricesPublished == Spec => []PricesArePublished
<1>1. IInv => PricesArePublished
  BY ParsedPrices DEF IInv
<1> QED
  BY <1>1, Invariance, PTL

(* However the sources change between the pages of a walk, it misses only  *)
(* models before which another was dropped.                                *)
THEOREM SkipsExplained == Spec => []SkipsAreExplained
<1>1. IInv => SkipsAreExplained
  BY DEF IInv
<1> QED
  BY <1>1, Invariance, PTL

(* And it repeats only models that, or before which others, were listed on *)
(* the way.                                                                *)
THEOREM RepeatsExplained == Spec => []RepeatsAreExplained
<1>1. IInv => RepeatsAreExplained
  BY DEF IInv
<1> QED
  BY <1>1, Invariance, PTL
=============================================================================
