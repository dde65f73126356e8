------------------------------- MODULE Pager -------------------------------
(***************************************************************************)
(* Reading the whole listing page by page (GET /v1/models in app.py).      *)
(* Every page is cut out of a catalog built, filtered and sorted anew, so  *)
(* the sources change between the pages of one walk.  The server keeps no  *)
(* cursor: the walk is the caller's, who asks for the next offset until    *)
(* it reaches the `total` of the latest page.                              *)
(***************************************************************************)
EXTENDS Adapter, FiniteSets

CONSTANTS Query,  \* the criteria of the walk
          Limit   \* its `limit`

ASSUME FiniteAssumption == IsFiniteSet(Ids)
ASSUME LimitAssumption  == Limit \in Nat \ {0}

VARIABLES walking,  \* a walk is in progress
          offset,   \* the offset of its next page
          seen      \* the ids on its pages so far

(* History of the walk: what has been listed all along, what was listed    *)
(* or dropped on the way, and what has been on two pages.                  *)
VARIABLES kept, added, removed, repeated

walkVars == <<walking, offset, seen, repeated>>
vars     == <<sourceVars, walkVars, kept, added, removed>>

Q == INSTANCE Queries WITH cards <- Base, Cards <- {}, Weights <- {}, TopN <- 1

Listed == Q!Filter(Query)

(* The place of a model in a listing, which is sorted by id. *)
Rank(m, S) == Cardinality({n \in S : n < m})

PageOf_OneMore(S, o) == {m \in S : Rank(m, S) \in o .. o + Limit}

PageOf_OneBased(S, o) == {m \in S : Rank(m, S) \in o + 1 .. o + Limit}

PageOf(S, o) == {m \in S : Rank(m, S) \in o .. o + Limit - 1}

-----------------------------------------------------------------------------
Init ==
  /\ SourceInit
  /\ walking = FALSE /\ offset = 0 /\ seen = {} /\ repeated = {}
  /\ kept = {} /\ added = {} /\ removed = {}

Begin ==
  /\ ~walking
  /\ walking' = TRUE /\ offset' = 0 /\ seen' = {} /\ repeated' = {}
  /\ kept' = Listed /\ added' = {} /\ removed' = {}
  /\ UNCHANGED sourceVars

NextPage ==
  /\ walking
  /\ LET listed == Listed
         page == PageOf(listed, offset)
     IN  /\ seen' = seen \cup page
         /\ repeated' = repeated \cup (seen \cap page)
         /\ walking' = (offset + Limit < Cardinality(listed))
  /\ offset' = offset + Limit
  /\ UNCHANGED <<sourceVars, kept, added, removed>>

(* Days pass, fetches succeed and files are edited, between two pages too. *)
SourcesChange ==
  /\ SourceNext
  /\ IF walking
     THEN LET before == Listed
              after == Listed'
          IN  /\ kept' = kept \cap after
              /\ added' = added \cup (after \ before)
              /\ removed' = removed \cup (before \ after)
     ELSE UNCHANGED <<kept, added, removed>>
  /\ UNCHANGED walkVars

Next == Begin \/ NextPage \/ SourcesChange

Spec == Init /\ [][Next]_vars

-----------------------------------------------------------------------------
(***************************************************************************)
(* Properties.                                                             *)
(***************************************************************************)
(* Types: no card asks less than nothing, and what has been kept is there. *)
TypeOK ==
  /\ DOMAIN cards \subseteq Ids
  /\ \A m \in DOMAIN cards : cards[m].input \in Nat /\ cards[m].output \in Nat
  /\ folder \in Folders /\ today \in 0..LastDay
  /\ walking \in BOOLEAN /\ offset \in Nat
  /\ UNION {seen, kept, added, removed} \subseteq Ids /\ repeated \subseteq seen
  /\ walking => kept \subseteq Listed

(* A finished walk has missed a model that was listed all along only if    *)
(* one that comes before it was dropped on the way: growing, shrinking     *)
(* behind it and repricing lose nothing.                                   *)
SkipsAreExplained ==
  ~walking => \A m \in kept \ seen : \E n \in removed : n < m

(* A model is on two pages of a walk only if it, or one that comes before  *)
(* it, was listed on the way.                                              *)
RepeatsAreExplained ==
  \A m \in repeated : \E n \in added : n <= m
=============================================================================
