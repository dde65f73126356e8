------------------------------- MODULE Catalog -------------------------------
(***************************************************************************)
(* How the registry merges its sources into the served catalog             *)
(* (registry/registry.py: catalog): base cards in provider order, quality  *)
(* records through the alias map with the tiers Tiers derives, curated     *)
(* overrides, and last the signals in supported_parameters.                *)
(*                                                                         *)
(* Registry.tla has the same handler with its awaits and failures; this    *)
(* module has what one merge makes of the data it got.  A source that      *)
(* failed contributes nothing, as if it were empty.                        *)
(*                                                                         *)
(* Of a card the model keeps what some layer writes (tiers, quality        *)
(* indices, benchmark scores, the performance profile and tags) and the    *)
(* supported parameters.  Two slugs never share an alias, as in            *)
(* model_aliases.yaml.                                                     *)
(***************************************************************************)
EXTENDS Tiers

CONSTANTS Models,
          Alias,        \* model_aliases.yaml: slug -> model, or None
          Agentic,      \* the capability that tool support stands for
          Listable,     \* what a provider's card of a model may be
          Measured,     \* the scores and speed a record may have
          Curatable     \* what overrides.yaml may say of a model

ASSUME ModelsAssumption == None \notin Models
ASSUME AliasAssumption ==
  /\ Alias \in [Slugs -> Models \cup {None}]
  /\ \A p, s \in Slugs : Alias[p] = Alias[s] /\ Alias[p] # None => p = s
ASSUME AgenticAssumption == Agentic \in Indices
ASSUME ListableAssumption ==
  \A card \in Listable :
    DOMAIN card = {"tiers", "indices", "scores", "speed", "tags", "has"}

VARIABLES openrouter,  \* the cards OpenRouter lists, by model
          local,       \* the cards of config/local_models
          measured,    \* scores and speed in the record of a slug, or None
          curated      \* the tiers, scores and tags of overrides.yaml, by model

vars == <<reports, openrouter, local, measured, curated>>

Nothing == [m \in {} |-> None]
Plain(card) == card.tiers = Nothing /\ card.scores = Nothing
                 /\ card.indices = Nothing /\ card.tags = {} /\ card.speed = None

(***************************************************************************)
(* The merge.                                                              *)
(***************************************************************************)
(* dict.update, and {**old, **new} *)
Update(old, new) ==
  [x \in DOMAIN old \cup DOMAIN new |-> IF x \in DOMAIN new THEN new[x] ELSE old[x]]
Put(f, x, y) == Update(f, [k \in {x} |-> y])

Base_FirstProviderWins == Update(local, openrouter)

(* Later providers win, and local models come after OpenRouter. *)
Base == Update(openrouter, local)

HasRecord(s) == measured[s] # None \/ \E i \in Indices : reports[s][i] # None
RecordOf(s) ==
  [ indices |-> [i \in {j \in Indices : reports[s][j] # None} |-> reports[s][i]],
    scores  |-> IF measured[s] = None THEN Nothing ELSE measured[s].scores,
    speed   |-> IF measured[s] = None THEN None ELSE measured[s].speed ]

SlugOf(m) == {s \in Slugs : Alias[s] = m /\ HasRecord(s)}

WithQuality_TiersKept(m, card) ==
  IF SlugOf(m) = {} THEN card
  ELSE LET s == CHOOSE p \in SlugOf(m) : TRUE
       IN  [card EXCEPT !.indices = RecordOf(s).indices,
                        !.scores = Update(@, RecordOf(s).scores),
                        !.speed = IF RecordOf(s).speed = None THEN @ ELSE RecordOf(s).speed,
                        !.tiers = Update(Derived(s), @)]

WithQuality_ScoresReplaced(m, card) ==
  IF SlugOf(m) = {} THEN card
  ELSE LET s == CHOOSE p \in SlugOf(m) : TRUE
       IN  [card EXCEPT !.indices = RecordOf(s).indices,
                        !.scores = RecordOf(s).scores,
                        !.speed = IF RecordOf(s).speed = None THEN @ ELSE RecordOf(s).speed,
                        !.tiers = Update(@, Derived(s))]

(* The record of the model's slug, if there is one: its indices replace    *)
(* the card's, even by none; a speed it has replaces the card's; scores    *)
(* and the derived tiers update the card's.                                *)
WithQuality(m, card) ==
  IF SlugOf(m) = {} THEN card
  ELSE LET s == CHOOSE p \in SlugOf(m) : TRUE
       IN  [card EXCEPT !.indices = RecordOf(s).indices,
                        !.scores = Update(@, RecordOf(s).scores),
                        !.speed = IF RecordOf(s).speed = None THEN @ ELSE RecordOf(s).speed,
                        !.tiers = Update(@, Derived(s))]

WithOverrides(m, card) ==
  IF m \in DOMAIN curated
  THEN [card EXCEPT !.tiers = Update(@, curated[m].tiers),
                    !.scores = Update(@, curated[m].scores),
                    !.tags = @ \cup curated[m].tags]
  ELSE card

Signals(card) == card.has \cap {"structured_outputs"}

WithSignals_Always(card) ==
  [card EXCEPT !.tiers = IF "tools" \in card.has THEN Put(@, Agentic, 2) ELSE @,
               !.tags = @ \cup Signals(card)]

(* A model with tools but no agentic tier from anywhere gets tier 2, and   *)
(* structured outputs are a tag.                                           *)
WithSignals(card) ==
  [card EXCEPT !.tiers = IF "tools" \in card.has /\ Agentic \notin DOMAIN @
                           THEN Put(@, Agentic, 2) ELSE @,
               !.tags = @ \cup Signals(card)]

Served == [m \in DOMAIN Base |-> WithSignals(WithOverrides(m, WithQuality(m, Base[m])))]

-----------------------------------------------------------------------------
(***************************************************************************)
(* The sources change between one merge and the next.                      *)
(***************************************************************************)
CatalogInit ==
  /\ Init
  /\ openrouter = Nothing /\ local = Nothing /\ curated = Nothing
  /\ measured = [s \in Slugs |-> None]

Drop(f, m)   == [n \in DOMAIN f \ {m} |-> f[n]]

(* The other records are dropped: all that matters of them is their rank. *)
Aliased == {s \in Slugs : Alias[s] # None}

QualityChanges ==
  /\ \/ Next /\ UNCHANGED measured
     \/ \E s \in Aliased, r \in Measured \cup {None} :
          r # measured[s] /\ measured' = [measured EXCEPT ![s] = r] /\ UNCHANGED reports
  /\ UNCHANGED <<openrouter, local, curated>>

OpenRouterChanges(m) ==
  /\ \/ \E card \in Listable : Plain(card) /\ openrouter' = Put(openrouter, m, card)
     \/ m \in DOMAIN openrouter /\ openrouter' = Drop(openrouter, m)
  /\ UNCHANGED <<reports, measured, local, curated>>

LocalChanges(m) ==
  /\ \/ \E card \in Listable : local' = Put(local, m, card)
     \/ m \in DOMAIN local /\ local' = Drop(local, m)
  /\ UNCHANGED <<reports, measured, openrouter, curated>>

CuratorEdits(m) ==
  /\ \/ \E override \in Curatable : curated' = Put(curated, m, override)
     \/ m \in DOMAIN curated /\ curated' = Drop(curated, m)
  /\ UNCHANGED <<reports, measured, openrouter, local>>

CatalogNext ==
  \/ QualityChanges
  \/ \E m \in Models : OpenRouterChanges(m) \/ LocalChanges(m) \/ CuratorEdits(m)

CatalogSpec == CatalogInit /\ [][CatalogNext]_vars

-----------------------------------------------------------------------------
(***************************************************************************)
(* Properties.                                                             *)
(***************************************************************************)
(* overrides.yaml always wins: whatever was derived, measured, listed or   *)
(* signalled, a curated tier or score is the one served, and a curated tag *)
(* is there.                                                               *)
CuratedWins ==
  LET served == Served
  IN  \A m \in DOMAIN served \cap DOMAIN curated :
        /\ \A c \in DOMAIN curated[m].tiers : served[m].tiers[c] = curated[m].tiers[c]
        /\ \A e \in DOMAIN curated[m].scores : served[m].scores[e] = curated[m].scores[e]
        /\ curated[m].tags \subseteq served[m].tags

Curates(m, c) == m \in DOMAIN curated /\ c \in DOMAIN curated[m].tiers

(* Every tier served that nobody curated is explained by the card it is    *)
(* served on: by the index shown there, by the card the model was listed   *)
(* with, or by tool support.                                               *)
TiersAreExplained ==
  LET served == Served
      base == Base
  IN  \A m \in DOMAIN served : \A c \in DOMAIN served[m].tiers :
        LET card == served[m]
        IN  \/ Curates(m, c)
            \/ \E s \in SlugOf(m) :
                 /\ c \in DOMAIN card.indices
                 /\ card.indices[c] = reports[s][c] /\ card.tiers[c] = Tier(c, s)
            \/ /\ c \in DOMAIN base[m].tiers /\ card.tiers[c] = base[m].tiers[c]
               /\ c \notin DOMAIN card.indices \/ card.indices = base[m].indices
            \/ c = Agentic /\ "tools" \in card.has /\ card.tiers[c] = 2

(* A local card stands for its model altogether: while it is there,        *)
(* whatever OpenRouter lists or withdraws changes nothing that is served   *)
(* of that model.                                                          *)
LocalCardsShadow ==
  [][ \A m \in DOMAIN local \cap DOMAIN local' :
        reports' = reports /\ measured' = measured /\ local' = local /\ curated' = curated
          => Served'[m] = Served[m] ]_vars

(* Nothing that was reported, measured or curated is changed or withdrawn, *)
(* apart from values of indices.                                           *)
MoreIsKnown ==
  /\ openrouter' = openrouter /\ local' = local
  /\ \A s \in Slugs :
       /\ measured[s] # None => measured'[s] = measured[s]
       /\ \A i \in Indices : reports[s][i] # None => reports'[s][i] # None
  /\ \A m \in DOMAIN curated : m \in DOMAIN curated' /\ curated'[m] = curated[m]

Keeps(card, later) ==
  /\ DOMAIN card.tiers \subseteq DOMAIN later.tiers
  /\ DOMAIN card.scores \subseteq DOMAIN later.scores
  /\ card.tags \subseteq later.tags
  /\ card.speed # None => later.speed # None

(* Knowing more of models takes nothing off their cards: when a record     *)
(* arrives, grows or is revised, or an override is added, every model      *)
(* keeps a tier where it had one, every score, its tags and a speed, so a  *)
(* filter on what a model has does not lose it.  Indices are not kept: a   *)
(* record replaces those of a local card.                                  *)
EnrichmentOnlyAdds ==
  [][ MoreIsKnown => LET before == Served
                         after == Served'
                     IN  \A m \in DOMAIN before :
                           \E later \in {after[m]} : Keeps(before[m], later) ]_vars

(* What /v1/capabilities and ModelCard say of tool support: it floors the  *)
(* agentic tier at 2, unless the tier is curated.                          *)
ToolsFloorAgentic ==
  \A m \in DOMAIN Served :
    "tools" \in Served[m].has /\ ~Curates(m, Agentic) => Served[m].tiers[Agentic] >= 2
=============================================================================
