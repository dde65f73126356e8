------------------------------ MODULE Adapter ------------------------------
(***************************************************************************)
(* What the catalog's base cards are made of (providers/openrouter.py,     *)
(* providers/local.py): the entries of OpenRouter's latest good payload,   *)
(* parsed when it was fetched, and the files of config/local_models, read  *)
(* for every listing.  An entry that cannot be used is skipped; one that   *)
(* is not even an object fails its fetch as a whole, and the cards of the  *)
(* fetch before stay (TTLCache has the failures of the request itself).    *)
(*                                                                         *)
(* Prices are integers: -1 is the "-1" OpenRouter publishes for models     *)
(* priced dynamically, None a price that is not published.                 *)
(***************************************************************************)
EXTENDS Integers, Sequences

CONSTANTS Ids,       \* model ids, in the order of the strings
          Payloads,  \* the `data` OpenRouter may publish
          Folders,   \* what config/local_models may hold, in the order of the names
          LastDay,   \* bound on the date
          None

Price == Nat \cup {-1, None}
Entry == [ object : BOOLEAN, id : Ids, context : Nat, prompt : Price, completion : Price,
           accepts : SUBSET STRING, has : SUBSET STRING, expires : Nat \cup {None} ]

ASSUME IdAssumption      == Ids \subseteq Int /\ None \notin Int
ASSUME PayloadAssumption == Payloads \subseteq Seq(Entry) /\ Folders \subseteq Seq(Entry)
ASSUME DayAssumption     == LastDay \in Nat

VARIABLES cards,    \* the parsed cards in the adapter's cache, by id
          folder,   \* the files in config/local_models
          today,
          payload   \* history: the payload the cached cards come from

sourceVars == <<cards, folder, today, payload>>

(***************************************************************************)
(* Parsing.                                                                *)
(***************************************************************************)
Usable_AnyPrice(e) == e.object /\ e.context > 0

(* A context length, and no price below 0. *)
Usable(e) == e.object /\ e.context > 0 /\ e.prompt # -1 /\ e.completion # -1

Modalities == {"text", "image", "audio", "video", "file"}

(* A file is a whole card: it names both prices, and modalities there are. *)
UsableFile(e) ==
  Usable(e) /\ None \notin {e.prompt, e.completion} /\ e.accepts \subseteq Modalities

(* Modalities of other names are dropped; a model accepts text at least. *)
Accepts(e) ==
  IF e.accepts \cap Modalities = {} THEN {"text"} ELSE e.accepts \cap Modalities

CardOf_Unflagged(e) ==
  [ input     |-> IF e.prompt = None THEN 0 ELSE e.prompt,
    output    |-> IF e.completion = None THEN 0 ELSE e.completion,
    estimated |-> e.prompt = None /\ e.completion = None,
    context   |-> e.context, accepts |-> Accepts(e), has |-> e.has, expires |-> e.expires ]

(* A price that is not published counts as 0, and the card says so. *)
CardOf(e) ==
  [ input     |-> IF e.prompt = None THEN 0 ELSE e.prompt,
    output    |-> IF e.completion = None THEN 0 ELSE e.completion,
    estimated |-> None \in {e.prompt, e.completion},
    context   |-> e.context, accepts |-> Accepts(e), has |-> e.has, expires |-> e.expires ]

(* The cards of the entries found usable, the last one of each id. *)
CardsOf(entries, found) ==
  [m \in {entries[i].id : i \in found} |->
     CardOf(entries[CHOOSE i \in found :
       entries[i].id = m /\ \A j \in found : entries[j].id = m => j <= i])]

Parse(p)   == CardsOf(p, {i \in DOMAIN p : Usable(p[i])})
Local(f)   == CardsOf(f, {i \in DOMAIN f : UsableFile(f[i])})
Garbled(p) == \E i \in DOMAIN p : ~p[i].object

(* The base cards of the merge: local models come after OpenRouter. *)
Base == [m \in DOMAIN Local(folder) \cup DOMAIN cards |->
           IF m \in DOMAIN Local(folder) THEN Local(folder)[m] ELSE cards[m]]

-----------------------------------------------------------------------------
SourceInit ==
  /\ cards = [m \in {} |-> None] /\ payload = <<>>
  /\ folder \in Folders
  /\ today = 0

Fetch(p) ==
  /\ ~Garbled(p)
  /\ cards' = Parse(p) /\ payload' = p
  /\ UNCHANGED <<folder, today>>

FetchGarbled(p) == Garbled(p) /\ UNCHANGED sourceVars

EditFolder ==
  /\ folder' \in Folders
  /\ UNCHANGED <<cards, today, payload>>

NextDay ==
  /\ today < LastDay
  /\ today' = today + 1
  /\ UNCHANGED <<cards, folder, payload>>

SourceNext ==
  \/ \E p \in Payloads : Fetch(p) \/ FetchGarbled(p)
  \/ EditFolder
  \/ NextDay

-----------------------------------------------------------------------------
(* Nothing is free by accident: what a card of OpenRouter asks is not      *)
(* below 0, and is either what some entry of the payload publishes for     *)
(* this model or flagged as an estimate, whatever else the payload holds.  *)
PricesArePublished ==
  \A m \in DOMAIN cards :
    \E i \in DOMAIN payload :
      /\ payload[i].id = m
      /\ cards[m].input >= 0 /\ cards[m].output >= 0
      /\ ~cards[m].estimated =>
           cards[m].input = payload[i].prompt /\ cards[m].output = payload[i].completion
=============================================================================
