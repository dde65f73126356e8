------------------------------ MODULE Registry ------------------------------
(***************************************************************************)
(* The registry at run time (registry/registry.py and its callers in       *)
(* service.py): concurrent requests that build the served catalog from two *)
(* cached HTTP sources and the override file, refreshes that force both    *)
(* sources, and the 404 path, which builds a second catalog to suggest     *)
(* ids.  A source answers by the rules of CacheRules, which TTLCache is    *)
(* shown to implement.                                                     *)
(*                                                                         *)
(* The event loop runs a task until it awaits something that is not ready: *)
(* here, a source whose lock somebody has, or that has no fresh value.  So *)
(* one step takes a request from the answer it waited for as far as the    *)
(* next source that makes it wait, or to its response.                     *)
(***************************************************************************)
EXTENDS CacheRules, Sequences, Functions

CONSTANTS Tasks,        \* concurrent requests
          TTL,          \* time to live of each source's cache
          HasKey,       \* whether AA_API_KEY is set
          Listed,       \* the OpenRouter versions that list the id asked for
          Revisions,    \* revisions of overrides.yaml
          MaxClock, MaxVersion

Models  == "openrouter"
Quality == "artificial_analysis"
Sources == {Models, Quality}

ASSUME NoneAssumption   == None \notin Int
ASSUME TTLAssumption    == TTL \in [Sources -> Nat]
ASSUME ConfigAssumption == HasKey \in BOOLEAN /\ None \notin Revisions

VARIABLES
  entry,      \* each source's cache entry
  upstream,   \* the version each source publishes now
  clock,
  overrides,  \* the revision in overrides.yaml, or None if it does not parse
  cardMarks,  \* the revisions applied to the card objects held in the cache
  request,    \* each request in progress, or Idle
  queue,      \* for each source, who has the lock of its cache, then who waits for it
  response,   \* the response sent by the latest step, if it sent one
  served      \* history: the newest version any response has shown

sourceVars == <<entry, upstream, clock>>
vars == <<sourceVars, overrides, cardMarks, request, queue, response, served>>

Skipped == [how |-> "skipped", version |-> None]
Zero    == [s \in Sources |-> 0]

(* A request: what was asked, the source it waits for, that source's       *)
(* version when the wait began, OpenRouter's reply once received, and      *)
(* whether this is already the second catalog of a 404.  For the           *)
(* properties: what had been served when it began, and for a refresh what  *)
(* was published then.                                                     *)
Request(o) ==
  [op |-> o, at |-> "nowhere", asked |-> 0, models |-> Skipped, suggesting |-> FALSE,
   seen |-> served, since |-> IF o = "refresh" THEN upstream ELSE Zero]
Idle == [op |-> "none", at |-> "idle", asked |-> 0, models |-> Skipped,
         suggesting |-> FALSE, seen |-> Zero, since |-> Zero]
NoResponse == [kind |-> "none"]

Init ==
  /\ entry = [s \in Sources |-> Empty]
  /\ upstream = [s \in Sources |-> 1]
  /\ clock = 0
  /\ overrides \in Revisions \cup {None}
  /\ cardMarks = {}
  /\ request = [t \in Tasks |-> Idle]
  /\ queue = [s \in Sources |-> <<>>]
  /\ response = NoResponse
  /\ served = Zero

-----------------------------------------------------------------------------
(***************************************************************************)
(* What a request does between two awaits.  r is the request, m and q the  *)
(* replies of the two sources, e the cache entries and marks the marks on  *)
(* the cached cards at this point of the step.                             *)
(***************************************************************************)
Received(reply) == [how |-> reply.how, version |-> reply.version]
Number(version) == IF version = None THEN 0 ELSE version

(* The queues when t has left the lock it had, if it had one. *)
Left(t) ==
  IF request[t].at \in Sources THEN [queue EXCEPT ![request[t].at] = Tail(@)] ELSE queue

(* A fresh value is looked at under the lock only, so t gets it without    *)
(* waiting only if nobody has the lock or waits for it.                    *)
Ready(t, e, s, force) == Left(t)[s] = <<>> /\ IsFresh(e[s], force, clock, TTL[s])

Await_RepliesKept(t, r, s, m) ==
  /\ request' = [request EXCEPT ![t] = [r EXCEPT !.at = s, !.asked = upstream[s]]]
  /\ queue' = [Left(t) EXCEPT ![s] = Append(@, t)]
  /\ response' = NoResponse
  /\ served' = served

Await(t, r, s, m) ==
  /\ request' = [request EXCEPT ![t] =
       [r EXCEPT !.at = s, !.asked = upstream[s], !.models = m]]
  /\ queue' = [Left(t) EXCEPT ![s] = Append(@, t)]
  /\ response' = NoResponse
  /\ served' = served

Respond(t, r, kind, m, q, marks) ==
  LET got == [s \in Sources |-> IF s = Models THEN m ELSE q] IN
  /\ response' =
       [kind |-> kind, got |-> got, marks |-> marks, seen |-> r.seen, since |-> r.since]
  /\ request' = [request EXCEPT ![t] = Idle]
  /\ queue' = Left(t)
  /\ served' = [s \in Sources |->
       IF Number(got[s].version) > served[s] THEN got[s].version ELSE served[s]]

CardMarksAfter_Shared(marks, applied) == applied

(* list_models returns the cached objects; the catalog enriches deep       *)
(* copies of them, so what it applies stays out of the cache.              *)
CardMarksAfter(marks, applied) == marks

(* The catalog is merged.  overrides.yaml is read now; a file that does    *)
(* not parse fails the request, or leaves a 404 without suggestions.       *)
Merge(t, r, m, q, marks) ==
  LET applied == IF overrides = None THEN {} ELSE marks \cup {overrides}
      kind == IF r.suggesting THEN "missing"
              ELSE IF overrides = None THEN "error"
              ELSE IF r.op = "get" THEN "found" ELSE "catalog"
  IN /\ Respond(t, r, kind, m, q, applied)
     /\ cardMarks' = IF overrides = None THEN marks ELSE CardMarksAfter(marks, applied)

QualityHit(e) == IF HasKey THEN Received(Hit(e[Quality])) ELSE Skipped

(* The second catalog of a 404. *)
Suggest(t, r, e, marks) ==
  LET m == Received(Hit(e[Models])) IN
  IF ~Ready(t, e, Models, FALSE)
  THEN Await(t, r, Models, Skipped) /\ cardMarks' = marks
  ELSE IF HasKey /\ ~Ready(t, e, Quality, FALSE)
  THEN Await(t, r, Quality, m) /\ cardMarks' = marks
  ELSE Merge(t, r, m, QualityHit(e), marks)

Finish_SuggestsAgain(t, r, e, m, q, marks) ==
  IF r.op = "refresh"
  THEN Respond(t, r, "report", m, q, {}) /\ cardMarks' = marks
  ELSE IF r.op = "get" /\ ~r.suggesting /\ overrides # None /\ m.version \notin Listed
  THEN Suggest(t, r, e, CardMarksAfter(marks, marks \cup {overrides}))
  ELSE Merge(t, r, m, q, marks)

(* Both sources have replied. *)
Finish(t, r, e, m, q, marks) ==
  IF r.op = "refresh"
  THEN Respond(t, r, "report", m, q, {}) /\ cardMarks' = marks
  ELSE IF r.op = "get" /\ ~r.suggesting /\ overrides # None /\ m.version \notin Listed
  THEN Suggest(t, [r EXCEPT !.suggesting = TRUE], e,
               CardMarksAfter(marks, marks \cup {overrides}))
  ELSE Merge(t, r, m, q, marks)

(* OpenRouter has replied; what is left is Artificial Analysis. *)
AfterModels(t, r, e, m, marks) ==
  IF HasKey /\ ~Ready(t, e, Quality, r.op = "refresh")
  THEN Await(t, r, Quality, m) /\ cardMarks' = marks
  ELSE Finish(t, r, e, m, QualityHit(e), marks)

-----------------------------------------------------------------------------
(***************************************************************************)
(* Steps.                                                                  *)
(***************************************************************************)
Begin(t, o) ==
  /\ request[t] = Idle
  /\ IF Ready(t, entry, Models, o = "refresh")
     THEN AfterModels(t, Request(o), entry, Received(Hit(entry[Models])), cardMarks)
     ELSE Await(t, Request(o), Models, Skipped) /\ UNCHANGED cardMarks
  /\ UNCHANGED <<sourceVars, overrides>>

(* The lock is granted in the order of the queue, and kept until the reply.*)
InTurn(t, s) == request[t].at = s /\ Head(queue[s]) = t

(* The replies the source that t waits for may give it now. *)
Awaited(t) ==
  LET r == request[t]
  IN  Replies(entry[r.at], r.op = "refresh", r.asked, upstream[r.at], clock, TTL[r.at])

ModelsReply(t) ==
  /\ InTurn(t, Models)
  /\ \E reply \in Awaited(t) :
       /\ entry' = [entry EXCEPT ![Models] = reply.entry]
       /\ AfterModels(t, request[t], entry', Received(reply),
                      IF reply.how = "new" THEN {} ELSE cardMarks)
  /\ UNCHANGED <<upstream, clock, overrides>>

QualityReply(t) ==
  /\ InTurn(t, Quality)
  /\ \E reply \in Awaited(t) :
       /\ entry' = [entry EXCEPT ![Quality] = reply.entry]
       /\ Finish(t, request[t], entry', request[t].models, Received(reply), cardMarks)
  /\ UNCHANGED <<upstream, clock, overrides>>

(* The world: time, publications, and the operator editing overrides.yaml. *)
Tick ==
  /\ clock < MaxClock
  /\ clock' = clock + 1
  /\ response' = NoResponse
  /\ UNCHANGED <<entry, upstream, overrides, cardMarks, request, queue, served>>

Publish(s) ==
  /\ upstream[s] < MaxVersion
  /\ upstream' = [upstream EXCEPT ![s] = @ + 1]
  /\ response' = NoResponse
  /\ UNCHANGED <<entry, clock, overrides, cardMarks, request, queue, served>>

EditOverrides ==
  /\ overrides' \in (Revisions \cup {None}) \ {overrides}
  /\ response' = NoResponse
  /\ UNCHANGED <<sourceVars, cardMarks, request, queue, served>>

Next ==
  \/ \E t \in Tasks :
       \/ \E o \in {"catalog", "get", "refresh"} : Begin(t, o)
       \/ ModelsReply(t)
       \/ QualityReply(t)
  \/ Tick
  \/ \E s \in Sources : Publish(s)
  \/ EditOverrides

Spec == Init /\ [][Next]_vars

(* The event loop runs every task whose source has answered, and a source  *)
(* answers every call (TTLCache: EveryCallEnds).                           *)
FairSpec == Spec /\ \A t \in Tasks : WF_vars(ModelsReply(t) \/ QualityReply(t))

-----------------------------------------------------------------------------
(***************************************************************************)
(* Properties.                                                             *)
(***************************************************************************)
Answered == response # NoResponse

(* Types, and how a request's state hangs together: OpenRouter's reply is  *)
(* held exactly while Artificial Analysis is awaited, and a request stands *)
(* in the queue of the source it awaits, once, and in no other.            *)
TypeOK ==
  /\ \A s \in Sources :
       /\ entry[s].value \in 1..upstream[s] \cup {None}
       /\ entry[s].value # None => entry[s].fetchedAt \in 0..clock
       /\ served[s] <= upstream[s]
  /\ \A t \in Tasks :
       /\ request[t].at \in Sources \cup {"idle"}
       /\ request[t].at = Quality <=> request[t].models # Skipped
       /\ request[t].suggesting => request[t].op = "get"
  /\ \A s \in Sources :
       /\ queue[s] \in Seq(Tasks) /\ IsInjective(queue[s])
       /\ \A t \in Tasks : t \in Range(queue[s]) <=> request[t].at = s

(* A request that begins after another was answered sees nothing older     *)
(* from either source, whatever fails, is forced or is answered out of     *)
(* order meanwhile; so models once served never vanish in an outage.       *)
NeverOlder ==
  Answered => \A s \in Sources : Number(response.got[s].version) >= response.seen[s]

(* No false 404: an id that was listed by what had been served when the    *)
(* request began, and by every version up to the one the suggestions were  *)
(* made from, is found.  So a 404 suggests the very id it misses only if a *)
(* version before that one did not list it.                                *)
NoFalse404 ==
  Answered /\ response.kind = "missing" =>
    \/ response.seen[Models] = 0
    \/ \E v \in response.seen[Models]..Number(response.got[Models].version) : v \notin Listed

(* A catalog is enriched with the override file as it is at that moment    *)
(* and with nothing an earlier request applied to the same cards; never    *)
(* by halves, without the file when it does not parse.                     *)
OnlyCurrentOverrides ==
  Answered =>
    /\ response.marks \subseteq {overrides}
    /\ response.kind \in {"catalog", "found"} =>
         overrides # None /\ response.marks = {overrides}

(* Every request is answered, whatever the sources do.                     *)
EveryRequestEnds ==
  \A t \in Tasks : request[t] # Idle ~> request[t] = Idle

(* What POST /v1/models/refresh says of itself: a source reported ok was   *)
(* fetched again, so its data are at least as new as the request.  The     *)
(* code reports ok for a stale value as well.                              *)
ReportedOkIsRefetched ==
  Answered /\ response.kind = "report" =>
    \A s \in Sources :
      response.got[s].how \notin {"raised", "skipped"} =>
        response.got[s].version >= response.since[s]
=============================================================================
