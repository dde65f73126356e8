--------------------------- MODULE CacheContract ---------------------------
(***************************************************************************)
(* What a TTL cache promises to its callers, whatever it does to serialise *)
(* them: there is no lock, no queue and no request in flight here, and     *)
(* every call is answered in a single step, at some instant between its    *)
(* beginning and its end, by the rules of CacheRules.  TTLCache implements *)
(* this specification, and Registry builds on the same rules.              *)
(***************************************************************************)
EXTENDS CacheRules

CONSTANTS Callers, TTL, MaxClock, MaxVersion

VARIABLES
  entry,            \* what the cache holds
  open,             \* whether each task has a call to be answered
  forced, asked,    \* its `force`, and the upstream version when it began
  outcome, result,  \* how each task's latest call was answered
  clock, upstream   \* the world

request == <<forced, asked>>
world   == <<clock, upstream>>
vars == <<entry, open, request, outcome, result, world>>

Init ==
  /\ entry = Empty
  /\ open = [c \in Callers |-> FALSE]
  /\ forced = [c \in Callers |-> FALSE]
  /\ asked = [c \in Callers |-> 0]
  /\ outcome = [c \in Callers |-> "none"]
  /\ result = [c \in Callers |-> None]
  /\ clock = 0 /\ upstream = 1

Finish(c, reply) ==
  /\ open' = [open EXCEPT ![c] = FALSE]
  /\ outcome' = [outcome EXCEPT ![c] = reply.how]
  /\ result' = [result EXCEPT ![c] = reply.version]

(* A call begins; a fresh value may answer it at once. *)
Ask(c, f) ==
  /\ ~open[c]
  /\ forced' = [forced EXCEPT ![c] = f]
  /\ asked' = [asked EXCEPT ![c] = upstream]
  /\ \/ IsFresh(entry, f, clock, TTL) /\ Finish(c, Hit(entry))
     \/ /\ open' = [open EXCEPT ![c] = TRUE]
        /\ outcome' = [outcome EXCEPT ![c] = "none"]
        /\ result' = [result EXCEPT ![c] = None]
  /\ UNCHANGED <<entry, world>>

Answer(c) ==
  /\ open[c]
  /\ \E reply \in Replies(entry, forced[c], asked[c], upstream, clock, TTL) :
       entry' = reply.entry /\ Finish(c, reply)
  /\ UNCHANGED <<request, world>>

Withdraw(c) ==
  /\ open[c]
  /\ open' = [open EXCEPT ![c] = FALSE]
  /\ UNCHANGED <<entry, request, outcome, result, world>>

Tick ==
  /\ clock < MaxClock
  /\ clock' = clock + 1
  /\ UNCHANGED <<entry, open, request, outcome, result, upstream>>

Publish ==
  /\ upstream < MaxVersion
  /\ upstream' = upstream + 1
  /\ UNCHANGED <<entry, open, request, outcome, result, clock>>

Next ==
  \/ \E c \in Callers :
       \/ \E f \in BOOLEAN : Ask(c, f)
       \/ Answer(c)
       \/ Withdraw(c)
  \/ Tick
  \/ Publish

Spec == Init /\ [][Next]_vars
=============================================================================
