------------------------------ MODULE TTLCache ------------------------------
(***************************************************************************)
(* The in-memory cache in front of every provider HTTP call                *)
(* (providers/cache.py).  One cache holds one value.  Any number of tasks  *)
(* of the event loop call `get`; an asyncio.Lock serialises them, and is   *)
(* held across the await of the fetcher, the only suspension point of      *)
(* `get` besides the acquisition of the lock itself.                       *)
(* A definition named D_X is what D would be with the bug X: nothing here  *)
(* uses it; it is what the properties are there to tell from D.            *)
(*                                                                         *)
(* Data are versions: `upstream` is the version the provider would serve   *)
(* at this instant, and a fetch returns some version the provider had      *)
(* between the moment the request was sent and the moment it is answered.  *)
(***************************************************************************)
EXTENDS Integers, FiniteSets, Sequences, SequencesExt

CONSTANTS Callers,     \* the tasks that may be inside `get`
          TTL,         \* ttl_seconds
          MaxClock,    \* bound on the clock
          MaxVersion,  \* bound on the upstream version
          None         \* Python's None

ASSUME NoneAssumption  == None \notin Callers /\ None \notin Int
ASSUME BoundAssumption == TTL \in Nat /\ MaxClock \in Nat /\ MaxVersion \in Nat

VARIABLES
  value,      \* _value: the cached version, or None
  fetchedAt,  \* _fetched_at: the time of the last successful fetch, or None
  lastError,  \* TRUE while _last_error holds a message
  owner,      \* the task that holds _lock, or None
  waiters,    \* the tasks queued on _lock, in arrival order
  pc,         \* where each task is in `get`
  forced,     \* the `force` argument of each task's latest call
  outcome,    \* how each task's latest call ended
  result,     \* the version it returned, or None
  sent,       \* the upstream version when the fetch in flight was sent
  clock,      \* datetime.now(UTC)
  upstream    \* the version the provider serves now

(* History variables: nothing the code keeps, and no action reads them. *)
VARIABLES
  asked,      \* the upstream version when each task's latest call began
  seen,       \* the newest version any call has returned so far, 0 if none
  floor,      \* the value of `seen` when each task's latest call began
  fills       \* how many unforced calls have refreshed the value

cacheVars   == <<value, fetchedAt, lastError>>
lockVars    == <<owner, waiters>>
callVars    == <<forced, asked, floor>>
replyVars   == <<outcome, result, seen>>
worldVars   == <<clock, upstream>>
vars == <<cacheVars, lockVars, pc, callVars, replyVars, sent, worldVars, fills>>

(***************************************************************************)
(* Versions start at 1, so that 0 can stand for "no version yet".          *)
(***************************************************************************)
Version == Nat \ {0}
Outcomes == {"none", "hit", "new", "stale", "raised"}

TypeOK ==
  /\ value \in Version \cup {None}
  /\ fetchedAt \in Nat \cup {None}
  /\ lastError \in BOOLEAN
  /\ owner \in Callers \cup {None}
  /\ waiters \in Seq(Callers)
  /\ pc \in [Callers -> {"idle", "waiting", "fetching"}]
  /\ forced \in [Callers -> BOOLEAN]
  /\ outcome \in [Callers -> Outcomes]
  /\ result \in [Callers -> Version \cup {None}]
  /\ sent \in Version
  /\ clock \in Nat
  /\ upstream \in Version
  /\ asked \in [Callers -> Nat]
  /\ seen \in Nat
  /\ floor \in [Callers -> Nat]
  /\ fills \in Nat
  /\ value = None <=> fetchedAt = None

Init ==
  /\ value = None /\ fetchedAt = None /\ lastError = FALSE
  /\ owner = None /\ waiters = <<>>
  /\ pc = [c \in Callers |-> "idle"]
  /\ forced = [c \in Callers |-> FALSE]
  /\ outcome = [c \in Callers |-> "none"]
  /\ result = [c \in Callers |-> None]
  /\ sent = 1
  /\ clock = 0 /\ upstream = 1
  /\ asked = [c \in Callers |-> 0]
  /\ seen = 0
  /\ floor = [c \in Callers |-> 0]
  /\ fills = 0

-----------------------------------------------------------------------------
(***************************************************************************)
(* The body of `get`, once the lock is held.                               *)
(***************************************************************************)

Fresh_ForceForgotten(f) ==
  value # None /\ fetchedAt # None /\ clock - fetchedAt < TTL

(* The cached value may be served as it is to a call with `force` = f. *)
Fresh(f) ==
  /\ ~f
  /\ value # None
  /\ fetchedAt # None
  /\ clock - fetchedAt < TTL

(* The call of c returns version v, or raises when v is None. *)
Reply(c, how, v) ==
  /\ outcome' = [outcome EXCEPT ![c] = how]
  /\ result' = [result EXCEPT ![c] = v]
  /\ seen' = IF v # None /\ v > seen THEN v ELSE seen

(* A hit takes and leaves the lock within one step of the event loop. *)
Hit(c, f) ==
  /\ Fresh(f)
  /\ Reply(c, "hit", value)
  /\ pc' = [pc EXCEPT ![c] = "idle"]
  /\ UNCHANGED <<owner, sent>>

StartFetch_Unlocked(c, f) ==
  /\ ~Fresh(f)
  /\ sent' = upstream
  /\ pc' = [pc EXCEPT ![c] = "fetching"]
  /\ outcome' = [outcome EXCEPT ![c] = "none"]
  /\ result' = [result EXCEPT ![c] = None]
  /\ UNCHANGED <<owner, seen>>

(* Otherwise the task awaits the fetcher, holding the lock. *)
StartFetch(c, f) ==
  /\ ~Fresh(f)
  /\ owner' = c
  /\ sent' = upstream
  /\ pc' = [pc EXCEPT ![c] = "fetching"]
  /\ outcome' = [outcome EXCEPT ![c] = "none"]
  /\ result' = [result EXCEPT ![c] = None]
  /\ seen' = seen

Enter(c, f) == Hit(c, f) \/ StartFetch(c, f)

(***************************************************************************)
(* A task calls get(fetcher, force=f).  asyncio.Lock lets it in at once    *)
(* only if the lock is free and nobody queues for it.                      *)
(***************************************************************************)
LockFree_OwnerIgnored == waiters = <<>>
LockFree == owner = None /\ waiters = <<>>

Enqueue(c) ==
  /\ waiters' = Append(waiters, c)
  /\ pc' = [pc EXCEPT ![c] = "waiting"]
  /\ outcome' = [outcome EXCEPT ![c] = "none"]
  /\ result' = [result EXCEPT ![c] = None]
  /\ UNCHANGED <<owner, sent, seen>>

Call(c, f) ==
  /\ pc[c] = "idle"
  /\ forced' = [forced EXCEPT ![c] = f]
  /\ asked' = [asked EXCEPT ![c] = upstream]
  /\ floor' = [floor EXCEPT ![c] = seen]
  /\ \/ LockFree /\ Enter(c, f) /\ UNCHANGED waiters
     \/ ~LockFree /\ Enqueue(c)
  /\ UNCHANGED <<cacheVars, worldVars, fills>>

Grant_NoSecondLook(c) ==
  /\ pc[c] = "waiting"
  /\ owner = None
  /\ waiters # <<>> /\ Head(waiters) = c
  /\ waiters' = Tail(waiters)
  /\ StartFetch(c, TRUE)
  /\ UNCHANGED <<cacheVars, callVars, worldVars, fills>>

(* The first waiter wakes up with the lock and looks at the cache again. *)
Grant(c) ==
  /\ pc[c] = "waiting"
  /\ owner = None
  /\ waiters # <<>> /\ Head(waiters) = c
  /\ waiters' = Tail(waiters)
  /\ Enter(c, forced[c])
  /\ UNCHANGED <<cacheVars, callVars, worldVars, fills>>

(***************************************************************************)
(* The end of the fetch: answered, failed, or its task cancelled.          *)
(***************************************************************************)
Release(c) ==
  /\ owner' = None
  /\ pc' = [pc EXCEPT ![c] = "idle"]

FetchOk_KeepsFirstTime(c) ==
  /\ pc[c] = "fetching"
  /\ \E v \in sent..upstream : value' = v /\ Reply(c, "new", v)
  /\ fetchedAt' = IF fetchedAt = None THEN clock ELSE fetchedAt
  /\ lastError' = FALSE
  /\ fills' = IF forced[c] THEN fills ELSE fills + 1
  /\ Release(c)
  /\ UNCHANGED <<waiters, callVars, sent, worldVars>>

FetchOk(c) ==
  /\ pc[c] = "fetching"
  /\ \E v \in sent..upstream :
       /\ value' = v
       /\ Reply(c, "new", v)
  /\ fetchedAt' = clock
  /\ lastError' = FALSE
  /\ fills' = IF forced[c] THEN fills ELSE fills + 1
  /\ Release(c)
  /\ UNCHANGED <<waiters, callVars, sent, worldVars>>

FetchFail_TimesTheFailure(c) ==
  /\ pc[c] = "fetching"
  /\ lastError' = TRUE
  /\ fetchedAt' = clock
  /\ IF value # None THEN Reply(c, "stale", value) ELSE Reply(c, "raised", None)
  /\ Release(c)
  /\ UNCHANGED <<value, waiters, callVars, sent, worldVars, fills>>

FetchFail_ForcedRaises(c) ==
  /\ pc[c] = "fetching"
  /\ lastError' = TRUE
  /\ IF value # None /\ ~forced[c]
       THEN Reply(c, "stale", value) ELSE Reply(c, "raised", None)
  /\ Release(c)
  /\ UNCHANGED <<value, fetchedAt, waiters, callVars, sent, worldVars, fills>>

(* The fetcher raised: serve what there is, or let the exception through. *)
FetchFail(c) ==
  /\ pc[c] = "fetching"
  /\ lastError' = TRUE
  /\ IF value # None THEN Reply(c, "stale", value) ELSE Reply(c, "raised", None)
  /\ Release(c)
  /\ UNCHANGED <<value, fetchedAt, waiters, callVars, sent, worldVars, fills>>

(***************************************************************************)
(* CancelledError is not an Exception: it passes through the handler of    *)
(* `get`, and leaving the `async with` block releases the lock.  A         *)
(* cancelled waiter leaves the queue.                                      *)
(***************************************************************************)
CancelFetch_KeepsLock(c) ==
  /\ pc[c] = "fetching"
  /\ pc' = [pc EXCEPT ![c] = "idle"]
  /\ UNCHANGED <<cacheVars, lockVars, callVars, replyVars, sent, worldVars, fills>>

CancelFetch(c) ==
  /\ pc[c] = "fetching"
  /\ Release(c)
  /\ UNCHANGED <<cacheVars, waiters, callVars, replyVars, sent, worldVars, fills>>

CancelWait(c) ==
  /\ pc[c] = "waiting"
  /\ \E i \in 1..Len(waiters) :
       /\ waiters[i] = c
       /\ waiters' = RemoveAt(waiters, i)
  /\ pc' = [pc EXCEPT ![c] = "idle"]
  /\ UNCHANGED <<cacheVars, owner, callVars, replyVars, sent, worldVars, fills>>

(* The world: time passes, and the provider publishes new data. *)
Tick ==
  /\ clock < MaxClock
  /\ clock' = clock + 1
  /\ UNCHANGED <<cacheVars, lockVars, pc, callVars, replyVars, sent, upstream, fills>>

Publish ==
  /\ upstream < MaxVersion
  /\ upstream' = upstream + 1
  /\ UNCHANGED <<cacheVars, lockVars, pc, callVars, replyVars, sent, clock, fills>>

Next ==
  \/ \E c \in Callers :
       \/ \E f \in BOOLEAN : Call(c, f)
       \/ Grant(c)
       \/ FetchOk(c)
       \/ FetchFail(c)
       \/ CancelFetch(c)
       \/ CancelWait(c)
  \/ Tick
  \/ Publish

(***************************************************************************)
(* Fairness: the event loop runs a task that was woken up, and a fetch     *)
(* ends because httpx is given a timeout (30 s for either provider).       *)
(* Nobody owes the cache a call, a cancellation, a tick or new data.       *)
(***************************************************************************)
Fairness ==
  \A c \in Callers : WF_vars(Grant(c)) /\ WF_vars(FetchOk(c) \/ FetchFail(c))

Spec == Init /\ [][Next]_vars
FairSpec == Spec /\ Fairness
-----------------------------------------------------------------------------
(***************************************************************************)
(* Properties.                                                             *)
(***************************************************************************)

(* The lock protects the fetch: a task fetches exactly while it owns the   *)
(* lock, so at most one request to the provider is in flight; and a task   *)
(* waits exactly while it stands in the queue, once.                       *)
LockInv ==
  /\ \A c \in Callers : pc[c] = "fetching" <=> owner = c
  /\ \A c \in Callers : pc[c] = "waiting" <=> \E i \in 1..Len(waiters) : waiters[i] = c
  /\ \A i, j \in 1..Len(waiters) : waiters[i] = waiters[j] => i = j

(* Data never go backwards: a call that begins after another call has      *)
(* returned a version returns no older one, whether it was served from the *)
(* cache, from a refresh or from a stale value.                            *)
NeverGoesBack ==
  \A c \in Callers : result[c] # None => result[c] >= floor[c]

(* A forced call is not answered with data older than the call, unless the *)
(* fetch it made failed: not from the cache, and not with the answer of a  *)
(* fetch somebody else had begun before.                                   *)
ForcedIsCurrent ==
  \A c \in Callers :
    forced[c] /\ outcome[c] \in {"hit", "new"} => result[c] >= asked[c]

(* Outages degrade gracefully: once some call has returned data, a call    *)
(* that begins later never raises, whatever the provider does.             *)
AvailableOnceServed ==
  \A c \in Callers : outcome[c] = "raised" => floor[c] = 0

(* Requests of unforced calls that refreshed the value or are in flight.    *)
Spent == fills + Cardinality({c \in Callers : pc[c] = "fetching" /\ ~forced[c]})

(* Refreshes are rationed: however many unforced calls there are, they do  *)
(* not ask the provider again before a TTL has passed.  By time `clock`    *)
(* they have sent at most 1 + clock / TTL requests that succeeded or are   *)
(* still in flight.  Requests that fail or are cancelled come on top: they *)
(* do not move _fetched_at, and every waiter sends its own.                *)
RefreshesAreRationed == Spent # 0 => (Spent - 1) * TTL <= clock

(* What makes the properties above inductive: how the cache, the fetch in  *)
(* flight and the calls relate to the world.                               *)
DataInv ==
  /\ seen # 0 => value # None /\ seen <= value
  /\ value # None => value <= upstream
  /\ fetchedAt # None => fetchedAt <= clock

FlightInv ==
  \A c \in Callers : pc[c] = "fetching" =>
    /\ ~Fresh(forced[c])
    /\ asked[c] <= sent /\ sent <= upstream
    /\ value # None => value <= sent

CallInv ==
  \A c \in Callers : floor[c] <= seen /\ asked[c] <= upstream

RationInv == fills # 0 => fetchedAt # None /\ (fills - 1) * TTL <= fetchedAt

PendingInv ==
  \A c \in Callers : pc[c] # "idle" => outcome[c] = "none" /\ result[c] = None

IInv ==
  /\ TypeOK /\ LockInv /\ DataInv /\ FlightInv /\ CallInv /\ PendingInv
  /\ NeverGoesBack /\ ForcedIsCurrent /\ AvailableOnceServed /\ RationInv

(* Every call ends, although others keep calling, fail and are cancelled.  *)
EveryCallEnds ==
  \A c \in Callers : pc[c] # "idle" ~> pc[c] = "idle"

(* The cache implements its contract: each call takes effect at one        *)
(* instant, and the lock, the queue and the fetch in flight are invisible. *)
Contract == INSTANCE CacheContract WITH
  entry <- [value |-> value, fetchedAt |-> fetchedAt, lastError |-> lastError],
  open <- [c \in Callers |-> pc[c] # "idle"]
ImplementsContract == Contract!Spec
=============================================================================
