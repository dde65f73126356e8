--------------------------- MODULE RegistryProofs ---------------------------
(***************************************************************************)
(* Theorems about Registry, for any number of concurrent requests, any     *)
(* times to live, any revisions and any bounds, with and without the key   *)
(* of Artificial Analysis.                                                 *)
(*                                                                         *)
(* The argument: a cache entry never gets older, and holds at least what   *)
(* any response has shown.  A request has seen no more than that when it   *)
(* began, so each reply it gets is at least as new as what it has seen,    *)
(* and stays so while it waits for the other source.                       *)
(***************************************************************************)
EXTENDS Registry, SequenceTheorems, TLAPS

USE NoneAssumption, TTLAssumption, ConfigAssumption

Replied  == [how : {"skipped", "hit", "new", "stale", "raised"}, version : Nat \cup {None}]
Entries  == [value : Nat \cup {None}, fetchedAt : Nat \cup {None}, lastError : BOOLEAN]
Requests ==
  [ op : {"none", "catalog", "get", "refresh"}, at : Sources \cup {"idle", "nowhere"},
    asked : Nat, models : Replied, suggesting : BOOLEAN,
    seen : [Sources -> Nat], since : [Sources -> Nat] ]

(* A request that looks for suggestions missed the id in a version from    *)
(* what it had seen up to n.                                               *)
Unlisted(v, n) == v = 0 \/ \E w \in v..n : w \notin Listed
Missed(r, n) == r.suggesting => Unlisted(r.seen[Models], n)

(* What the cache may hold: versions that were published, at least as new  *)
(* as what was served, fetched in the past.                                *)
GoodEntry(e, s) ==
  /\ e.value # None => e.value \in 1..upstream[s] /\ e.fetchedAt \in 0..clock
  /\ served[s] <= Number(e.value)

GoodEntries(e) ==
  /\ e \in [Sources -> Entries]
  /\ \A s \in Sources : GoodEntry(e[s], s)
  /\ ~HasKey => e[Quality].value = None

(* A reply of source s that request r may build on, when e is cached. *)
GoodReply(m, r, e, s) ==
  /\ m \in Replied
  /\ r.seen[s] <= Number(m.version) /\ Number(m.version) <= Number(e[s].value)

(* A request that is being handled. *)
GoodRequest(r) ==
  /\ r \in Requests
  /\ \A s \in Sources : r.seen[s] <= served[s]
  /\ r.suggesting => r.op = "get"

(* A request that waits for s while the replies so far are m. *)
GoodWait(r, m, e, s) ==
  \/ /\ s = Models /\ m = Skipped
     /\ Missed(r, Number(e[Models].value))
  \/ /\ s = Quality /\ HasKey /\ m.how # "skipped" /\ GoodReply(m, r, e, Models)
     /\ Missed(r, Number(m.version))

WorldInv ==
  /\ upstream \in [Sources -> Nat \ {0}] /\ clock \in Nat
  /\ served \in [Sources -> Nat]
  /\ overrides \in Revisions \cup {None}
  /\ cardMarks = {}

EntriesInv == GoodEntries(entry)

RequestsInv ==
  /\ request \in [Tasks -> Requests]
  /\ \A t \in Tasks : request[t] # Idle =>
       /\ GoodRequest(request[t]) /\ request[t].asked # 0
       /\ GoodWait(request[t], request[t].models, entry, request[t].at)

(* The queues hold those who wait, each once. *)
QueueInv ==
  /\ queue \in [Sources -> Seq(Tasks)]
  /\ \A s \in Sources :
       /\ IsInjective(queue[s])
       /\ \A t \in Tasks : t \in Range(queue[s]) <=> request[t].at = s

IInv == /\ WorldInv /\ EntriesInv /\ RequestsInv /\ QueueInv
        /\ NeverOlder /\ NoFalse404 /\ OnlyCurrentOverrides

-----------------------------------------------------------------------------
(***************************************************************************)
(* What handling a request between two awaits comes to.  e is the cache as *)
(* it is after the step.                                                   *)
(***************************************************************************)
Waits(t, e) ==
  \E r, s, m : /\ s \in Sources /\ GoodRequest(r) /\ GoodWait(r, m, e, s)
               /\ Await(t, r, s, m)

(* What may have been applied to the cards of a response. *)
GoodMarks(kind, marks) ==
  /\ marks \subseteq {overrides}
  /\ kind \in {"catalog", "found"} => overrides # None /\ marks = {overrides}

Answers(t, e) ==
  \E r, kind, m, q, marks :
    /\ GoodRequest(r) /\ GoodReply(m, r, e, Models) /\ GoodReply(q, r, e, Quality)
    /\ GoodMarks(kind, marks)
    /\ kind = "missing" => Unlisted(r.seen[Models], Number(m.version))
    /\ Respond(t, r, kind, m, q, marks)

Handled(t, e) == cardMarks' = {} /\ (Waits(t, e) \/ Answers(t, e))

LEMMA NumberType ==
  ASSUME NEW v \in Nat \cup {None}
  PROVE  Number(v) \in Nat /\ (v # None => Number(v) = v)
  BY DEF Number

(* A value out of the cache is good for every request. *)
LEMMA HitIsGood ==
  ASSUME WorldInv, NEW e, GoodEntries(e), NEW r, GoodRequest(r), NEW s \in Sources
  PROVE  /\ Received(Hit(e[s])).how = "hit"
         /\ GoodReply(Received(Hit(e[s])), r, e, s)
<1>1. e[s].value \in Nat \cup {None}
  BY DEF GoodEntries, Entries
<1>2. /\ r.seen[s] \in Nat /\ served[s] \in Nat /\ Number(e[s].value) \in Nat
  BY <1>1, NumberType DEF GoodRequest, Requests, WorldInv
<1>3. r.seen[s] <= Number(e[s].value)
  BY <1>2 DEF GoodEntries, GoodEntry, GoodRequest
<1>4. Received(Hit(e[s])) = [how |-> "hit", version |-> e[s].value]
  BY DEF Received, Hit
<1> QED
  BY <1>1, <1>2, <1>3, <1>4 DEF GoodReply, Replied

(* So is no reply at all of a source that cannot be asked. *)
LEMMA QualityHitIsGood ==
  ASSUME WorldInv, NEW e, GoodEntries(e), NEW r, GoodRequest(r)
  PROVE  GoodReply(QualityHit(e), r, e, Quality)
<1>1. CASE HasKey
  BY <1>1, HitIsGood DEF QualityHit, Sources
<1>2. CASE ~HasKey
  <2>1. Number(e[Quality].value) = 0 /\ Number(None) = 0
    BY <1>2 DEF GoodEntries, Number
  <2>2. r.seen[Quality] \in Nat /\ served[Quality] \in Nat
    BY DEF GoodRequest, Requests, WorldInv, Sources
  <2>3. r.seen[Quality] <= 0
    BY <2>1, <2>2 DEF GoodRequest, GoodEntries, GoodEntry, Sources
  <2> QED
    BY <1>2, <2>1, <2>2, <2>3 DEF QualityHit, Skipped, GoodReply, Replied
<1> QED
  BY <1>1, <1>2

LEMMA MergeHandles ==
  ASSUME WorldInv, NEW t, NEW e, NEW r, GoodRequest(r),
         NEW m, GoodReply(m, r, e, Models), Missed(r, Number(m.version)),
         NEW q, GoodReply(q, r, e, Quality), Merge(t, r, m, q, {})
  PROVE  Handled(t, e)
<1> DEFINE applied == IF overrides = None THEN {} ELSE {} \cup {overrides}
           kind == IF r.suggesting THEN "missing"
                   ELSE IF overrides = None THEN "error"
                   ELSE IF r.op = "get" THEN "found" ELSE "catalog"
<1>1. Respond(t, r, kind, m, q, applied) /\ cardMarks' = {}
  BY DEF Merge, CardMarksAfter
<1>2. GoodMarks(kind, applied)
  <2>1. CASE overrides = None
    <3>1. kind \in {"missing", "error"}
      BY <2>1
    <3> QED
      BY <2>1, <3>1 DEF GoodMarks
  <2>2. CASE overrides # None
    BY <2>2 DEF GoodMarks
  <2> QED
    BY <2>1, <2>2
<1>3. ASSUME kind = "missing"
      PROVE  r.suggesting
  BY <1>3
<1>4. kind = "missing" => Unlisted(r.seen[Models], Number(m.version))
  BY <1>3 DEF Missed
<1> HIDE DEF kind, applied
<1> QED
  BY <1>1, <1>2, <1>4 DEF Handled, Answers

LEMMA SuggestHandles ==
  ASSUME WorldInv, NEW t, NEW e, GoodEntries(e), NEW r, GoodRequest(r),
         Missed(r, Number(e[Models].value)), Suggest(t, r, e, {})
  PROVE  Handled(t, e)
<1> DEFINE m == Received(Hit(e[Models]))
<1>1. m.how = "hit" /\ GoodReply(m, r, e, Models) /\ Missed(r, Number(m.version))
  BY HitIsGood DEF Sources, Received, Hit
<1>2. CASE Await(t, r, Models, Skipped) /\ cardMarks' = {}
  BY <1>2 DEF Handled, Waits, GoodWait, Sources
<1>3. CASE HasKey /\ Await(t, r, Quality, m) /\ cardMarks' = {}
  <2>1. GoodWait(r, m, e, Quality)
    BY <1>1, <1>3 DEF GoodWait
  <2> HIDE DEF m
  <2> QED
    BY <1>3, <2>1 DEF Handled, Waits, Sources
<1>4. CASE Merge(t, r, m, QualityHit(e), {})
  <2> HIDE DEF m
  <2> QED
    BY <1>1, <1>4, QualityHitIsGood, MergeHandles
<1> QED
  BY <1>2, <1>3, <1>4 DEF Suggest

LEMMA FinishHandles ==
  ASSUME WorldInv, NEW t, NEW e, GoodEntries(e), NEW r, GoodRequest(r),
         NEW m, GoodReply(m, r, e, Models), Missed(r, Number(m.version)),
         NEW q, GoodReply(q, r, e, Quality), Finish(t, r, e, m, q, {})
  PROVE  Handled(t, e)
<1>1. CASE r.op = "refresh"
  BY <1>1 DEF Finish, Handled, Answers, GoodMarks
<1>2. CASE /\ m.version \notin Listed /\ r.op = "get"
           /\ Suggest(t, [r EXCEPT !.suggesting = TRUE], e, {})
  <2> DEFINE again == [r EXCEPT !.suggesting = TRUE]
  <2>1. /\ again \in Requests /\ again.seen = r.seen /\ again.op = r.op
    BY DEF GoodRequest, Requests
  <2>2. Unlisted(r.seen[Models], Number(e[Models].value))
    <3>1. /\ m.version \in Nat \cup {None} /\ r.seen[Models] \in Nat
          /\ Number(e[Models].value) \in Nat
      BY NumberType DEF GoodReply, Replied, GoodRequest, Requests, GoodEntries, Entries, Sources
    <3>2. CASE m.version = None
      BY <3>1, <3>2 DEF GoodReply, Number, Unlisted
    <3>3. CASE m.version # None
      <4>1. m.version \in r.seen[Models]..Number(e[Models].value)
        BY <3>1, <3>3 DEF GoodReply, Number
      <4> QED
        BY <1>2, <4>1 DEF Unlisted
    <3> QED
      BY <3>2, <3>3
  <2>3. GoodRequest(again) /\ Missed(again, Number(e[Models].value))
    BY <1>2, <2>1, <2>2 DEF GoodRequest, Missed
  <2> HIDE DEF again
  <2> QED
    BY <1>2, <2>3, SuggestHandles DEF again
<1>3. CASE Merge(t, r, m, q, {})
  BY <1>3, MergeHandles
<1> QED
  BY <1>1, <1>2, <1>3 DEF Finish, CardMarksAfter

LEMMA AfterModelsHandles ==
  ASSUME WorldInv, NEW t, NEW e, GoodEntries(e), NEW r, GoodRequest(r),
         NEW m, m.how # "skipped", GoodReply(m, r, e, Models), Missed(r, Number(m.version)),
         AfterModels(t, r, e, m, {})
  PROVE  Handled(t, e)
<1>1. CASE HasKey /\ Await(t, r, Quality, m) /\ cardMarks' = {}
  <2>1. GoodWait(r, m, e, Quality)
    BY <1>1 DEF GoodWait
  <2> QED
    BY <1>1, <2>1 DEF Handled, Waits, Sources
<1>2. CASE Finish(t, r, e, m, QualityHit(e), {})
  BY <1>2, QualityHitIsGood, FinishHandles
<1> QED
  BY <1>1, <1>2 DEF AfterModels

-----------------------------------------------------------------------------
(***************************************************************************)
(* The invariant.                                                          *)
(***************************************************************************)
LEMMA InitIInv == ASSUME Init PROVE IInv
<1> USE DEF Init
<1>1. WorldInv
  BY DEF WorldInv, Zero
<1>2. EntriesInv
  BY DEF EntriesInv, GoodEntries, GoodEntry, Entries, Empty, Number, Zero, Sources
<1>3. RequestsInv
  BY DEF RequestsInv, Requests, Replied, Idle, Skipped, Zero
<1>4. NeverOlder /\ NoFalse404 /\ OnlyCurrentOverrides
  BY DEF NeverOlder, NoFalse404, OnlyCurrentOverrides, Answered
<1>5. QueueInv
  <2>1. Range(<<>>) = {} /\ IsInjective(<<>>)
    BY DEF Range, IsInjective
  <2> QED
    BY <2>1 DEF QueueInv, Idle, Sources, Models, Quality
<1> QED
  BY <1>1, <1>2, <1>3, <1>4, <1>5 DEF IInv

(* A response is good where the three properties look. *)
LEMMA RespondKeeps ==
  ASSUME WorldInv, NEW t, NEW e, GoodEntries(e), upstream' = upstream, overrides' = overrides,
         Answers(t, e)
  PROVE  /\ request' = [request EXCEPT ![t] = Idle]
         /\ served' \in [Sources -> Nat]
         /\ \A s \in Sources : served[s] <= served'[s] /\ served'[s] <= Number(e[s].value)
         /\ NeverOlder' /\ NoFalse404' /\ OnlyCurrentOverrides'
<1> PICK r, kind, m, q, marks :
      /\ GoodRequest(r) /\ GoodReply(m, r, e, Models) /\ GoodReply(q, r, e, Quality)
      /\ GoodMarks(kind, marks)
      /\ kind = "missing" => Unlisted(r.seen[Models], Number(m.version))
      /\ Respond(t, r, kind, m, q, marks)
  BY DEF Answers
<1> DEFINE got == [s \in Sources |-> IF s = Models THEN m ELSE q]
<1>1. \A s \in Sources : GoodReply(got[s], r, e, s)
  BY DEF Sources
<1>2. /\ response' = [kind |-> kind, got |-> got, marks |-> marks, seen |-> r.seen,
                      since |-> r.since]
      /\ request' = [request EXCEPT ![t] = Idle]
      /\ served' = [s \in Sources |-> IF Number(got[s].version) > served[s]
                                        THEN got[s].version ELSE served[s]]
  BY DEF Respond
<1> HIDE DEF got
<1>3. ASSUME NEW s \in Sources
      PROVE  /\ served'[s] \in Nat /\ served[s] <= served'[s]
             /\ served'[s] <= Number(e[s].value)
             /\ r.seen[s] <= Number(got[s].version)
  <2>1. /\ got[s].version \in Nat \cup {None} /\ e[s].value \in Nat \cup {None}
        /\ served[s] \in Nat
    BY <1>1 DEF GoodReply, Replied, GoodEntries, Entries, WorldInv
  <2>2. /\ Number(got[s].version) \in Nat /\ Number(e[s].value) \in Nat
        /\ Number(got[s].version) # 0 => Number(got[s].version) = got[s].version
    BY <2>1 DEF Number
  <2>3. Number(got[s].version) <= Number(e[s].value) /\ served[s] <= Number(e[s].value)
    BY <1>1 DEF GoodReply, GoodEntries, GoodEntry
  <2>4. r.seen[s] <= Number(got[s].version)
    BY <1>1 DEF GoodReply
  <2>5. CASE Number(got[s].version) > served[s]
    BY <1>2, <2>1, <2>2, <2>3, <2>4, <2>5
  <2>6. CASE ~(Number(got[s].version) > served[s])
    BY <1>2, <2>1, <2>2, <2>3, <2>4, <2>6
  <2> QED
    BY <2>5, <2>6
<1>4. served' \in [Sources -> Nat]
  BY <1>2, <1>3
<1>5. NeverOlder'
  <2> SUFFICES ASSUME NEW s \in Sources
               PROVE  Number(got[s].version) >= r.seen[s]
    BY <1>2 DEF NeverOlder
  <2>1. got[s].version \in Nat \cup {None} /\ r.seen[s] \in Nat
    BY <1>1 DEF GoodReply, Replied, GoodRequest, Requests
  <2> QED
    BY <1>3, <2>1, NumberType
<1>6. NoFalse404'
  <2>1. got[Models] = m
    BY DEF got, Sources
  <2> QED
    BY <1>2, <2>1 DEF NoFalse404, Unlisted
<1>7. OnlyCurrentOverrides'
  BY <1>2 DEF OnlyCurrentOverrides, GoodMarks
<1> QED
  BY <1>2, <1>3, <1>4, <1>5, <1>6, <1>7

(* A request that waits loses nothing when the cache gets newer data.      *)
LEMMA WaitsStayGood ==
  ASSUME WorldInv, NEW d, NEW e, d \in [Sources -> Entries], e \in [Sources -> Entries],
         NEW r, GoodRequest(r), NEW m, NEW s, GoodWait(r, m, d, s),
         Number(d[Models].value) <= Number(e[Models].value)
  PROVE  GoodWait(r, m, e, s)
<1>1. CASE s = Models /\ m = Skipped /\ Missed(r, Number(d[Models].value))
  <2>1. /\ Number(d[Models].value) \in Nat /\ Number(e[Models].value) \in Nat
        /\ r.seen[Models] \in Nat
    BY NumberType DEF Entries, Sources, GoodRequest, Requests
  <2>2. Missed(r, Number(e[Models].value))
    BY <1>1, <2>1 DEF Missed, Unlisted
  <2> QED
    BY <1>1, <2>2 DEF GoodWait
<1>2. CASE /\ s = Quality /\ HasKey /\ m.how # "skipped" /\ GoodReply(m, r, d, Models)
           /\ Missed(r, Number(m.version))
  <2>1. /\ Number(m.version) \in Nat /\ Number(d[Models].value) \in Nat
        /\ Number(e[Models].value) \in Nat
    BY <1>2, NumberType DEF GoodReply, Replied, Entries, Sources
  <2>2. GoodReply(m, r, e, Models)
    BY <1>2, <2>1 DEF GoodReply
  <2> QED
    BY <1>2, <2>2 DEF GoodWait
<1> QED
  BY <1>1, <1>2 DEF GoodWait

(* A request that is handled is new, or it has the lock of what it awaited.*)
Turn(t) == request[t] = Idle \/ \E s \in Sources : InTurn(t, s)

LEMMA TailOfQueue ==
  ASSUME NEW S, NEW q \in Seq(S), IsInjective(q), q # <<>>
  PROVE  /\ Tail(q) \in Seq(S) /\ IsInjective(Tail(q))
         /\ Range(Tail(q)) = Range(q) \ {Head(q)}
<1>1. /\ Len(q) \in Nat \ {0} /\ DOMAIN q = 1..Len(q) /\ Head(q) = q[1]
      /\ Tail(q) \in Seq(S) /\ Len(Tail(q)) = Len(q) - 1
      /\ DOMAIN Tail(q) = 1..(Len(q) - 1)
      /\ \A i \in 1..(Len(q) - 1) : Tail(q)[i] = q[i + 1]
  OBVIOUS
<1> PICK tail : tail = Tail(q)
  OBVIOUS
<1>2. \A i, j \in 1..Len(q) : q[i] = q[j] => i = j
  BY <1>1 DEF IsInjective
<1>3. IsInjective(tail)
  <2> SUFFICES ASSUME NEW i \in 1..(Len(q) - 1), NEW j \in 1..(Len(q) - 1), tail[i] = tail[j]
               PROVE  i = j
    BY <1>1 DEF IsInjective
  <2>1. i + 1 \in 1..Len(q) /\ j + 1 \in 1..Len(q) /\ q[i + 1] = q[j + 1]
    BY <1>1
  <2> QED
    BY <1>1, <1>2, <2>1
<1>4. ASSUME NEW x
      PROVE  x \in Range(tail) <=> x \in Range(q) /\ x # q[1]
  <2>1. ASSUME NEW i \in 1..(Len(q) - 1), x = tail[i]
        PROVE  x \in Range(q) /\ x # q[1]
    <3>1. i + 1 \in 1..Len(q) /\ x = q[i + 1] /\ 1 \in 1..Len(q) /\ i + 1 # 1
      BY <1>1, <2>1
    <3> QED
      BY <1>1, <1>2, <3>1 DEF Range
  <2>2. ASSUME NEW i \in 1..Len(q), x = q[i], x # q[1]
        PROVE  x \in Range(tail)
    <3>1. i - 1 \in 1..(Len(q) - 1) /\ tail[i - 1] = q[(i - 1) + 1] /\ (i - 1) + 1 = i
      BY <1>1, <2>2
    <3> QED
      BY <1>1, <2>2, <3>1 DEF Range
  <2> QED
    BY <1>1, <2>1, <2>2 DEF Range
<1> QED
  BY <1>1, <1>3, <1>4

LEMMA AppendToQueue ==
  ASSUME NEW S, NEW q \in Seq(S), IsInjective(q), NEW x \in S, x \notin Range(q)
  PROVE  /\ Append(q, x) \in Seq(S) /\ IsInjective(Append(q, x))
         /\ Range(Append(q, x)) = Range(q) \cup {x}
<1>1. /\ Len(q) \in Nat /\ DOMAIN q = 1..Len(q) /\ Append(q, x) \in Seq(S)
      /\ DOMAIN Append(q, x) = 1..(Len(q) + 1)
      /\ \A i \in 1..Len(q) : Append(q, x)[i] = q[i]
      /\ Append(q, x)[Len(q) + 1] = x
  OBVIOUS
<1> PICK longer : longer = Append(q, x)
  OBVIOUS
<1>2. \A i \in 1..Len(q) : q[i] # x
  BY <1>1 DEF Range
<1>3. \A i, j \in 1..Len(q) : q[i] = q[j] => i = j
  BY <1>1 DEF IsInjective
<1>4. IsInjective(longer)
  <2> SUFFICES ASSUME NEW i \in 1..(Len(q) + 1), NEW j \in 1..(Len(q) + 1), longer[i] = longer[j]
               PROVE  i = j
    BY <1>1 DEF IsInjective
  <2> QED
    BY <1>1, <1>2, <1>3
<1>5. Range(longer) = Range(q) \cup {x}
  <2>1. 1..(Len(q) + 1) = 1..Len(q) \cup {Len(q) + 1}
    BY <1>1
  <2> QED
    BY <1>1, <2>1 DEF Range
<1> QED
  BY <1>1, <1>4, <1>5

(* Leaving the lock takes t, and nobody else, out of the queues.           *)
LEMMA LeftQueues ==
  ASSUME QueueInv, NEW t \in Tasks, Turn(t)
  PROVE  /\ Left(t) \in [Sources -> Seq(Tasks)]
         /\ \A s \in Sources :
              /\ IsInjective(Left(t)[s])
              /\ \A u \in Tasks : u \in Range(Left(t)[s]) <=> u # t /\ request[u].at = s
<1>1. CASE request[t] = Idle
  <2>1. request[t].at \notin Sources
    BY <1>1 DEF Idle, Sources, Models, Quality
  <2> QED
    BY <2>1 DEF Left, QueueInv
<1>2. ASSUME NEW s \in Sources, InTurn(t, s)
      PROVE  /\ Left(t) \in [Sources -> Seq(Tasks)]
             /\ \A u \in Sources :
                  /\ IsInjective(Left(t)[u])
                  /\ \A v \in Tasks : v \in Range(Left(t)[u]) <=> v # t /\ request[v].at = u
  <2>1. /\ request[t].at = s /\ queue[s] \in Seq(Tasks) /\ IsInjective(queue[s])
        /\ Head(queue[s]) = t /\ t \in Range(queue[s])
    BY <1>2 DEF InTurn, QueueInv
  <2>2. queue[s] # <<>>
    BY <2>1 DEF Range
  <2>3. /\ Tail(queue[s]) \in Seq(Tasks) /\ IsInjective(Tail(queue[s]))
        /\ Range(Tail(queue[s])) = Range(queue[s]) \ {t}
    BY <2>1, <2>2, TailOfQueue
  <2>4. Left(t) = [queue EXCEPT ![s] = Tail(queue[s])]
    BY <2>1 DEF Left
  <2>5. /\ Left(t) \in [Sources -> Seq(Tasks)] /\ Left(t)[s] = Tail(queue[s])
        /\ \A u \in Sources : u # s => Left(t)[u] = queue[u]
    BY <2>3, <2>4 DEF QueueInv
  <2>6. ASSUME NEW u \in Sources
        PROVE  /\ IsInjective(Left(t)[u])
               /\ \A v \in Tasks : v \in Range(Left(t)[u]) <=> v # t /\ request[v].at = u
    <3>1. \A v \in Tasks : v \in Range(queue[u]) <=> request[v].at = u
      BY DEF QueueInv
    <3>2. CASE u = s
      BY <2>3, <2>5, <3>1, <3>2
    <3>3. CASE u # s
      BY <2>1, <2>5, <3>1, <3>3 DEF QueueInv
    <3> QED
      BY <3>2, <3>3
  <2> QED
    BY <2>5, <2>6
<1> QED
  BY <1>1, <1>2 DEF Turn

LEMMA AnswersQueue ==
  ASSUME QueueInv, request \in [Tasks -> Requests], NEW t \in Tasks, Turn(t),
         NEW e, Answers(t, e)
  PROVE  QueueInv'
<1>1. request' = [request EXCEPT ![t] = Idle] /\ queue' = Left(t)
  BY DEF Answers, Respond
<1>2. Idle.at \notin Sources
  BY DEF Idle, Sources, Models, Quality
<1> QED
  BY <1>1, <1>2, LeftQueues DEF QueueInv

LEMMA WaitsQueue ==
  ASSUME QueueInv, request \in [Tasks -> Requests], NEW t \in Tasks, Turn(t),
         NEW e, Waits(t, e)
  PROVE  QueueInv'
<1> PICK r, s, m : s \in Sources /\ GoodRequest(r) /\ Await(t, r, s, m)
  BY DEF Waits
<1> PICK w : w = [r EXCEPT !.at = s, !.asked = upstream[s], !.models = m]
  OBVIOUS
<1>1. /\ request' = [request EXCEPT ![t] = w]
      /\ queue' = [Left(t) EXCEPT ![s] = Append(Left(t)[s], t)]
      /\ w.at = s
  BY DEF Await, GoodRequest, Requests
<1>2. /\ Left(t)[s] \in Seq(Tasks) /\ IsInjective(Left(t)[s]) /\ t \notin Range(Left(t)[s])
  BY LeftQueues
<1> PICK longer : longer = Append(Left(t)[s], t)
  OBVIOUS
<1>3. /\ longer \in Seq(Tasks) /\ IsInjective(longer)
      /\ Range(longer) = Range(Left(t)[s]) \cup {t}
  BY <1>2, AppendToQueue
<1>4. /\ queue' \in [Sources -> Seq(Tasks)] /\ queue'[s] = longer
      /\ \A u \in Sources : u # s => queue'[u] = Left(t)[u]
  BY <1>1, <1>3, LeftQueues
<1>5. \A u \in Tasks : request'[u].at = IF u = t THEN s ELSE request[u].at
  BY <1>1
<1>6. ASSUME NEW u \in Sources
      PROVE  /\ IsInjective(queue'[u])
             /\ \A v \in Tasks : v \in Range(queue'[u]) <=> request'[v].at = u
  <2>1. /\ IsInjective(Left(t)[u])
        /\ \A v \in Tasks : v \in Range(Left(t)[u]) <=> v # t /\ request[v].at = u
    BY LeftQueues
  <2>2. CASE u = s
    <3>1. queue'[u] = longer
      BY <1>4, <2>2
    <3>2. ASSUME NEW v \in Tasks
          PROVE  v \in Range(longer) <=> request'[v].at = u
      <4>1. v \in Range(longer) <=> v \in Range(Left(t)[u]) \/ v = t
        BY <1>3, <2>2
      <4> QED
        BY <1>5, <2>1, <2>2, <4>1
    <3> QED
      BY <1>3, <3>1, <3>2
  <2>3. CASE u # s
    <3>1. queue'[u] = Left(t)[u]
      BY <1>4, <2>3
    <3>2. ASSUME NEW v \in Tasks
          PROVE  v \in Range(Left(t)[u]) <=> request'[v].at = u
      BY <1>5, <2>1, <2>3
    <3> QED
      BY <2>1, <3>1, <3>2
  <2> QED
    BY <2>2, <2>3
<1> QED
  BY <1>4, <1>6 DEF QueueInv

(* A step in which request t is handled, and the cache only got newer.     *)
LEMMA HandledKeeps ==
  ASSUME IInv, NEW t \in Tasks, NEW e, entry' = e, GoodEntries(e), Handled(t, e), Turn(t),
         Number(entry[Models].value) <= Number(e[Models].value),
         UNCHANGED <<upstream, clock, overrides>>
  PROVE  IInv'
<1> USE DEF IInv
<1>0. /\ WorldInv /\ request \in [Tasks -> Requests] /\ cardMarks' = {}
      /\ entry \in [Sources -> Entries] /\ e \in [Sources -> Entries]
      /\ served \in [Sources -> Nat]
  BY DEF RequestsInv, Handled, EntriesInv, GoodEntries, WorldInv
<1> DEFINE Fine(r) ==
             /\ r \in Requests
             /\ \A s \in Sources : r.seen[s] <= served'[s]
             /\ r.suggesting => r.op = "get"
<1>1. ASSUME request' \in [Tasks -> Requests],
             \A d \in Tasks : request'[d] # Idle =>
               /\ Fine(request'[d]) /\ request'[d].asked # 0
               /\ GoodWait(request'[d], request'[d].models, e, request'[d].at)
      PROVE  RequestsInv'
  <2> SUFFICES ASSUME NEW d \in Tasks, request'[d] # Idle
               PROVE  /\ GoodRequest(request[d])' /\ request'[d].asked # 0
                      /\ GoodWait(request[d], request[d].models, entry, request[d].at)'
    BY <1>1 DEF RequestsInv
  <2>1. GoodRequest(request[d])'
    BY <1>1 DEF GoodRequest
  <2>2. GoodWait(request[d], request[d].models, entry, request[d].at)'
    BY <1>1 DEF GoodWait, GoodReply, Missed, Unlisted
  <2> QED
    BY <1>1, <2>1, <2>2
<1>2. ASSUME \A s \in Sources : served[s] <= served'[s], served' \in [Sources -> Nat],
             NEW r, GoodRequest(r)
      PROVE  Fine(r)
  <2>1. \A s \in Sources : r.seen[s] \in Nat /\ served[s] \in Nat /\ served'[s] \in Nat
    BY <1>0, <1>2 DEF GoodRequest, Requests
  <2>2. \A s \in Sources : r.seen[s] <= served'[s]
    BY <1>2, <2>1 DEF GoodRequest
  <2> QED
    BY <1>2, <2>2 DEF GoodRequest
<1>3. ASSUME \A s \in Sources : served[s] <= served'[s] /\ served'[s] <= Number(e[s].value),
             served' \in [Sources -> Nat]
      PROVE  WorldInv' /\ EntriesInv'
  <2>1. WorldInv'
    BY <1>0, <1>3 DEF WorldInv
  <2>2. EntriesInv'
    BY <1>3 DEF EntriesInv, GoodEntries, GoodEntry
  <2> QED
    BY <2>1, <2>2
<1>4. ASSUME \A s \in Sources : served[s] <= served'[s], served' \in [Sources -> Nat],
             NEW d \in Tasks, request'[d] = request[d], request'[d] # Idle
      PROVE  /\ Fine(request'[d]) /\ request'[d].asked # 0
             /\ GoodWait(request'[d], request'[d].models, e, request'[d].at)
  <2>1. /\ GoodRequest(request[d]) /\ request[d].asked # 0
        /\ GoodWait(request[d], request[d].models, entry, request[d].at)
    BY <1>4 DEF RequestsInv
  <2>2. GoodWait(request[d], request[d].models, e, request[d].at)
    BY <1>0, <2>1, WaitsStayGood
  <2> QED
    <3> HIDE DEF Fine
    <3> QED BY <1>2, <1>4, <2>1, <2>2
<1>5. CASE Answers(t, e)
  <2>1. /\ request' = [request EXCEPT ![t] = Idle] /\ served' \in [Sources -> Nat]
        /\ \A s \in Sources : served[s] <= served'[s] /\ served'[s] <= Number(e[s].value)
        /\ NeverOlder' /\ NoFalse404' /\ OnlyCurrentOverrides'
    BY <1>0, <1>5, RespondKeeps
  <2>2. Idle \in Requests
    BY DEF Idle, Requests, Replied, Skipped, Zero
  <2>3. RequestsInv'
    <3> HIDE DEF Fine
    <3> QED BY <1>0, <1>1, <1>4, <2>1, <2>2
  <2>4. QueueInv'
    BY <1>0, <1>5, AnswersQueue
  <2> QED
    BY <1>3, <2>1, <2>3, <2>4
<1>6. CASE Waits(t, e)
  <2> PICK r, s, m : s \in Sources /\ GoodRequest(r) /\ GoodWait(r, m, e, s) /\ Await(t, r, s, m)
    BY <1>6 DEF Waits
  <2> DEFINE w == [r EXCEPT !.at = s, !.asked = upstream[s], !.models = m]
  <2>1. request' = [request EXCEPT ![t] = w] /\ response' = NoResponse /\ served' = served
    BY DEF Await
  <2>2. m \in Replied
    BY DEF GoodWait, GoodReply, Skipped, Replied
  <2>3. /\ w \in Requests /\ w.at = s /\ w.models = m /\ w.asked # 0
        /\ w.seen = r.seen /\ w.suggesting = r.suggesting /\ w.op = r.op
    <3>1. upstream[s] \in Nat \ {0}
      BY <1>0 DEF WorldInv
    <3> QED
      BY <2>2, <3>1 DEF GoodRequest, Requests
  <2> HIDE DEF w
  <2>4. GoodRequest(w) /\ GoodWait(w, w.models, e, w.at)
    BY <2>3 DEF GoodRequest, GoodWait, GoodReply, Missed
  <2>5. \A u \in Sources : served[u] <= served'[u] /\ served'[u] <= Number(e[u].value)
    BY <1>0, <2>1 DEF GoodEntries, GoodEntry
  <2>6. Fine(w)
    <3> HIDE DEF Fine
    <3> QED BY <1>0, <1>2, <2>1, <2>4, <2>5
  <2>7. RequestsInv'
    <3> HIDE DEF Fine
    <3>1. ASSUME NEW d \in Tasks, request'[d] # Idle
          PROVE  /\ Fine(request'[d]) /\ request'[d].asked # 0
                 /\ GoodWait(request'[d], request'[d].models, e, request'[d].at)
      <4>1. CASE d = t
        BY <1>0, <2>1, <2>3, <2>4, <2>6, <4>1
      <4>2. CASE d # t
        BY <1>0, <1>4, <2>1, <2>5, <3>1, <4>2
      <4> QED
        BY <4>1, <4>2
    <3> QED
      BY <1>0, <1>1, <2>1, <2>3, <3>1
  <2>8. NeverOlder' /\ NoFalse404' /\ OnlyCurrentOverrides'
    BY <2>1 DEF NeverOlder, NoFalse404, OnlyCurrentOverrides, Answered
  <2>9. QueueInv'
    BY <1>0, <1>6, WaitsQueue
  <2> QED
    BY <1>0, <1>3, <2>1, <2>5, <2>7, <2>8, <2>9
<1> QED
  BY <1>5, <1>6 DEF Handled

(* What a source replies is what its cache holds afterwards, and that is   *)
(* no older than what it held.                                             *)
LEMMA RepliesAreGood ==
  ASSUME WorldInv, EntriesInv, NEW s \in Sources, NEW f, NEW asked \in Nat \ {0},
         NEW reply \in Replies(entry[s], f, asked, upstream[s], clock, TTL[s])
  PROVE  /\ reply.entry \in Entries /\ reply.version = reply.entry.value
         /\ reply.how \in {"hit", "new", "stale", "raised"}
         /\ GoodEntry(reply.entry, s)
         /\ Number(entry[s].value) <= Number(reply.entry.value)
<1>0. /\ entry[s] \in Entries /\ GoodEntry(entry[s], s)
      /\ clock \in Nat /\ upstream[s] \in Nat \ {0} /\ served[s] \in Nat
  BY DEF EntriesInv, GoodEntries, WorldInv
<1>1. Number(entry[s].value) \in Nat
  BY <1>0, NumberType DEF Entries
<1>2. CASE reply = Hit(entry[s])
  BY <1>0, <1>1, <1>2 DEF Hit
<1>3. CASE reply = Old(entry[s])
  <2>1. /\ reply.entry \in Entries /\ reply.entry.value = entry[s].value
        /\ reply.entry.fetchedAt = entry[s].fetchedAt
    BY <1>0, <1>3 DEF Old, Entries
  <2>2. reply.version = entry[s].value /\ reply.how \in {"stale", "raised"}
    BY <1>3 DEF Old
  <2>3. GoodEntry(reply.entry, s)
    BY <1>0, <2>1 DEF GoodEntry
  <2> QED
    BY <1>1, <2>1, <2>2, <2>3
<1>4. ASSUME NEW v \in asked..upstream[s], entry[s].value # None => v >= entry[s].value,
             reply = New(entry[s], v, clock)
      PROVE  /\ reply.entry \in Entries /\ reply.version = reply.entry.value
             /\ reply.how \in {"hit", "new", "stale", "raised"}
             /\ GoodEntry(reply.entry, s)
             /\ Number(entry[s].value) <= Number(reply.entry.value)
  <2>1. v \in Nat /\ v \in 1..upstream[s] /\ v # None
    BY <1>0, <1>4
  <2>2. reply.entry = [value |-> v, fetchedAt |-> clock, lastError |-> FALSE]
    BY <1>4 DEF New
  <2>3. Number(entry[s].value) <= v /\ Number(v) = v
    BY <1>0, <1>4, <2>1 DEF Number, Entries
  <2>4. served[s] <= v
    BY <1>0, <1>1, <2>1, <2>3 DEF GoodEntry
  <2> QED
    BY <1>0, <1>4, <2>1, <2>2, <2>3, <2>4 DEF New, Entries, GoodEntry
<1> QED
  BY <1>2, <1>3, <1>4 DEF Replies

(* The cache stays good when one of its entries is replaced by a good one. *)
LEMMA ReplacedIsGood ==
  ASSUME EntriesInv, NEW s \in Sources, NEW n \in Entries, GoodEntry(n, s),
         s = Quality => HasKey
  PROVE  GoodEntries([entry EXCEPT ![s] = n])
<1> DEFINE e == [entry EXCEPT ![s] = n]
<1>1. /\ e \in [Sources -> Entries] /\ e[s] = n
      /\ \A u \in Sources : u # s => e[u] = entry[u]
  BY DEF EntriesInv, GoodEntries
<1>2. \A u \in Sources : GoodEntry(e[u], u)
  <2> HIDE DEF e
  <2> QED BY <1>1 DEF EntriesInv, GoodEntries
<1>3. ~HasKey => e[Quality].value = None
  <2> HIDE DEF e
  <2> QED BY <1>1 DEF EntriesInv, GoodEntries, Sources
<1> HIDE DEF e
<1> QED
  BY <1>1, <1>2, <1>3 DEF GoodEntries, e

LEMMA BeginKeeps ==
  ASSUME IInv, NEW t \in Tasks, NEW o \in {"catalog", "get", "refresh"}, Begin(t, o)
  PROVE  IInv'
<1>1. /\ WorldInv /\ cardMarks = {} /\ GoodEntries(entry) /\ entry' = entry
      /\ UNCHANGED <<upstream, clock, overrides>>
  BY DEF IInv, WorldInv, EntriesInv, Begin, sourceVars
<1> PICK e : e = entry
  OBVIOUS
<1> PICK r : r = Request(o)
  OBVIOUS
<1>2. GoodRequest(r)
  <2>1. r \in Requests
    BY <1>1 DEF Request, Requests, Replied, Skipped, Zero, WorldInv
  <2>2. r.seen = served /\ ~r.suggesting /\ \A s \in Sources : served[s] \in Nat
    BY <1>1 DEF Request, WorldInv
  <2> QED
    BY <2>1, <2>2 DEF GoodRequest
<1>5. ~r.suggesting
  BY DEF Request
<1>3. Handled(t, e)
  <2>1. CASE AfterModels(t, r, e, Received(Hit(e[Models])), {})
    <3> PICK m : m = Received(Hit(e[Models]))
      OBVIOUS
    <3>1. m.how # "skipped" /\ GoodReply(m, r, e, Models)
      BY <1>1, <1>2, HitIsGood DEF Sources
    <3> QED
      BY <1>1, <1>2, <1>5, <2>1, <3>1, AfterModelsHandles DEF Missed
  <2>2. CASE Await(t, r, Models, Skipped) /\ cardMarks' = {}
    BY <1>2, <1>5, <2>2 DEF Handled, Waits, GoodWait, Missed, Sources
  <2> QED
    BY <1>1, <2>1, <2>2 DEF Begin
<1>4. Number(entry[Models].value) <= Number(e[Models].value)
  <2>1. Number(entry[Models].value) \in Nat
    BY <1>1, NumberType DEF GoodEntries, Entries, Sources
  <2> QED
    BY <2>1
<1>6. Turn(t)
  BY DEF Begin, Turn
<1> QED
  BY <1>1, <1>3, <1>4, <1>6, HandledKeeps

LEMMA ModelsReplyKeeps ==
  ASSUME IInv, NEW t \in Tasks, ModelsReply(t)
  PROVE  IInv'
<1>1. /\ WorldInv /\ EntriesInv /\ cardMarks = {} /\ request[t] \in Requests
      /\ UNCHANGED <<upstream, clock, overrides>> /\ request[t].at = Models
      /\ Turn(t)
  BY DEF IInv, WorldInv, RequestsInv, ModelsReply, InTurn, Turn, Sources
<1> PICK r : r = request[t]
  OBVIOUS
<1>2. GoodRequest(r) /\ r.asked \in Nat \ {0} /\ Missed(r, Number(entry[Models].value))
  <2>1. request[t] # Idle
    BY <1>1 DEF Idle, Models
  <2>2. GoodRequest(r) /\ r.asked \in Nat \ {0}
    BY <1>1, <2>1 DEF IInv, RequestsInv, Requests
  <2>3. GoodWait(r, r.models, entry, Models)
    BY <1>1, <2>1 DEF IInv, RequestsInv
  <2> QED
    BY <2>2, <2>3 DEF GoodWait, Models, Quality
<1>3. PICK reply \in Replies(entry[Models], r.op = "refresh", r.asked, upstream[Models],
                             clock, TTL[Models]) :
        /\ entry' = [entry EXCEPT ![Models] = reply.entry]
        /\ AfterModels(t, r, entry', Received(reply),
                       IF reply.how = "new" THEN {} ELSE cardMarks)
  BY <1>1 DEF ModelsReply, Awaited
<1>4. /\ reply.entry \in Entries /\ reply.version = reply.entry.value
      /\ reply.how \in {"hit", "new", "stale", "raised"}
      /\ GoodEntry(reply.entry, Models)
      /\ Number(entry[Models].value) <= Number(reply.entry.value)
  BY <1>1, <1>2, RepliesAreGood DEF Sources
<1> PICK e : e = [entry EXCEPT ![Models] = reply.entry]
  OBVIOUS
<1> PICK m : m = Received(reply)
  OBVIOUS
<1>5. GoodEntries(e) /\ e[Models] = reply.entry
  <2>1. GoodEntries(e)
    BY <1>1, <1>4, ReplacedIsGood DEF Sources, Models, Quality
  <2> QED
    BY <1>1, <2>1 DEF EntriesInv, GoodEntries, Sources
<1>6. m.how # "skipped" /\ GoodReply(m, r, e, Models)
  <2>1. m.how = reply.how /\ m.version = e[Models].value /\ m \in Replied
    BY <1>4, <1>5 DEF Received, Replied, Entries
  <2>2. /\ Number(e[Models].value) \in Nat /\ served[Models] \in Nat
        /\ r.seen[Models] \in Nat
    BY <1>1, <1>2, <1>4, <1>5, NumberType
    DEF Entries, WorldInv, GoodRequest, Requests, Sources
  <2>3. r.seen[Models] <= Number(e[Models].value)
    BY <1>2, <1>5, <2>2 DEF GoodRequest, GoodEntries, GoodEntry, Sources
  <2> QED
    BY <1>4, <2>1, <2>2, <2>3 DEF GoodReply
<1>7. AfterModels(t, r, e, m, {}) /\ entry' = e
  BY <1>1, <1>3
<1>9. Missed(r, Number(m.version))
  <2>1. /\ m.version = reply.entry.value /\ r.seen[Models] \in Nat
        /\ Number(entry[Models].value) \in Nat /\ Number(m.version) \in Nat
    BY <1>1, <1>2, <1>4, NumberType
    DEF Received, EntriesInv, GoodEntries, Entries, GoodRequest, Requests, Sources
  <2> QED
    BY <1>2, <1>4, <2>1 DEF Missed, Unlisted
<1>8. Handled(t, e)
  BY <1>1, <1>2, <1>5, <1>6, <1>7, <1>9, AfterModelsHandles
<1> QED
  BY <1>1, <1>4, <1>5, <1>7, <1>8, HandledKeeps

LEMMA QualityReplyKeeps ==
  ASSUME IInv, NEW t \in Tasks, QualityReply(t)
  PROVE  IInv'
<1>1. /\ WorldInv /\ EntriesInv /\ cardMarks = {} /\ request[t] \in Requests
      /\ UNCHANGED <<upstream, clock, overrides>> /\ request[t].at = Quality
      /\ Turn(t)
  BY DEF IInv, WorldInv, RequestsInv, QualityReply, InTurn, Turn, Sources
<1> PICK r : r = request[t]
  OBVIOUS
<1>2. /\ GoodRequest(r) /\ r.asked \in Nat \ {0}
      /\ HasKey /\ GoodReply(r.models, r, entry, Models)
      /\ Missed(r, Number(r.models.version))
  <2>1. request[t] # Idle
    BY <1>1 DEF Idle, Quality
  <2>2. GoodRequest(r) /\ r.asked \in Nat \ {0}
    BY <1>1, <2>1 DEF IInv, RequestsInv, Requests
  <2>3. GoodWait(r, r.models, entry, Quality)
    BY <1>1, <2>1 DEF IInv, RequestsInv
  <2> QED
    BY <2>2, <2>3 DEF GoodWait, Models, Quality
<1>3. PICK reply \in Replies(entry[Quality], r.op = "refresh", r.asked, upstream[Quality],
                             clock, TTL[Quality]) :
        /\ entry' = [entry EXCEPT ![Quality] = reply.entry]
        /\ Finish(t, r, entry', r.models, Received(reply), cardMarks)
  BY <1>1 DEF QualityReply, Awaited
<1>4. /\ reply.entry \in Entries /\ reply.version = reply.entry.value
      /\ reply.how \in {"hit", "new", "stale", "raised"}
      /\ GoodEntry(reply.entry, Quality)
  BY <1>1, <1>2, RepliesAreGood DEF Sources
<1> PICK e : e = [entry EXCEPT ![Quality] = reply.entry]
  OBVIOUS
<1> PICK q : q = Received(reply)
  OBVIOUS
<1>5. GoodEntries(e) /\ e[Quality] = reply.entry /\ e[Models] = entry[Models]
  <2>1. GoodEntries(e)
    BY <1>1, <1>2, <1>4, ReplacedIsGood DEF Sources
  <2>2. entry \in [Sources -> Entries] /\ Models # Quality
    BY <1>1 DEF EntriesInv, GoodEntries, Models, Quality
  <2> QED
    BY <2>1, <2>2 DEF Sources
<1>6. GoodReply(q, r, e, Quality)
  <2>1. q.version = e[Quality].value /\ q \in Replied
    BY <1>4, <1>5 DEF Received, Replied, Entries
  <2>2. /\ Number(e[Quality].value) \in Nat /\ served[Quality] \in Nat
        /\ r.seen[Quality] \in Nat
    BY <1>1, <1>2, <1>4, <1>5, NumberType
    DEF Entries, WorldInv, GoodRequest, Requests, Sources
  <2>3. r.seen[Quality] <= Number(e[Quality].value)
    BY <1>2, <1>5, <2>2 DEF GoodRequest, GoodEntries, GoodEntry, Sources
  <2> QED
    BY <1>4, <2>1, <2>2, <2>3 DEF GoodReply
<1>7. GoodReply(r.models, r, e, Models)
  BY <1>2, <1>5 DEF GoodReply
<1>8. Finish(t, r, e, r.models, q, {}) /\ entry' = e
  BY <1>1, <1>3
<1>9. Handled(t, e)
  <2> PICK m : m = r.models
    OBVIOUS
  <2> QED
    BY <1>1, <1>2, <1>5, <1>6, <1>7, <1>8, FinishHandles
<1>10. Number(entry[Models].value) <= Number(e[Models].value)
  <2>1. Number(entry[Models].value) \in Nat
    BY <1>1, NumberType DEF EntriesInv, GoodEntries, Entries, Sources
  <2> QED
    BY <1>5, <2>1
<1> QED
  BY <1>1, <1>5, <1>8, <1>9, <1>10, HandledKeeps

(* The steps of the world answer nobody and only move bounds up.           *)
LEMMA QuietKeeps ==
  ASSUME IInv, response' = NoResponse, UNCHANGED <<entry, request, queue, served>>,
         WorldInv', clock <= clock',
         \A s \in Sources : upstream[s] <= upstream'[s]
  PROVE  IInv'
<1>1. /\ \A s \in Sources : upstream[s] \in Nat /\ upstream'[s] \in Nat
      /\ clock \in Nat /\ clock' \in Nat
      /\ WorldInv /\ EntriesInv /\ RequestsInv
  BY DEF IInv, WorldInv
<1>2. EntriesInv'
  <2>1. ASSUME NEW s \in Sources, GoodEntry(entry[s], s)
        PROVE  GoodEntry(entry[s], s)'
    <3>1. entry[s] \in Entries
      BY <1>1 DEF EntriesInv, GoodEntries
    <3>2. /\ 1..upstream[s] \subseteq 1..upstream'[s]
          /\ 0..clock \subseteq 0..clock'
      BY <1>1
    <3> QED
      BY <2>1, <3>1, <3>2 DEF GoodEntry, Entries
  <2> QED
    BY <1>1, <2>1 DEF EntriesInv, GoodEntries
<1>4. RequestsInv'
  <2> SUFFICES ASSUME NEW t \in Tasks, request[t] # Idle
               PROVE  /\ GoodRequest(request[t])' /\ request[t].asked # 0
                      /\ GoodWait(request[t], request[t].models, entry, request[t].at)'
    BY <1>1 DEF RequestsInv
  <2>1. /\ GoodRequest(request[t]) /\ request[t].asked # 0
        /\ GoodWait(request[t], request[t].models, entry, request[t].at)
    BY <1>1 DEF RequestsInv
  <2>2. GoodRequest(request[t])'
    BY <2>1 DEF GoodRequest
  <2>3. GoodWait(request[t], request[t].models, entry, request[t].at)'
    BY <2>1 DEF GoodWait, GoodReply, Missed, Unlisted
  <2> QED
    BY <2>1, <2>2, <2>3
<1>5. NeverOlder' /\ NoFalse404' /\ OnlyCurrentOverrides'
  BY DEF NeverOlder, NoFalse404, OnlyCurrentOverrides, Answered
<1>6. QueueInv'
  BY DEF IInv, QueueInv
<1> QED
  BY <1>1, <1>2, <1>4, <1>5, <1>6 DEF IInv

LEMMA StutterKeeps == ASSUME IInv, UNCHANGED vars PROVE IInv'
<1> USE DEF vars, sourceVars
<1>1. WorldInv' /\ EntriesInv'
  BY DEF IInv, WorldInv, EntriesInv, GoodEntries, GoodEntry
<1>2. RequestsInv'
  BY DEF IInv, RequestsInv, GoodRequest, Missed, Unlisted, GoodWait, GoodReply
<1>3. NeverOlder' /\ NoFalse404' /\ OnlyCurrentOverrides'
  BY DEF IInv, NeverOlder, NoFalse404, OnlyCurrentOverrides, Answered
<1>4. QueueInv'
  BY DEF IInv, QueueInv
<1> QED
  BY <1>1, <1>2, <1>3, <1>4 DEF IInv

LEMMA StepKeeps == ASSUME IInv, [Next]_vars PROVE IInv'
<1>0. WorldInv
  BY DEF IInv
<1>1. ASSUME NEW t \in Tasks, NEW o \in {"catalog", "get", "refresh"}, Begin(t, o)
      PROVE  IInv'
  BY <1>1, BeginKeeps
<1>2. ASSUME NEW t \in Tasks, ModelsReply(t)
      PROVE  IInv'
  BY <1>2, ModelsReplyKeeps
<1>3. ASSUME NEW t \in Tasks, QualityReply(t)
      PROVE  IInv'
  BY <1>3, QualityReplyKeeps
<1>4. CASE Tick
  <2>1. WorldInv' /\ clock <= clock' /\ \A s \in Sources : upstream[s] <= upstream'[s]
    BY <1>0, <1>4 DEF Tick, WorldInv
  <2> QED
    BY <1>4, <2>1, QuietKeeps DEF Tick
<1>5. ASSUME NEW s \in Sources, Publish(s)
      PROVE  IInv'
  <2>1. /\ upstream' = [upstream EXCEPT ![s] = upstream[s] + 1]
        /\ response' = NoResponse
        /\ UNCHANGED <<entry, clock, overrides, cardMarks, request, queue, served>>
    BY <1>5 DEF Publish
  <2>2. WorldInv' /\ clock <= clock' /\ \A u \in Sources : upstream[u] <= upstream'[u]
    BY <1>0, <2>1 DEF WorldInv
  <2> QED
    BY <2>1, <2>2, QuietKeeps
<1>6. CASE EditOverrides
  <2>1. WorldInv' /\ clock <= clock' /\ \A s \in Sources : upstream[s] <= upstream'[s]
    BY <1>0, <1>6 DEF EditOverrides, WorldInv, sourceVars
  <2> QED
    BY <1>6, <2>1, QuietKeeps DEF EditOverrides, sourceVars
<1>7. CASE UNCHANGED vars
  BY <1>7, StutterKeeps
<1> QED
  BY <1>1, <1>2, <1>3, <1>4, <1>5, <1>6, <1>7 DEF Next

LEMMA InvariantHolds == Spec => []IInv
<1>1. Init => IInv
  BY InitIInv
<1>2. IInv /\ [Next]_vars => IInv'
  BY StepKeeps
<1> QED
  BY <1>1, <1>2, PTL DEF Spec

-----------------------------------------------------------------------------
(***************************************************************************)
(* Theorems.                                                               *)
(***************************************************************************)
(* The caches hold published versions fetched in the past, a request holds *)
(* OpenRouter's reply exactly while it awaits Artificial Analysis, and the *)
(* queues of the locks hold those who wait, each once.                     *)
THEOREM RegistryTypes == Spec => []TypeOK
<1>1. ASSUME IInv PROVE TypeOK
  <2>1. ASSUME NEW s \in Sources
        PROVE  /\ entry[s].value \in 1..upstream[s] \cup {None}
               /\ entry[s].value # None => entry[s].fetchedAt \in 0..clock
               /\ served[s] <= upstream[s]
    <3>1. /\ GoodEntry(entry[s], s) /\ entry[s].value \in Nat \cup {None}
          /\ upstream[s] \in Nat \ {0} /\ served[s] \in Nat
      BY <1>1 DEF IInv, WorldInv, EntriesInv, GoodEntries, Entries
    <3>2. CASE entry[s].value = None
      BY <3>1, <3>2 DEF GoodEntry, Number
    <3>3. CASE entry[s].value # None
      BY <3>1, <3>3 DEF GoodEntry, Number
    <3> QED
      BY <3>2, <3>3
  <2>2. ASSUME NEW t \in Tasks
        PROVE  /\ request[t].at \in Sources \cup {"idle"}
               /\ request[t].at = Quality <=> request[t].models # Skipped
               /\ request[t].suggesting => request[t].op = "get"
    <3>1. CASE request[t] = Idle
      BY <3>1 DEF Idle, Quality
    <3>2. CASE request[t] # Idle
      <4>1. /\ GoodRequest(request[t])
            /\ GoodWait(request[t], request[t].models, entry, request[t].at)
        BY <1>1, <3>2 DEF IInv, RequestsInv
      <4> QED
        BY <4>1 DEF GoodRequest, GoodWait, Skipped, Sources, Models, Quality
    <3> QED
      BY <3>1, <3>2
  <2> QED
    BY <1>1, <2>1, <2>2 DEF TypeOK, IInv, QueueInv
<1> QED
  BY <1>1, InvariantHolds, PTL

(* A request that begins after another was answered sees nothing older     *)
(* from either source, whatever fails, is forced or is answered out of     *)
(* order meanwhile.                                                        *)
THEOREM AnswersNeverGetOlder == Spec => []NeverOlder
<1>1. IInv => NeverOlder
  BY DEF IInv
<1> QED
  BY <1>1, InvariantHolds, PTL

(* A model that was listed by what had been served when the request began, *)
(* and by every version up to the one the suggestions are made from, is    *)
(* not answered with a 404.                                                *)
THEOREM ListedModelsAreFound == Spec => []NoFalse404
<1>1. IInv => NoFalse404
  BY DEF IInv
<1> QED
  BY <1>1, InvariantHolds, PTL

(* A catalog is enriched with the override file as it is at that moment,   *)
(* whole, and with nothing an earlier request applied to the cached cards. *)
THEOREM OverridesDoNotPileUp == Spec => []OnlyCurrentOverrides
<1>1. IInv => OnlyCurrentOverrides
  BY DEF IInv
<1> QED
  BY <1>1, InvariantHolds, PTL
=============================================================================
