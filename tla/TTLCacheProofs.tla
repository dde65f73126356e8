--------------------------- MODULE TTLCacheProofs ---------------------------
(***************************************************************************)
(* Theorems about TTLCache, for any number of callers, any time to live    *)
(* and any bounds.  Each invariant is one conjunct of TTLCache!IInv and    *)
(* has a lemma of its own; the lemmas are combined at the end.             *)
(***************************************************************************)
EXTENDS TTLCache, FiniteSetTheorems, SequenceTheorems, TLAPS

USE NoneAssumption, BoundAssumption

(* Removing position i of a sequence shifts what follows it. *)
LEMMA RemoveAtProperties ==
  ASSUME NEW S, NEW s \in Seq(S), NEW i \in 1..Len(s)
  PROVE  /\ RemoveAt(s, i) \in Seq(S)
         /\ Len(RemoveAt(s, i)) = Len(s) - 1
         /\ \A j \in 1..(Len(s) - 1) :
              RemoveAt(s, i)[j] = IF j < i THEN s[j] ELSE s[j + 1]
<1> DEFINE a == SubSeq(s, 1, i - 1)
           b == SubSeq(s, i + 1, Len(s))
<1>0. Len(s) \in Nat /\ \A j \in 1..Len(s) : s[j] \in S
  BY LenProperties, ElementOfSeq
<1>1. /\ a \in Seq(S) /\ Len(a) = i - 1
      /\ \A j \in 1..(i - 1) : a[j] = s[j]
  <2>1. \A j \in 1..(i - 1) : s[j] \in S
    BY <1>0
  <2>2. /\ a \in Seq(S)
        /\ Len(a) = IF 1 <= i - 1 THEN i - 1 - 1 + 1 ELSE 0
        /\ \A j \in 1..(i - 1 - 1 + 1) : a[j] = s[1 + j - 1]
    BY <1>0, <2>1, SubSeqProperties
  <2> QED BY <1>0, <2>2
<1>2. /\ b \in Seq(S) /\ Len(b) = Len(s) - i
      /\ \A j \in 1..(Len(s) - i) : b[j] = s[i + j]
  <2>1. \A j \in (i + 1)..Len(s) : s[j] \in S
    BY <1>0
  <2>2. /\ b \in Seq(S)
        /\ Len(b) = IF i + 1 <= Len(s) THEN Len(s) - (i + 1) + 1 ELSE 0
        /\ \A j \in 1..(Len(s) - (i + 1) + 1) : b[j] = s[(i + 1) + j - 1]
    BY <1>0, <2>1, SubSeqProperties
  <2> QED BY <1>0, <2>2
<1>3. /\ a \o b \in Seq(S)
      /\ Len(a \o b) = Len(a) + Len(b)
      /\ \A j \in 1..(Len(a) + Len(b)) :
           (a \o b)[j] = IF j <= Len(a) THEN a[j] ELSE b[j - Len(a)]
  BY <1>1, <1>2, ConcatProperties
<1>4. RemoveAt(s, i) = a \o b
  BY DEF RemoveAt
<1> HIDE DEF a, b
<1>5. RemoveAt(s, i) \in Seq(S) /\ Len(RemoveAt(s, i)) = Len(s) - 1
  BY <1>0, <1>1, <1>2, <1>3, <1>4
<1>6. ASSUME NEW j \in 1..(Len(s) - 1)
      PROVE  RemoveAt(s, i)[j] = IF j < i THEN s[j] ELSE s[j + 1]
  <2>1. j \in 1..(Len(a) + Len(b))
    BY <1>0, <1>1, <1>2
  <2>2. (a \o b)[j] = IF j <= Len(a) THEN a[j] ELSE b[j - Len(a)]
    BY <2>1, <1>3
  <2>3. CASE j < i
    BY <2>2, <2>3, <1>0, <1>1, <1>4
  <2>4. CASE ~(j < i)
    <3>1. (j - Len(a)) \in 1..(Len(s) - i) /\ ~(j <= Len(a))
      BY <2>4, <1>0, <1>1
    <3>2. b[j - Len(a)] = s[i + (j - Len(a))]
      BY <3>1, <1>2
    <3>3. i + (j - Len(a)) = j + 1
      BY <1>0, <1>1
    <3> QED BY <2>2, <2>4, <3>1, <3>2, <3>3, <1>4
  <2> QED BY <2>3, <2>4
<1> QED BY <1>5, <1>6

-----------------------------------------------------------------------------
(***************************************************************************)
(* Types.                                                                  *)
(***************************************************************************)
LEMMA TypeInit == Init => TypeOK
<1> SUFFICES ASSUME Init
             PROVE  TypeOK
  OBVIOUS
<1>1. waiters \in Seq(Callers)
  BY EmptySeq DEF Init
<1>2. lastError \in BOOLEAN /\ forced \in [Callers -> BOOLEAN]
  BY DEF Init
<1>3. /\ pc \in [Callers -> {"idle", "waiting", "fetching"}]
      /\ outcome \in [Callers -> Outcomes]
      /\ result \in [Callers -> Version \cup {None}]
      /\ asked \in [Callers -> Nat] /\ floor \in [Callers -> Nat]
  BY DEF Init, Outcomes
<1> QED
  BY <1>1, <1>2, <1>3 DEF Init, TypeOK, Version

LEMMA TypeStep == TypeOK /\ [Next]_vars => TypeOK'
<1> SUFFICES ASSUME TypeOK, [Next]_vars
             PROVE  TypeOK'
  OBVIOUS
<1> USE DEF TypeOK, Version, Outcomes
<1>1. ASSUME NEW c \in Callers, NEW f \in BOOLEAN, Call(c, f)
      PROVE  TypeOK'
  <2>1. CASE LockFree /\ Hit(c, f) /\ UNCHANGED waiters
    BY <1>1, <2>1 DEF Call, Hit, Fresh, Reply, cacheVars, worldVars
  <2>2. CASE LockFree /\ StartFetch(c, f) /\ UNCHANGED waiters
    BY <1>1, <2>2 DEF Call, StartFetch, cacheVars, worldVars
  <2>3. CASE ~LockFree /\ Enqueue(c)
    BY <1>1, <2>3, AppendProperties DEF Call, Enqueue, cacheVars, worldVars
  <2> QED BY <1>1, <2>1, <2>2, <2>3 DEF Call, Enter
<1>2. ASSUME NEW c \in Callers, Grant(c)
      PROVE  TypeOK'
  <2>1. waiters' \in Seq(Callers)
    BY <1>2, HeadTailProperties DEF Grant
  <2>2. CASE Hit(c, forced[c])
    BY <1>2, <2>1, <2>2 DEF Grant, Hit, Fresh, Reply, cacheVars, callVars, worldVars
  <2>3. CASE StartFetch(c, forced[c])
    BY <1>2, <2>1, <2>3 DEF Grant, StartFetch, cacheVars, callVars, worldVars
  <2> QED BY <1>2, <2>2, <2>3 DEF Grant, Enter
<1>3. ASSUME NEW c \in Callers, FetchOk(c)
      PROVE  TypeOK'
  <2>1. PICK v \in sent..upstream : value' = v /\ Reply(c, "new", v)
    BY <1>3 DEF FetchOk
  <2>2. v \in Version
    OBVIOUS
  <2>3. lastError' \in BOOLEAN /\ forced' \in [Callers -> BOOLEAN]
    BY <1>3 DEF FetchOk, callVars
  <2>4. fills' \in Nat
    BY <1>3 DEF FetchOk
  <2> QED BY <1>3, <2>1, <2>2, <2>3, <2>4 DEF FetchOk, Reply, Release, callVars, worldVars
<1>4. ASSUME NEW c \in Callers, FetchFail(c)
      PROVE  TypeOK'
  <2>1. CASE value # None /\ Reply(c, "stale", value)
    BY <1>4, <2>1 DEF FetchFail, Reply, Release, callVars, worldVars
  <2>2. CASE value = None /\ Reply(c, "raised", None)
    BY <1>4, <2>2 DEF FetchFail, Reply, Release, callVars, worldVars
  <2> QED BY <1>4, <2>1, <2>2 DEF FetchFail
<1>5. ASSUME NEW c \in Callers, CancelFetch(c)
      PROVE  TypeOK'
  BY <1>5 DEF CancelFetch, Release, cacheVars, callVars, replyVars, worldVars
<1>6. ASSUME NEW c \in Callers, CancelWait(c)
      PROVE  TypeOK'
  <2>1. waiters' \in Seq(Callers)
    BY <1>6, RemoveAtProperties DEF CancelWait
  <2> QED
    BY <1>6, <2>1 DEF CancelWait, cacheVars, callVars, replyVars, worldVars
<1>7. CASE Tick
  BY <1>7 DEF Tick, cacheVars, lockVars, callVars, replyVars
<1>8. CASE Publish
  BY <1>8 DEF Publish, cacheVars, lockVars, callVars, replyVars
<1>9. CASE UNCHANGED vars
  BY <1>9 DEF vars, cacheVars, lockVars, callVars, replyVars, worldVars
<1> HIDE DEF TypeOK
<1> QED BY <1>1, <1>2, <1>3, <1>4, <1>5, <1>6, <1>7, <1>8, <1>9 DEF Next

(* Every variable keeps its type, and a value always has its fetch time.   *)
THEOREM TypeCorrect == Spec => []TypeOK
  BY TypeInit, TypeStep, PTL DEF Spec

-----------------------------------------------------------------------------
(***************************************************************************)
(* The lock.                                                               *)
(***************************************************************************)
LEMMA LockInit == Init => LockInv
<1> SUFFICES ASSUME Init
             PROVE  LockInv
  OBVIOUS
<1>1. waiters = <<>> /\ Len(waiters) = 0
  BY EmptySeq DEF Init
<1> QED
  BY <1>1 DEF Init, LockInv

LEMMA LockStep == TypeOK /\ LockInv /\ [Next]_vars => LockInv'
<1> SUFFICES ASSUME TypeOK, LockInv, [Next]_vars
             PROVE  LockInv'
  OBVIOUS
<1>0. /\ pc \in [Callers -> {"idle", "waiting", "fetching"}]
      /\ owner \in Callers \cup {None}
      /\ waiters \in Seq(Callers) /\ Len(waiters) \in Nat
  BY LenProperties DEF TypeOK
<1>1. ASSUME NEW c \in Callers, NEW f \in BOOLEAN, Call(c, f)
      PROVE  LockInv'
  <2>1. CASE Hit(c, f) /\ UNCHANGED waiters
    BY <1>0, <1>1, <2>1 DEF Call, Hit, LockInv
  <2>2. CASE LockFree /\ StartFetch(c, f) /\ UNCHANGED waiters
    BY <1>0, <1>1, <2>2 DEF Call, LockFree, StartFetch, LockInv
  <2>3. CASE Enqueue(c)
    <3>1. /\ Len(waiters') = Len(waiters) + 1
          /\ \A i \in 1..Len(waiters) : waiters'[i] = waiters[i]
          /\ waiters'[Len(waiters) + 1] = c
      BY <1>0, <2>3, AppendProperties DEF Enqueue
    <3>2. \A i \in 1..Len(waiters) : waiters[i] # c
      BY <1>0, <1>1 DEF Call, LockInv
    <3>3. pc' = [pc EXCEPT ![c] = "waiting"] /\ owner' = owner /\ pc[c] = "idle"
      BY <1>1, <2>3 DEF Call, Enqueue
    <3>4. \A d \in Callers : pc'[d] = "fetching" <=> owner' = d
      BY <1>0, <3>3 DEF LockInv
    <3>5. \A d \in Callers : pc'[d] = "waiting" <=>
            \E i \in 1..Len(waiters') : waiters'[i] = d
      BY <1>0, <3>1, <3>3 DEF LockInv
    <3>6. \A i, j \in 1..Len(waiters') : waiters'[i] = waiters'[j] => i = j
      BY <1>0, <3>1, <3>2 DEF LockInv
    <3> QED BY <3>4, <3>5, <3>6 DEF LockInv
  <2> QED BY <1>1, <2>1, <2>2, <2>3 DEF Call, Enter
<1>2. ASSUME NEW c \in Callers, Grant(c)
      PROVE  LockInv'
  <2>1. /\ waiters # <<>> /\ c = waiters[1] /\ Len(waiters) >= 1
        /\ Len(waiters') = Len(waiters) - 1
        /\ \A i \in 1..Len(waiters') : waiters'[i] = waiters[i + 1]
    BY <1>0, <1>2, HeadTailProperties, EmptySeq DEF Grant
  <2>2. /\ owner = None
        /\ \/ owner' = None /\ pc' = [pc EXCEPT ![c] = "idle"]
           \/ owner' = c /\ pc' = [pc EXCEPT ![c] = "fetching"]
    BY <1>2 DEF Grant, Enter, Hit, StartFetch
  <2>3. \A d \in Callers : pc'[d] = "fetching" <=> owner' = d
    BY <1>0, <2>2, NoneAssumption DEF LockInv
  <2>4. \A i, j \in 1..Len(waiters') : waiters'[i] = waiters'[j] => i = j
    BY <1>0, <2>1 DEF LockInv
  <2>5. ASSUME NEW d \in Callers
        PROVE  pc'[d] = "waiting" <=> \E i \in 1..Len(waiters') : waiters'[i] = d
    <3>1. CASE d = c
      <4>1. pc'[d] # "waiting"
        BY <1>0, <2>2, <3>1
      <4>2. ASSUME NEW i \in 1..Len(waiters'), waiters'[i] = d
            PROVE  FALSE
        BY <1>0, <2>1, <3>1, <4>2 DEF LockInv
      <4> QED BY <4>1, <4>2
    <3>2. CASE d # c
      <4>1. pc'[d] = pc[d]
        BY <1>0, <2>2, <3>2
      <4>2. ASSUME NEW i \in 1..Len(waiters), waiters[i] = d
            PROVE  i - 1 \in 1..Len(waiters') /\ waiters'[i - 1] = d
        <5>1. i # 1
          BY <2>1, <3>2, <4>2
        <5>2. i - 1 \in 1..Len(waiters')
          BY <1>0, <2>1, <5>1
        <5> QED BY <1>0, <2>1, <4>2, <5>2
      <4>3. ASSUME NEW i \in 1..Len(waiters'), waiters'[i] = d
            PROVE  i + 1 \in 1..Len(waiters) /\ waiters[i + 1] = d
        BY <1>0, <2>1, <4>3
      <4> QED BY <4>1, <4>2, <4>3 DEF LockInv
    <3> QED BY <3>1, <3>2
  <2> QED BY <2>3, <2>4, <2>5 DEF LockInv
<1>3. ASSUME NEW c \in Callers, pc[c] = "fetching", Release(c), UNCHANGED waiters
      PROVE  LockInv'
  BY <1>0, <1>3, NoneAssumption DEF Release, LockInv
<1>4. ASSUME NEW c \in Callers, CancelWait(c)
      PROVE  LockInv'
  <2>1. PICK k \in 1..Len(waiters) : waiters[k] = c /\ waiters' = RemoveAt(waiters, k)
    BY <1>4 DEF CancelWait
  <2>2. /\ Len(waiters') = Len(waiters) - 1
        /\ \A i \in 1..(Len(waiters) - 1) :
             waiters'[i] = IF i < k THEN waiters[i] ELSE waiters[i + 1]
    BY <1>0, <2>1, RemoveAtProperties
  <2>3. owner' = owner /\ pc' = [pc EXCEPT ![c] = "idle"] /\ pc[c] = "waiting"
    BY <1>4 DEF CancelWait
  <2>4. \A d \in Callers : pc'[d] = "fetching" <=> owner' = d
    BY <1>0, <2>3 DEF LockInv
  <2>5. \A i, j \in 1..Len(waiters') : waiters'[i] = waiters'[j] => i = j
    BY <1>0, <2>2 DEF LockInv
  <2>6. ASSUME NEW d \in Callers
        PROVE  pc'[d] = "waiting" <=> \E i \in 1..Len(waiters') : waiters'[i] = d
    <3>1. CASE d = c
      <4>1. pc'[d] # "waiting"
        BY <1>0, <2>3, <3>1
      <4>2. ASSUME NEW i \in 1..Len(waiters'), waiters'[i] = d
            PROVE  FALSE
        BY <1>0, <2>1, <2>2, <3>1, <4>2 DEF LockInv
      <4> QED BY <4>1, <4>2
    <3>2. CASE d # c
      <4>1. pc'[d] = pc[d]
        BY <1>0, <2>3, <3>2
      <4>2. ASSUME NEW i \in 1..Len(waiters), waiters[i] = d
            PROVE  \E j \in 1..Len(waiters') : waiters'[j] = d
        <5>1. i # k
          BY <2>1, <3>2, <4>2
        <5>2. CASE i < k
          BY <1>0, <2>2, <4>2, <5>2
        <5>3. CASE i > k
          <6>1. i - 1 \in 1..Len(waiters') /\ ~(i - 1 < k)
            BY <1>0, <2>2, <5>3
          <6>2. waiters'[i - 1] = d
            BY <1>0, <2>2, <4>2, <6>1
          <6> QED BY <6>1, <6>2
        <5> QED BY <1>0, <5>1, <5>2, <5>3
      <4>3. ASSUME NEW i \in 1..Len(waiters'), waiters'[i] = d
            PROVE  \E j \in 1..Len(waiters) : waiters[j] = d
        <5>1. i \in 1..Len(waiters) /\ i + 1 \in 1..Len(waiters)
          BY <1>0, <2>2
        <5> QED BY <2>2, <4>3, <5>1
      <4> QED BY <4>1, <4>2, <4>3 DEF LockInv
    <3> QED BY <3>1, <3>2
  <2> QED BY <2>4, <2>5, <2>6 DEF LockInv
<1>5. ASSUME UNCHANGED <<owner, waiters, pc>>
      PROVE  LockInv'
  BY <1>5 DEF LockInv
<1> QED
  BY <1>1, <1>2, <1>3, <1>4, <1>5
  DEF Next, FetchOk, FetchFail, CancelFetch, Tick, Publish, vars, lockVars

-----------------------------------------------------------------------------
(***************************************************************************)
(* The data.  Each lemma has one step for a call that is let in, one for   *)
(* each way a fetch ends, and one for the steps that touch none of it.     *)
(***************************************************************************)
LEMMA DataStep ==
  TypeOK /\ LockInv /\ DataInv /\ FlightInv /\ [Next]_vars => DataInv'
<1> SUFFICES ASSUME TypeOK, LockInv, DataInv, FlightInv, [Next]_vars
             PROVE  DataInv'
  OBVIOUS
<1> USE DEF DataInv, cacheVars, lockVars, callVars, replyVars, worldVars
<1>1. ASSUME NEW c \in Callers, NEW f \in BOOLEAN,
             Enter(c, f) \/ Enqueue(c), UNCHANGED <<cacheVars, worldVars>>
      PROVE  DataInv'
  BY <1>1 DEF Enter, Hit, Fresh, StartFetch, Enqueue, Reply, TypeOK, Version
<1>2. ASSUME NEW c \in Callers, FetchOk(c)
      PROVE  DataInv'
  <2>1. PICK v \in sent..upstream : value' = v /\ Reply(c, "new", v)
    BY <1>2 DEF FetchOk
  <2>2. v \in Version /\ v <= upstream /\ (value # None => value <= v)
    BY <1>2, <2>1 DEF FetchOk, FlightInv, TypeOK, Version
  <2>3. v # None /\ seen' = IF v > seen THEN v ELSE seen
    BY <2>1, <2>2, NoneAssumption DEF Reply, Version
  <2> QED BY <1>2, <2>1, <2>2, <2>3 DEF FetchOk, TypeOK, Version
<1>3. ASSUME NEW c \in Callers, FetchFail(c)
      PROVE  DataInv'
  BY <1>3 DEF FetchFail, Reply, TypeOK, Version
<1>4. CASE Tick \/ Publish
  BY <1>4 DEF Tick, Publish, TypeOK, Version
<1>5. ASSUME UNCHANGED <<cacheVars, seen, worldVars>>
      PROVE  DataInv'
  BY <1>5
<1> HIDE DEF DataInv
<1> QED
  <2>1. ASSUME NEW c \in Callers, NEW f \in BOOLEAN, Call(c, f)
        PROVE  DataInv'
    BY <1>1, <2>1 DEF Call
  <2>2. ASSUME NEW c \in Callers, Grant(c)
        PROVE  DataInv'
    <3>1. forced[c] \in BOOLEAN
      BY DEF TypeOK
    <3> QED BY <1>1, <2>2, <3>1 DEF Grant
  <2>3. ASSUME NEW c \in Callers, CancelFetch(c) \/ CancelWait(c)
        PROVE  DataInv'
    BY <1>5, <2>3 DEF CancelFetch, CancelWait
  <2> QED
    BY <1>2, <1>3, <1>4, <1>5, <2>1, <2>2, <2>3 DEF Next, vars

LEMMA CallStep == TypeOK /\ CallInv /\ [Next]_vars => CallInv'
<1> SUFFICES ASSUME TypeOK, CallInv, [Next]_vars
             PROVE  CallInv'
  OBVIOUS
<1>0. seen' >= seen /\ seen' \in Nat /\ upstream' >= upstream /\ upstream' \in Nat
  <2>1. TypeOK'
    BY TypeStep
  <2>2. ASSUME NEW c, NEW how, NEW v, Reply(c, how, v)
        PROVE  seen' = seen \/ seen' > seen
    BY <2>2 DEF Reply
  <2>3. seen' = seen \/ seen' > seen
    BY <2>2 DEF Next, Call, Enter, Hit, StartFetch, Enqueue, Grant, FetchOk,
         FetchFail, CancelFetch, CancelWait, Tick, Publish, vars, replyVars
  <2>4. upstream' = upstream \/ upstream' = upstream + 1
    BY DEF Next, Call, Grant, FetchOk, FetchFail, CancelFetch, CancelWait,
         Tick, Publish, vars, worldVars
  <2> QED BY <2>1, <2>3, <2>4 DEF TypeOK, Version
<1>1. ASSUME NEW c \in Callers, NEW f \in BOOLEAN, Call(c, f)
      PROVE  CallInv'
  BY <1>0, <1>1 DEF Call, worldVars, CallInv, TypeOK, Version
<1>2. ASSUME UNCHANGED <<asked, floor>>
      PROVE  CallInv'
  BY <1>0, <1>2 DEF CallInv, TypeOK, Version
<1> QED
  BY <1>1, <1>2 DEF Next, Grant, FetchOk, FetchFail, CancelFetch, CancelWait,
       Tick, Publish, vars, callVars

LEMMA FlightStep ==
  TypeOK /\ LockInv /\ DataInv /\ FlightInv /\ CallInv /\ [Next]_vars => FlightInv'
<1> SUFFICES ASSUME TypeOK, LockInv, DataInv, FlightInv, CallInv, [Next]_vars
             PROVE  FlightInv'
  OBVIOUS
<1>1. ASSUME NEW c \in Callers, NEW f \in BOOLEAN, StartFetch(c, f), owner = None,
             forced'[c] = f, asked'[c] <= upstream, UNCHANGED <<cacheVars, worldVars>>
      PROVE  FlightInv'
  <2>1. \A d \in Callers : pc'[d] = "fetching" => d = c
    BY <1>1, NoneAssumption DEF StartFetch, LockInv, TypeOK
  <2>2. ~Fresh(f)' /\ sent' = upstream /\ upstream' = upstream
    BY <1>1 DEF StartFetch, Fresh, cacheVars, worldVars
  <2> QED
    BY <1>1, <2>1, <2>2
    DEF FlightInv, DataInv, Fresh, cacheVars, TypeOK, Version
<1>2. ASSUME NEW c \in Callers, Hit(c, forced'[c]) \/ Enqueue(c),
             pc[c] # "fetching", UNCHANGED <<cacheVars, worldVars>>,
             \A d \in Callers : d # c => forced'[d] = forced[d] /\ asked'[d] = asked[d]
      PROVE  FlightInv'
  BY <1>2 DEF Hit, Enqueue, FlightInv, Fresh, cacheVars, worldVars, TypeOK
<1>3. ASSUME NEW c \in Callers, pc[c] = "fetching", Release(c)
      PROVE  FlightInv'
  <2>1. \A d \in Callers : pc'[d] # "fetching"
    BY <1>3 DEF Release, LockInv, TypeOK
  <2> QED BY <2>1 DEF FlightInv
<1>4. ASSUME NEW c \in Callers, CancelWait(c)
      PROVE  FlightInv'
  BY <1>4 DEF CancelWait, FlightInv, Fresh, cacheVars, callVars, worldVars, TypeOK
<1>5. CASE Tick
  BY <1>5 DEF Tick, FlightInv, DataInv, Fresh, cacheVars, callVars, TypeOK, Version
<1>6. CASE Publish
  BY <1>6 DEF Publish, FlightInv, Fresh, cacheVars, callVars, TypeOK, Version
<1>7. CASE UNCHANGED vars
  BY <1>7 DEF vars, FlightInv, Fresh, cacheVars, callVars, worldVars
<1>8. ASSUME NEW c \in Callers, NEW f \in BOOLEAN, Call(c, f)
      PROVE  FlightInv'
  <2>1. /\ forced'[c] = f /\ asked'[c] = upstream /\ upstream \in Nat
        /\ \A d \in Callers : d # c => forced'[d] = forced[d] /\ asked'[d] = asked[d]
    BY <1>8 DEF Call, TypeOK, Version
  <2> QED
    BY <1>1, <1>2, <1>8, <2>1 DEF Call, LockFree, Enter
<1>9. ASSUME NEW c \in Callers, Grant(c)
      PROVE  FlightInv'
  <2>1. forced[c] \in BOOLEAN /\ asked[c] <= upstream
    BY DEF TypeOK, CallInv
  <2> QED
    BY <1>1, <1>2, <1>9, <2>1 DEF Grant, Enter, callVars
<1> QED
  BY <1>3, <1>4, <1>5, <1>6, <1>7, <1>8, <1>9
  DEF Next, FetchOk, FetchFail, CancelFetch

-----------------------------------------------------------------------------
(***************************************************************************)
(* The answers.  An answer changes only when its caller's call begins, is  *)
(* let in or ends; ReplyOf lists what each of these steps may make of it *)
(* and leaves every other caller's answer alone.                           *)
(***************************************************************************)
ReplyOf(c) ==
  \/ outcome'[c] = "none" /\ result'[c] = None
  \/ ~forced'[c] /\ outcome'[c] = "hit" /\ value # None /\ result'[c] = value
  \/ /\ pc[c] = "fetching" /\ forced'[c] = forced[c] /\ asked'[c] = asked[c]
     /\ outcome'[c] = "new" /\ result'[c] \in sent..upstream
  \/ outcome'[c] = "stale" /\ value # None /\ result'[c] = value
  \/ outcome'[c] = "raised" /\ value = None /\ result'[c] = None

SameReply(c) ==
  /\ outcome'[c] = outcome[c] /\ result'[c] = result[c]
  /\ forced'[c] = forced[c] /\ asked'[c] = asked[c] /\ floor'[c] = floor[c]

RequestOf(c) ==
  \/ floor'[c] = floor[c]
  \/ pc[c] = "idle" /\ floor'[c] = seen

LEMMA Replies ==
  TypeOK /\ LockInv /\ [Next]_vars =>
    \A d \in Callers : SameReply(d) \/ (ReplyOf(d) /\ RequestOf(d))
<1> SUFFICES ASSUME TypeOK, LockInv, [Next]_vars, NEW d \in Callers
             PROVE  SameReply(d) \/ (ReplyOf(d) /\ RequestOf(d))
  OBVIOUS
<1> USE DEF TypeOK, SameReply, ReplyOf, RequestOf, cacheVars, lockVars, callVars,
            replyVars, worldVars
<1>1. ASSUME NEW c \in Callers, NEW f \in BOOLEAN, Call(c, f)
      PROVE  SameReply(d) \/ (ReplyOf(d) /\ RequestOf(d))
  <2>1. CASE d = c
    <3>1. forced'[c] = f /\ floor'[c] = seen /\ pc[c] = "idle"
      BY <1>1 DEF Call
    <3>2. CASE Hit(c, f)
      BY <2>1, <3>1, <3>2 DEF Hit, Fresh, Reply
    <3>3. CASE StartFetch(c, f) \/ Enqueue(c)
      BY <2>1, <3>1, <3>3 DEF StartFetch, Enqueue
    <3> QED BY <1>1, <3>2, <3>3 DEF Call, Enter
  <2>2. CASE d # c
    BY <1>1, <2>2 DEF Call, Enter, Hit, StartFetch, Enqueue, Reply
  <2> QED BY <2>1, <2>2
<1>2. ASSUME NEW c \in Callers, Grant(c)
      PROVE  SameReply(d) \/ (ReplyOf(d) /\ RequestOf(d))
  <2>1. CASE d = c
    BY <1>2, <2>1 DEF Grant, Enter, Hit, StartFetch, Fresh, Reply
  <2>2. CASE d # c
    BY <1>2, <2>2 DEF Grant, Enter, Hit, StartFetch, Reply
  <2> QED BY <2>1, <2>2
<1>3. ASSUME NEW c \in Callers, FetchOk(c)
      PROVE  SameReply(d) \/ (ReplyOf(d) /\ RequestOf(d))
  <2>1. PICK v \in sent..upstream : Reply(c, "new", v)
    BY <1>3 DEF FetchOk
  <2>2. CASE d = c
    BY <1>3, <2>1, <2>2 DEF FetchOk, Reply
  <2>3. CASE d # c
    BY <1>3, <2>1, <2>3 DEF FetchOk, Reply
  <2> QED BY <2>2, <2>3
<1>4. ASSUME NEW c \in Callers, FetchFail(c)
      PROVE  SameReply(d) \/ (ReplyOf(d) /\ RequestOf(d))
  <2>1. CASE d = c
    BY <1>4, <2>1 DEF FetchFail, Reply
  <2>2. CASE d # c
    BY <1>4, <2>2 DEF FetchFail, Reply
  <2> QED BY <2>1, <2>2
<1>5. ASSUME UNCHANGED <<outcome, result, callVars>>
      PROVE  SameReply(d)
  BY <1>5
<1> HIDE DEF TypeOK, SameReply, ReplyOf, RequestOf
<1> QED
  BY <1>1, <1>2, <1>3, <1>4, <1>5
  DEF Next, CancelFetch, CancelWait, Tick, Publish, vars

LEMMA AnswerStep ==
  /\ TypeOK /\ LockInv /\ DataInv /\ FlightInv /\ CallInv
  /\ NeverGoesBack /\ ForcedIsCurrent /\ AvailableOnceServed
  /\ [Next]_vars
  => NeverGoesBack' /\ ForcedIsCurrent' /\ AvailableOnceServed'
<1> SUFFICES ASSUME TypeOK, LockInv, DataInv, FlightInv, CallInv,
                    NeverGoesBack, ForcedIsCurrent, AvailableOnceServed,
                    [Next]_vars, NEW c \in Callers
             PROVE  /\ result'[c] # None => result'[c] >= floor'[c]
                    /\ forced'[c] /\ outcome'[c] \in {"hit", "new"}
                         => result'[c] >= asked'[c]
                    /\ outcome'[c] = "raised" => floor'[c] = 0
  BY DEF NeverGoesBack, ForcedIsCurrent, AvailableOnceServed
<1>1. CASE SameReply(c)
  BY <1>1 DEF SameReply, NeverGoesBack, ForcedIsCurrent, AvailableOnceServed
<1>2. CASE ReplyOf(c) /\ RequestOf(c)
  <2>1. floor'[c] <= seen /\ floor'[c] \in Nat /\ seen \in Nat
    BY <1>2 DEF RequestOf, CallInv, TypeOK
  <2>2. value # None => value >= floor'[c]
    BY <2>1 DEF DataInv, TypeOK, Version
  <2>3. value = None => floor'[c] = 0
    BY <2>1 DEF DataInv
  <2>4. ASSUME pc[c] = "fetching", result'[c] \in sent..upstream
        PROVE  result'[c] >= floor'[c] /\ result'[c] >= asked[c]
    BY <2>1, <2>2, <2>3, <2>4 DEF FlightInv, TypeOK, Version
  <2> QED BY <1>2, <2>2, <2>3, <2>4 DEF ReplyOf
<1> QED BY <1>1, <1>2, Replies

-----------------------------------------------------------------------------
(***************************************************************************)
(* The rate of refreshes.                                                  *)
(***************************************************************************)
LEMMA RationStep ==
  TypeOK /\ DataInv /\ FlightInv /\ RationInv /\ [Next]_vars => RationInv'
<1> SUFFICES ASSUME TypeOK, DataInv, FlightInv, RationInv, [Next]_vars
             PROVE  RationInv'
  OBVIOUS
<1>1. ASSUME NEW c \in Callers, FetchOk(c)
      PROVE  RationInv'
  <2>1. /\ fetchedAt' = clock /\ clock \in Nat /\ fills \in Nat /\ TTL \in Nat
        /\ clock # None /\ forced[c] \in BOOLEAN
        /\ fetchedAt # None => fetchedAt \in Nat /\ fetchedAt <= clock
    BY <1>1, BoundAssumption, NoneAssumption DEF FetchOk, TypeOK, DataInv
  <2>2. CASE forced[c]
    BY <1>1, <2>1, <2>2 DEF FetchOk, RationInv
  <2>3. CASE ~forced[c] /\ fills = 0
    BY <1>1, <2>1, <2>3 DEF FetchOk, RationInv
  <2>4. CASE ~forced[c] /\ fills # 0
    <3>1. fetchedAt # None /\ (fills - 1) * TTL <= fetchedAt /\ value # None
      BY <2>4 DEF RationInv, TypeOK
    <3>2. clock - fetchedAt >= TTL
      BY <1>1, <2>1, <2>4, <3>1 DEF FetchOk, FlightInv, Fresh
    <3>3. (fills' - 1) * TTL = (fills - 1) * TTL + TTL
      BY <1>1, <2>1, <2>4 DEF FetchOk
    <3> QED BY <2>1, <3>1, <3>2, <3>3 DEF RationInv
  <2> QED BY <2>1, <2>2, <2>3, <2>4
<1>2. ASSUME UNCHANGED <<fills, fetchedAt>>
      PROVE  RationInv'
  BY <1>2 DEF RationInv
<1> QED
  BY <1>1, <1>2
  DEF Next, Call, Grant, FetchFail, CancelFetch, CancelWait, Tick, Publish,
      vars, cacheVars

LEMMA PendingStep == TypeOK /\ PendingInv /\ [Next]_vars => PendingInv'
<1> SUFFICES ASSUME TypeOK, PendingInv, [Next]_vars
             PROVE  PendingInv'
  OBVIOUS
<1> USE DEF TypeOK, PendingInv
<1>1. ASSUME NEW c \in Callers, NEW f \in BOOLEAN, Hit(c, f) \/ StartFetch(c, f) \/ Enqueue(c)
      PROVE  PendingInv'
  BY <1>1 DEF Hit, StartFetch, Enqueue, Reply
<1>2. ASSUME NEW c \in Callers, NEW how, NEW v, Reply(c, how, v), Release(c)
      PROVE  PendingInv'
  BY <1>2 DEF Reply, Release
<1>3. ASSUME NEW c \in Callers, Release(c), UNCHANGED replyVars
      PROVE  PendingInv'
  BY <1>3 DEF Release, replyVars
<1>4. ASSUME NEW c \in Callers, CancelWait(c)
      PROVE  PendingInv'
  BY <1>4 DEF CancelWait, replyVars
<1>5. ASSUME UNCHANGED <<pc, outcome, result>>
      PROVE  PendingInv'
  BY <1>5
<1> HIDE DEF PendingInv
<1>6. ASSUME NEW c \in Callers, Grant(c)
      PROVE  PendingInv'
  <2>1. forced[c] \in BOOLEAN
    OBVIOUS
  <2> QED BY <1>1, <1>6, <2>1 DEF Grant, Enter
<1> HIDE DEF TypeOK
<1> QED
  BY <1>1, <1>2, <1>3, <1>4, <1>5, <1>6
  DEF Next, Call, Enter, FetchOk, FetchFail, CancelFetch, Tick, Publish, vars, replyVars

-----------------------------------------------------------------------------
(***************************************************************************)
(* The inductive invariant and what follows from it.                       *)
(***************************************************************************)
LEMMA InvInit == Init => IInv
<1> SUFFICES ASSUME Init
             PROVE  IInv
  OBVIOUS
<1>1. TypeOK /\ LockInv
  BY TypeInit, LockInit
<1> QED
  BY <1>1 DEF Init, IInv, DataInv, FlightInv, CallInv, PendingInv, NeverGoesBack,
     ForcedIsCurrent, AvailableOnceServed, RationInv

LEMMA InvStep == IInv /\ [Next]_vars => IInv'
  BY TypeStep, LockStep, DataStep, CallStep, FlightStep, PendingStep, AnswerStep,
     RationStep DEF IInv

(* The invariant of every behaviour of the cache.                          *)
THEOREM Invariance == Spec => []IInv
  BY InvInit, InvStep, PTL DEF Spec

(* However many tasks call `get`, at most one of them is fetching, and a   *)
(* task that waits for the lock is in its queue exactly once.              *)
THEOREM LockCorrect == Spec => []LockInv
<1>1. IInv => LockInv
  BY DEF IInv
<1> QED BY <1>1, Invariance, PTL

(* No call returns data older than what was served before it began.        *)
THEOREM DataNeverGoBack == Spec => []NeverGoesBack
<1>1. IInv => NeverGoesBack
  BY DEF IInv
<1> QED BY <1>1, Invariance, PTL

(* A forced refresh that succeeds is at least as new as its request.       *)
THEOREM ForcedCallsAreCurrent == Spec => []ForcedIsCurrent
<1>1. IInv => ForcedIsCurrent
  BY DEF IInv
<1> QED BY <1>1, Invariance, PTL

(* A provider outage is never seen by a call that begins after data were   *)
(* served once.                                                            *)
THEOREM OutagesAreHidden == Spec => []AvailableOnceServed
<1>1. IInv => AvailableOnceServed
  BY DEF IInv
<1> QED BY <1>1, Invariance, PTL

(* By time t, unforced calls have sent at most 1 + t / TTL requests, those *)
(* that failed or were cancelled not counted.                              *)
THEOREM RefreshRateIsBounded == Spec => []RefreshesAreRationed
<1>1. ASSUME IInv
      PROVE  RefreshesAreRationed
  <2> DEFINE flying == {c \in Callers : pc[c] = "fetching" /\ ~forced[c]}
  <2>1. /\ clock \in Nat /\ fills \in Nat /\ TTL \in Nat
        /\ fetchedAt \in Nat \cup {None} /\ (value = None <=> fetchedAt = None)
        /\ fetchedAt # None => fetchedAt <= clock
        /\ fills # 0 => fetchedAt # None /\ (fills - 1) * TTL <= fetchedAt
    BY <1>1 DEF IInv, TypeOK, DataInv, RationInv
  <2>2. Cardinality(flying) \in {0, 1}
    <3>1. flying \subseteq {owner}
      BY <1>1 DEF IInv, LockInv
    <3>2. flying = {} \/ flying = {owner}
      BY <3>1
    <3> QED
      BY <3>2, FS_EmptySet, FS_Singleton
  <2>3. CASE flying = {}
    <3>1. Cardinality(flying) = 0
      BY <2>3, FS_EmptySet
    <3>2. Spent = fills
      BY <2>1, <3>1 DEF Spent
    <3> QED
      BY <2>1, <3>2 DEF RefreshesAreRationed
  <2>4. CASE flying # {} /\ fills = 0
    <3>1. Spent \in {0, 1}
      BY <2>2, <2>4 DEF Spent
    <3> QED
      BY <2>1, <3>1 DEF RefreshesAreRationed
  <2>5. CASE flying # {} /\ fills # 0
    <3>1. PICK c \in Callers : pc[c] = "fetching" /\ ~forced[c]
      BY <2>5
    <3>2. clock - fetchedAt >= TTL
      BY <1>1, <2>1, <2>5, <3>1 DEF IInv, FlightInv, Fresh
    <3>3. Spent \in {fills, fills + 1}
      BY <2>1, <2>2 DEF Spent
    <3>4. fills * TTL = (fills - 1) * TTL + TTL
      BY <2>1
    <3>5. (fills + 1) - 1 = fills
      BY <2>1
    <3>6. CASE Spent = fills
      BY <2>1, <2>5, <3>6 DEF RefreshesAreRationed
    <3>7. CASE Spent = fills + 1
      BY <2>1, <2>5, <3>2, <3>4, <3>5, <3>7 DEF RefreshesAreRationed
    <3> QED
      BY <3>3, <3>6, <3>7
  <2> QED
    BY <2>3, <2>4, <2>5
<1> QED BY <1>1, Invariance, PTL

-----------------------------------------------------------------------------
(***************************************************************************)
(* The refinement.  A call that is let in at once is the contract's Ask;   *)
(* one that queues is an Ask answered later; being granted the lock is     *)
(* invisible unless it answers the call.                                   *)
(***************************************************************************)
LEMMA ContractInit == Init => Contract!Init
  BY DEF Init, Contract!Init, Contract!Empty

LEMMA ContractStep == IInv /\ [Next]_vars => [Contract!Next]_(Contract!vars)
<1> SUFFICES ASSUME IInv, [Next]_vars
             PROVE  [Contract!Next]_(Contract!vars)
  OBVIOUS
<1>0. TypeOK /\ LockInv /\ DataInv /\ FlightInv /\ PendingInv
  BY DEF IInv
<1> DEFINE entry == [value |-> value, fetchedAt |-> fetchedAt, lastError |-> lastError]
           open == [c \in Callers |-> pc[c] # "idle"]
<1>1. \A f \in BOOLEAN : Fresh(f) <=> Contract!IsFresh(entry, f, clock, TTL)
  BY <1>0 DEF TypeOK, Fresh, Contract!IsFresh
<1>2. ASSUME NEW c \in Callers, NEW reply, open[c], entry' = reply.entry,
             reply \in Contract!Replies(entry, forced[c], asked[c], upstream, clock, TTL),
             Contract!Finish(c, reply), UNCHANGED <<forced, asked, clock, upstream>>
      PROVE  Contract!Answer(c)
  BY <1>2 DEF Contract!Answer, Contract!request, Contract!world
<1>3. ASSUME NEW c \in Callers, NEW f \in BOOLEAN, Call(c, f)
      PROVE  Contract!Ask(c, f)
  <2>1. /\ pc[c] = "idle" /\ open[c] = FALSE
        /\ forced' = [forced EXCEPT ![c] = f] /\ forced'[c] = f
        /\ asked' = [asked EXCEPT ![c] = upstream]
        /\ entry' = entry
        /\ UNCHANGED <<clock, upstream>>
    BY <1>0, <1>3 DEF Call, cacheVars, worldVars, TypeOK
  <2>2. CASE Hit(c, f)
    <3>1. Contract!IsFresh(entry, f, clock, TTL)
      BY <1>1, <2>2 DEF Hit
    <3>2. Contract!Finish(c, Contract!Hit(entry))
      BY <1>0, <2>1, <2>2 DEF TypeOK, Hit, Reply, Contract!Finish, Contract!Hit
    <3> QED BY <2>1, <3>1, <3>2 DEF Contract!Ask, Contract!world
  <2>3. CASE StartFetch(c, f) \/ Enqueue(c)
    <3>1. open' = [open EXCEPT ![c] = TRUE]
      BY <1>0, <2>3 DEF StartFetch, Enqueue, TypeOK
    <3>2. /\ outcome' = [outcome EXCEPT ![c] = "none"]
          /\ result' = [result EXCEPT ![c] = None]
      BY <2>3 DEF StartFetch, Enqueue
    <3> QED BY <2>1, <3>1, <3>2 DEF Contract!Ask, Contract!world
  <2> QED BY <1>3, <2>2, <2>3 DEF Call, Enter
<1>4. ASSUME NEW c \in Callers, Grant(c)
      PROVE  Contract!Answer(c) \/ UNCHANGED Contract!vars
  <2>1. /\ pc[c] = "waiting" /\ forced[c] \in BOOLEAN /\ open[c]
        /\ entry' = entry
        /\ UNCHANGED <<forced, asked, clock, upstream>>
    BY <1>0, <1>4 DEF Grant, cacheVars, callVars, worldVars, TypeOK
  <2>2. CASE Hit(c, forced[c])
    <3>1. Contract!IsFresh(entry, forced[c], clock, TTL)
      BY <1>1, <2>1, <2>2 DEF Hit
    <3>2. PICK reply : reply = Contract!Hit(entry)
      OBVIOUS
    <3>3. Contract!Finish(c, reply)
      BY <1>0, <2>1, <2>2, <3>2 DEF TypeOK, Hit, Reply, Contract!Finish, Contract!Hit
    <3>4. entry' = reply.entry
      BY <2>1, <3>2 DEF Contract!Hit
    <3>5. reply \in Contract!Replies(entry, forced[c], asked[c], upstream, clock, TTL)
      BY <3>1, <3>2 DEF Contract!Replies
    <3> QED
      BY <1>2, <2>1, <3>3, <3>4, <3>5
  <2>3. CASE StartFetch(c, forced[c])
    <3>1. open' = open
      BY <1>0, <2>1, <2>3 DEF StartFetch, TypeOK
    <3>2. outcome' = outcome /\ result' = result
      BY <1>0, <2>1, <2>3 DEF StartFetch, PendingInv, TypeOK
    <3> QED
      BY <2>1, <3>1, <3>2 DEF Contract!vars, Contract!request, Contract!world
  <2> QED BY <1>4, <2>2, <2>3 DEF Grant, Enter
<1>5. ASSUME NEW c \in Callers, FetchOk(c)
      PROVE  Contract!Answer(c)
  <2>1. /\ pc[c] = "fetching" /\ forced[c] \in BOOLEAN /\ open[c]
        /\ fetchedAt' = clock /\ lastError' = FALSE
        /\ pc' = [pc EXCEPT ![c] = "idle"]
        /\ UNCHANGED <<forced, asked, clock, upstream>>
    BY <1>0, <1>5 DEF FetchOk, Release, callVars, worldVars, TypeOK
  <2>2. PICK v \in sent..upstream : value' = v /\ Reply(c, "new", v)
    BY <1>5 DEF FetchOk
  <2>3. v \in asked[c]..upstream /\ (value # None => v >= value)
    BY <1>0, <2>1 DEF FlightInv, TypeOK, Version
  <2>4. ~Contract!IsFresh(entry, forced[c], clock, TTL)
    BY <1>0, <1>1, <2>1 DEF FlightInv
  <2>5. PICK reply : reply = Contract!New(entry, v, clock)
    OBVIOUS
  <2>6. reply \in Contract!Replies(entry, forced[c], asked[c], upstream, clock, TTL)
    BY <2>3, <2>4, <2>5 DEF Contract!Replies
  <2>7. entry' = reply.entry
    BY <2>1, <2>2, <2>5 DEF Contract!New
  <2>8. Contract!Finish(c, reply)
    BY <1>0, <2>1, <2>2, <2>5 DEF Reply, Contract!Finish, Contract!New, TypeOK
  <2> QED
    BY <1>2, <2>1, <2>6, <2>7, <2>8
<1>6. ASSUME NEW c \in Callers, FetchFail(c)
      PROVE  Contract!Answer(c)
  <2>1. /\ pc[c] = "fetching" /\ forced[c] \in BOOLEAN /\ open[c]
        /\ lastError' = TRUE
        /\ pc' = [pc EXCEPT ![c] = "idle"]
        /\ UNCHANGED <<value, fetchedAt, forced, asked, clock, upstream>>
    BY <1>0, <1>6 DEF FetchFail, Release, callVars, worldVars, TypeOK
  <2>2. ~Contract!IsFresh(entry, forced[c], clock, TTL)
    BY <1>0, <1>1, <2>1 DEF FlightInv
  <2>3. PICK reply : reply = Contract!Old(entry)
    OBVIOUS
  <2>4. reply \in Contract!Replies(entry, forced[c], asked[c], upstream, clock, TTL)
    BY <2>2, <2>3 DEF Contract!Replies
  <2>5. entry' = reply.entry
    BY <2>1, <2>3 DEF Contract!Old
  <2>6. Contract!Finish(c, reply)
    BY <1>0, <1>6, <2>1, <2>3 DEF FetchFail, Reply, Contract!Finish, Contract!Old, TypeOK
  <2> QED
    BY <1>2, <2>1, <2>4, <2>5, <2>6
<1>7. ASSUME NEW c \in Callers, CancelFetch(c) \/ CancelWait(c)
      PROVE  Contract!Withdraw(c)
  <2>1. /\ pc[c] # "idle" /\ pc' = [pc EXCEPT ![c] = "idle"]
        /\ UNCHANGED <<cacheVars, callVars, outcome, result, worldVars>>
    BY <1>7 DEF CancelFetch, CancelWait, Release, replyVars
  <2>2. open[c] /\ open' = [open EXCEPT ![c] = FALSE]
    BY <1>0, <2>1 DEF TypeOK
  <2> QED
    BY <2>1, <2>2 DEF Contract!Withdraw, Contract!request, Contract!world,
       cacheVars, callVars, worldVars
<1>8. CASE Tick
  BY <1>8 DEF Tick, Contract!Next, Contract!Tick, Contract!request,
              cacheVars, callVars, replyVars
<1>9. CASE Publish
  BY <1>9 DEF Publish, Contract!Next, Contract!Publish,
              Contract!request, cacheVars, callVars, replyVars
<1>10. CASE UNCHANGED vars
  BY <1>10 DEF vars, Contract!vars, Contract!request, Contract!world,
               cacheVars, callVars, replyVars, worldVars
<1> QED
  BY <1>3, <1>4, <1>5, <1>6, <1>7, <1>8, <1>9, <1>10 DEF Next, Contract!Next

(* Every behaviour of the cache is one its contract allows: each call      *)
(* takes effect at one instant between its beginning and its end.          *)
THEOREM CacheImplementsContract == Spec => ImplementsContract
<1>1. Spec => [][Contract!Next]_(Contract!vars)
  BY Invariance, ContractStep, PTL DEF Spec
<1> QED
  BY <1>1, ContractInit, PTL DEF Spec, ImplementsContract, Contract!Spec
=============================================================================
