----------------------------- MODULE CacheRules -----------------------------
(***************************************************************************)
(* The rules a TTL cache answers by (providers/cache.py), as a function of *)
(* what it holds.  An entry is a value, the time of the fetch that         *)
(* produced it, and whether the latest fetch failed.                       *)
(***************************************************************************)
EXTENDS Integers

CONSTANT None  \* Python's None

Empty == [value |-> None, fetchedAt |-> None, lastError |-> FALSE]

(* The entry may be served as it is at time t to a call with `force` = f. *)
IsFresh(entry, f, t, ttl) ==
  ~f /\ entry.value # None /\ t - entry.fetchedAt < ttl

Hit(entry) == [how |-> "hit", version |-> entry.value, entry |-> entry]

(* A fetch yields data no older than the call and than the data replaced. *)
New(entry, v, t) ==
  [how |-> "new", version |-> v,
   entry |-> [value |-> v, fetchedAt |-> t, lastError |-> FALSE]]

Old_Discarded(entry) ==
  [how |-> "raised", version |-> None, entry |-> [entry EXCEPT !.lastError = TRUE]]

(* A fetch that failed: the old value if there is one, else the error.     *)
Old(entry) ==
  [how |-> IF entry.value # None THEN "stale" ELSE "raised",
   version |-> entry.value,
   entry |-> [entry EXCEPT !.lastError = TRUE]]

(* Every answer a call may get at time t, and what it makes of the entry,  *)
(* when the call began at upstream version `asked` and `upstream` is the   *)
(* version now.                                                            *)
Replies(entry, f, asked, upstream, t, ttl) ==
  IF IsFresh(entry, f, t, ttl)
  THEN {Hit(entry)}
  ELSE {Old(entry)} \cup
       {New(entry, v, t) :
          v \in {w \in asked..upstream : entry.value # None => w >= entry.value}}
=============================================================================
