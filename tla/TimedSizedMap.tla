----------------------------- MODULE TimedSizedMap -----------------------------
(***************************************************************************)
(* TimedSizedMap, the map behind the watchlist: at most Capacity entries,  *)
(* each living at most Ttl, kept in the two indices of module ExpiryIndex. *)
(* Time is given by the caller and does not go back.                       *)
(***************************************************************************)
EXTENDS ExpiryIndex

CONSTANTS
  Key, Value,
  Ttl,      \* ttl
  Capacity, \* capacity
  MaxTime   \* u64::MAX, the largest Timestamp

ASSUME TimedSizedMapAssumption ==
  /\ Ttl \in Nat /\ MaxTime \in Nat
  /\ Capacity \in Nat \ {0}

Timestamp == 0..MaxTime

VARIABLES
  map, \* the two indices
  now  \* the time of the latest call

vars == <<map, now>>

-------------------------------------------------------------------------------
\* The helpers.

\* Timestamp::saturating_add of the ttl.
Expiry(time) == IF time + Ttl > MaxTime THEN MaxTime ELSE time + Ttl

\* insert_entry.  Eviction is not undone when there is still no room.
InsertEntry(m, time, k, e) ==
  LET evicted == Evict(m, time)
      clamped == [e EXCEPT !.expiresAt = IF @ < Expiry(time) THEN @ ELSE Expiry(time)]
  IN  IF IsExpired(e.expiresAt, time) THEN [map |-> m, reply |-> "expired"]
      ELSE IF HasLive(m, time, k) THEN [map |-> m, reply |-> "already_present"]
      ELSE IF Cardinality(DOMAIN evicted.entries) >= Capacity
        THEN [map |-> evicted, reply |-> "at_capacity"]
      ELSE [map |-> Enqueue(evicted, k, clamped), reply |-> "inserted"]

-------------------------------------------------------------------------------
\* The operations that change the map.

Init == map = Empty /\ now = 0

InsertEntryAt(k, v, t) ==
  /\ map' = InsertEntry(map, now, k, [value |-> v, expiresAt |-> t]).map
  /\ UNCHANGED now

\* insert: an entry that lives for the whole ttl.
Insert(k, v) == InsertEntryAt(k, v, Expiry(now))

\* get_value_mut: the value of a live entry is within reach, its expiry is not.
GetValueMut(k, v) ==
  /\ HasLive(map, now, k)
  /\ map' = SetValue(map, k, v)
  /\ UNCHANGED now

EvictExpired ==
  /\ map' = Evict(map, now)
  /\ UNCHANGED now

RemoveKey(k) ==
  /\ k \in DOMAIN map.entries
  /\ map' = Delete(map, k)
  /\ UNCHANGED now

\* The environment: the caller's clock.
Tick ==
  /\ now < MaxTime
  /\ now' = now + 1
  /\ UNCHANGED map

Next ==
  \/ \E k \in Key, v \in Value : Insert(k, v)
  \/ \E k \in Key, v \in Value, t \in Timestamp : InsertEntryAt(k, v, t)
  \/ \E k \in Key, v \in Value : GetValueMut(k, v)
  \/ EvictExpired
  \/ \E k \in Key : RemoveKey(k)
  \/ Tick

Spec == Init /\ [][Next]_vars

-------------------------------------------------------------------------------
\* The assertions marked BUG in evict_expired, remove and iter_by_expiry, and
\* what they rest on: a key is queued exactly once, under the expiry of its
\* entry, and no bucket is empty, whatever was inserted, evicted and removed.
IndicesAgree ==
  /\ \A t \in DOMAIN map.by_expiry :
       /\ map.by_expiry[t] # << >>
       /\ IsInjective(map.by_expiry[t])
       /\ \A k \in Range(map.by_expiry[t]) :
            k \in DOMAIN map.entries /\ map.entries[k].expiresAt = t
  /\ \A k \in DOMAIN map.entries :
       k \in Range(Bucket(map, map.entries[k].expiresAt))

===============================================================================
