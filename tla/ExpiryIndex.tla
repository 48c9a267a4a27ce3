------------------------------ MODULE ExpiryIndex ------------------------------
(***************************************************************************)
(* The two indices of a TimedSizedMap and the operations on them, every    *)
(* one of which must change both: entries maps a key to its entry,         *)
(* by_expiry maps an expiry to the queue of its keys.                      *)
(***************************************************************************)
EXTENDS Containers, Sequences, Functions

Empty == [entries |-> << >>, by_expiry |-> << >>]

IsExpired(expiresAt, time) == time > expiresAt

HasLive(m, time, k) ==
  k \in DOMAIN m.entries /\ ~IsExpired(m.entries[k].expiresAt, time)

Bucket(m, t) == IF t \in DOMAIN m.by_expiry THEN m.by_expiry[t] ELSE << >>

\* Mutant: a bucket is opened for every entry and replaces an older one.
Enqueue_NewBucket(m, k, e) ==
  [entries   |-> With(m.entries, k, e),
   by_expiry |-> With(m.by_expiry, e.expiresAt, <<k>>)]

\* enqueue_by_expiry, and the insertion that follows every call of it.
Enqueue(m, k, e) ==
  [entries   |-> With(m.entries, k, e),
   by_expiry |-> With(m.by_expiry, e.expiresAt, Append(Bucket(m, e.expiresAt), k))]

\* Mutant: an entry is evicted at its expiry instant, when it is still live.
Evict_AtExpiry(m, time) ==
  LET due  == {t \in DOMAIN m.by_expiry : time >= t}
      keys == UNION {Range(m.by_expiry[t]) : t \in due}
  IN  [entries   |-> Restrict(m.entries, DOMAIN m.entries \ keys),
       by_expiry |-> Restrict(m.by_expiry, DOMAIN m.by_expiry \ due)]

\* evict_expired: the keys to remove are those of the expired buckets.
Evict(m, time) ==
  LET due  == {t \in DOMAIN m.by_expiry : IsExpired(t, time)}
      keys == UNION {Range(m.by_expiry[t]) : t \in due}
  IN  [entries   |-> Restrict(m.entries, DOMAIN m.entries \ keys),
       by_expiry |-> Restrict(m.by_expiry, DOMAIN m.by_expiry \ due)]

\* remove, of an entry that exists; a bucket that becomes empty is removed too.
Delete(m, k) ==
  LET t    == m.entries[k].expiresAt
      q    == m.by_expiry[t]
      rest == Kept(q, {i \in DOMAIN q : q[i] # k})
  IN  [entries   |-> Restrict(m.entries, DOMAIN m.entries \ {k}),
       by_expiry |-> IF rest = << >>
                     THEN Restrict(m.by_expiry, DOMAIN m.by_expiry \ {t})
                     ELSE [m.by_expiry EXCEPT ![t] = rest]]

\* What get_value_mut allows: the value of an entry is replaced.
SetValue(m, k, v) == [m EXCEPT !.entries[k].value = v]

================================================================================
