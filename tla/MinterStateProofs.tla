--------------------------- MODULE MinterStateProofs ---------------------------
(***************************************************************************)
(* TimedSizedMap is a TtlMap to a user who looks at live entries, and      *)
(* iterating over an InsertionOrderedMap shows an OrderedMap, for any keys *)
(* and values.  Both rest on the agreement of two indices.  The order of   *)
(* iteration is by rank: what the i-th smallest sequence number becomes    *)
(* when one is taken out or a larger one comes in.  A configuration that   *)
(* was validated, by init or by an upgrade, charges and pays as promised.  *)
(***************************************************************************)
EXTENDS DataTheorems, MinterState

--------------------------------------------------------------------------------
(* TimedSizedMap. *)

\* An entry as insert_entry makes it.
IsEntry(e) == e = [value |-> e.value, expiresAt |-> e.expiresAt] /\ e.expiresAt \in Nat

\* The indices of the map agree, and what they hold are finitely many entries.
MapInv ==
  /\ now \in Nat /\ now <= MaxTime
  /\ Agree(map, Key)
  /\ IsFiniteSet(DOMAIN map.entries)
  /\ \A k \in DOMAIN map.entries : IsEntry(map.entries[k])

\* What is live of m at a time, as a map.
LiveOf(m, time) == Restrict(m.entries, {k \in DOMAIN m.entries : HasLive(m, time, k)})

\* The live entries by what they are.
LEMMA LiveIs ==
  ASSUME NEW m, NEW time
  PROVE  /\ DOMAIN LiveOf(m, time) = {k \in DOMAIN m.entries : ~IsExpired(m.entries[k].expiresAt, time)}
         /\ \A k \in DOMAIN LiveOf(m, time) : LiveOf(m, time)[k] = m.entries[k]
         /\ LiveOf(m, time) = [k \in DOMAIN LiveOf(m, time) |-> LiveOf(m, time)[k]]
         /\ \A k : k \in DOMAIN LiveOf(m, time) <=> HasLive(m, time, k)
BY Zenon DEF LiveOf, HasLive, Restrict

\* Eviction is invisible: what it leaves are the live entries.
LEMMA EvictKeepsLive ==
  ASSUME NEW m, Agree(m, Key), NEW time, NEW n, n = Evict(m, time)
  PROVE  n.entries = LiveOf(m, time) /\ LiveOf(n, time) = LiveOf(m, time)
<1>1. /\ Agree(n, Key)
      /\ DOMAIN n.entries = {k \in DOMAIN m.entries : ~IsExpired(m.entries[k].expiresAt, time)}
      /\ \A k \in DOMAIN n.entries : n.entries[k] = m.entries[k]
  BY EvictAgrees
<1>. DEFINE l == LiveOf(m, time)
            e == LiveOf(n, time)
<1>2. /\ DOMAIN l = {k \in DOMAIN m.entries : ~IsExpired(m.entries[k].expiresAt, time)}
      /\ \A k \in DOMAIN l : l[k] = m.entries[k]
      /\ l = [k \in DOMAIN l |-> l[k]]
  BY LiveIs, ZenonT(60)
<1>3. /\ DOMAIN e = {k \in DOMAIN n.entries : ~IsExpired(n.entries[k].expiresAt, time)}
      /\ \A k \in DOMAIN e : e[k] = n.entries[k]
      /\ e = [k \in DOMAIN e |-> e[k]]
  <2>1. \A p : /\ DOMAIN LiveOf(p, time) = {k \in DOMAIN p.entries : ~IsExpired(p.entries[k].expiresAt, time)}
               /\ \A k \in DOMAIN LiveOf(p, time) : LiveOf(p, time)[k] = p.entries[k]
               /\ LiveOf(p, time) = [k \in DOMAIN LiveOf(p, time) |-> LiveOf(p, time)[k]]
    BY LiveIs, ZenonT(60)
  <2>. QED  BY <2>1, ZenonT(60)
<1>. HIDE DEF l, e
<1>4. e = n.entries
  BY <1>3, <1>1 DEF Agree
<1>. QED  BY <1>4, <1>1, <1>2 DEF l, e, Agree

\* The time an entry ends at is in the Ttl after the time it is inserted.
LEMMA ClampedExpiry ==
  ASSUME NEW time \in Nat, NEW t \in Nat, ~IsExpired(t, time), time <= MaxTime
  PROVE  LET c == IF t < Expiry(time) THEN t ELSE Expiry(time)
         IN  c \in Nat /\ c \in time .. (time + Ttl) /\ ~IsExpired(c, time)
BY TimedSizedMapAssumption DEF Expiry, IsExpired

\* The map of the abstract specification is the live part of the map.
LEMMA LiveMapIs ==
  /\ Restrict(map.entries, {k \in DOMAIN map.entries : HasLive(map, now, k)}) = LiveOf(map, now)
  /\ Restrict(map.entries, {k \in DOMAIN map.entries : HasLive(map, now, k)})' = LiveOf(map', now')
BY Zenon DEF LiveOf, HasLive

\* insert_entry: an entry is refused, refused after an eviction, or admitted.
LEMMA InsertCases ==
  ASSUME MapInv, NEW k \in Key, NEW v, NEW t \in Nat, InsertEntryAt(k, v, t)
  PROVE  LET n == Evict(map, now)
             c == IF t < Expiry(now) THEN t ELSE Expiry(now)
             d == [value |-> v, expiresAt |-> c]
         IN  \/ map' = map
             \/ map' = n
             \/ /\ ~IsExpired(t, now) /\ ~HasLive(map, now, k)
                /\ ~(Cardinality(DOMAIN n.entries) >= Capacity)
                /\ map' = Enqueue(n, k, d)
<1>. DEFINE e == [value |-> v, expiresAt |-> t]
            n == Evict(map, now)
            c == IF t < Expiry(now) THEN t ELSE Expiry(now)
            d == [value |-> v, expiresAt |-> c]
            r == InsertEntry(map, now, k, e)
<1>1. map' = r.map
  BY Zenon DEF InsertEntryAt
<1>2. [e EXCEPT !.expiresAt = IF @ < Expiry(now) THEN @ ELSE Expiry(now)] = d /\ e.expiresAt = t
  OBVIOUS
<1>. HIDE DEF d, e, n
<1>3. r = IF IsExpired(t, now) THEN [map |-> map, reply |-> "expired"]
          ELSE IF HasLive(map, now, k) THEN [map |-> map, reply |-> "already_present"]
          ELSE IF Cardinality(DOMAIN n.entries) >= Capacity
            THEN [map |-> n, reply |-> "at_capacity"]
          ELSE [map |-> Enqueue(n, k, d), reply |-> "inserted"]
  BY <1>2, Zenon DEF InsertEntry, n
<1>. HIDE DEF r
<1>. QED  BY <1>1, <1>3, Zenon DEF n, d

\* Inserting keeps the invariant, and shows as admitting an entry or not at all.
LEMMA InsertStep ==
  ASSUME MapInv, NEW k \in Key, NEW v \in Value, NEW t \in Nat, InsertEntryAt(k, v, t)
  PROVE  MapInv' /\ [LiveMap!Next]_(LiveMap!vars)
<1>. DEFINE n == Evict(map, now)
            c == IF t < Expiry(now) THEN t ELSE Expiry(now)
            d == [value |-> v, expiresAt |-> c]
            l == LiveOf(map, now)
<1>1. now' = now /\ now \in Nat /\ now <= MaxTime
  BY Zenon DEF InsertEntryAt, MapInv
<1>2. /\ Agree(n, Key) /\ DOMAIN n.entries \subseteq DOMAIN map.entries
      /\ \A x \in DOMAIN n.entries : n.entries[x] = map.entries[x]
      /\ n.entries = l /\ LiveOf(n, now) = l
  BY EvictAgrees, EvictKeepsLive DEF MapInv
<1>. HIDE DEF n
<1>3. /\ IsFiniteSet(DOMAIN n.entries) /\ Cardinality(DOMAIN n.entries) \in Nat
      /\ \A x \in DOMAIN n.entries : IsEntry(n.entries[x])
  BY <1>2, FS_Subset, FS_CardinalityType, Zenon DEF MapInv
<1>4. CASE map' = map
  <2>1. MapInv'
    BY <1>1, <1>4, Zenon DEF MapInv
  <2>2. LiveOf(map', now') = LiveOf(map, now)
    BY <1>1, <1>4, Zenon
  <2>. QED  BY <1>1, <2>1, <2>2, LiveMapIs, Zenon DEF LiveMap!vars
<1>5. CASE map' = n
  <2>1. MapInv'
    BY <1>1, <1>2, <1>3, <1>5, Zenon DEF MapInv
  <2>2. LiveOf(map', now') = LiveOf(map, now)
    BY <1>1, <1>2, <1>5, Zenon
  <2>. QED  BY <1>1, <2>1, <2>2, LiveMapIs, Zenon DEF LiveMap!vars
<1>6. ASSUME ~IsExpired(t, now), ~HasLive(map, now, k), ~(Cardinality(DOMAIN n.entries) >= Capacity),
             map' = Enqueue(n, k, d)
      PROVE  MapInv' /\ [LiveMap!Next]_(LiveMap!vars)
  <2>1. c \in Nat /\ c \in now .. (now + Ttl) /\ ~IsExpired(c, now)
    BY <1>1, <1>6, ClampedExpiry, Zenon
  <2>. HIDE DEF c
  <2>2. d.expiresAt = c /\ d.value = v /\ IsEntry(d)
    BY <2>1, Zenon DEF IsEntry
  <2>. HIDE DEF d
  <2>3. k \notin DOMAIN n.entries
    BY <1>2, <1>6, LiveIs, Zenon
  <2>4. /\ Agree(map', Key)
        /\ map'.entries = [x \in DOMAIN n.entries \cup {k} |-> IF x = k THEN d ELSE n.entries[x]]
    BY <1>2, <1>6, <2>3, EnqueueAgrees
  <2>5. /\ DOMAIN map'.entries = DOMAIN n.entries \cup {k}
        /\ map'.entries[k] = d /\ \A x \in DOMAIN n.entries : map'.entries[x] = n.entries[x]
    BY <2>3, <2>4, Zenon
  <2>6. IsFiniteSet(DOMAIN map'.entries)
    BY <1>3, <2>5, FS_AddElement
  <2>7. MapInv'
    BY <1>1, <1>3, <2>2, <2>4, <2>5, <2>6, Zenon DEF MapInv
  <2>8. LiveOf(map', now') = [x \in DOMAIN l \cup {k} |-> IF x = k THEN d ELSE l[x]]
    <3>. DEFINE e == map'.entries
                g == LiveOf(map', now')
    <3>1. /\ DOMAIN g = {x \in DOMAIN e : ~IsExpired(e[x].expiresAt, now')}
          /\ \A x \in DOMAIN g : g[x] = e[x]
          /\ g = [x \in DOMAIN g |-> g[x]]
      BY LiveIs, ZenonT(60)
    <3>2. \A x \in DOMAIN n.entries : ~IsExpired(n.entries[x].expiresAt, now)
      <4>1. DOMAIN LiveOf(n, now) = {x \in DOMAIN n.entries : ~IsExpired(n.entries[x].expiresAt, now)}
        BY LiveIs, Zenon
      <4>. QED  BY <4>1, <1>2, Zenon
    <3>. HIDE DEF g, l, e
    <3>3. \A x \in DOMAIN e : ~IsExpired(e[x].expiresAt, now')
      BY <1>1, <2>1, <2>2, <2>5, <3>2, Zenon DEF e
    <3>4. k \notin DOMAIN l
      BY <1>2, <2>3, Zenon
    <3>5. g = [x \in DOMAIN l \cup {k} |-> IF x = k THEN d ELSE l[x]]
      BY <3>1, <3>4, <1>2, <2>5, <3>3, Zenon DEF e
    <3>. QED  BY <3>5, Zenon DEF g
  <2>9. /\ k \notin DOMAIN l /\ Cardinality(DOMAIN l) < Capacity /\ c >= now /\ c <= now + Ttl
        /\ c \in now .. (now + Ttl)
    BY <1>1, <1>2, <1>3, <1>6, <2>1, <2>3, TimedSizedMapAssumption
  <2>10. LiveMap!Admit(k, v, c)
    <3>. DEFINE L == Restrict(map.entries, {x \in DOMAIN map.entries : HasLive(map, now, x)})
    <3>1. L = l /\ L' = LiveOf(map', now')
      BY LiveMapIs, Zenon
    <3>. HIDE DEF L, l, d, LiveOf
    <3>2. LiveMap!Cardinality(DOMAIN L) = Cardinality(DOMAIN L)
      BY Zenon DEF LiveMap!Cardinality, Cardinality
    <3>. QED  BY <1>1, <2>9, <3>2, <2>8, <3>1, Zenon DEF LiveMap!Admit, L, d
  <2>11. LiveMap!Next
    BY <2>9, <2>10, Zenon DEF LiveMap!Next
  <2>. QED  BY <2>7, <2>11, Zenon
<1>7. \/ map' = map
      \/ map' = n
      \/ /\ ~IsExpired(t, now) /\ ~HasLive(map, now, k)
         /\ ~(Cardinality(DOMAIN n.entries) >= Capacity)
         /\ map' = Enqueue(n, k, d)
  BY InsertCases, Zenon DEF n
<1>. QED  BY <1>4, <1>5, <1>6, <1>7, Zenon

\* Replacing the value of a live entry shows as that.
LEMMA ModifyStep ==
  ASSUME MapInv, NEW k \in Key, NEW v \in Value, GetValueMut(k, v)
  PROVE  MapInv' /\ LiveMap!Next
<1>. DEFINE e == map.entries
            d == [value |-> v, expiresAt |-> e[k].expiresAt]
            l == LiveOf(map, now)
            g == LiveOf(map', now')
<1>1. /\ now' = now /\ now \in Nat /\ now <= MaxTime /\ HasLive(map, now, k)
      /\ map' = SetValue(map, k, v) /\ Agree(map, Key) /\ IsFiniteSet(DOMAIN e)
      /\ k \in DOMAIN e /\ \A x \in DOMAIN e : IsEntry(e[x])
  BY Zenon DEF GetValueMut, MapInv, HasLive
<1>2. e[k] = [value |-> e[k].value, expiresAt |-> e[k].expiresAt] /\ e[k].expiresAt \in Nat
  BY <1>1, Zenon DEF IsEntry
<1>3. /\ Agree(map', Key)
      /\ map'.entries = [x \in DOMAIN e |-> IF x = k THEN d ELSE e[x]]
  BY <1>1, <1>2, SetValueAgrees
<1>4. d.expiresAt = e[k].expiresAt /\ d.value = v /\ IsEntry(d)
  BY <1>2, Zenon DEF IsEntry
<1>. HIDE DEF d
<1>5. /\ DOMAIN map'.entries = DOMAIN e /\ map'.entries[k] = d
      /\ \A x \in DOMAIN e : x # k => map'.entries[x] = e[x]
      /\ \A x \in DOMAIN e : map'.entries[x].expiresAt = e[x].expiresAt
  BY <1>1, <1>3, <1>4, Zenon
<1>6. MapInv'
  BY <1>1, <1>3, <1>4, <1>5, Zenon DEF MapInv
<1>7. /\ DOMAIN l = {x \in DOMAIN e : ~IsExpired(e[x].expiresAt, now)}
      /\ \A x \in DOMAIN l : l[x] = e[x]
      /\ l = [x \in DOMAIN l |-> l[x]]
      /\ k \in DOMAIN l
  BY <1>1, LiveIs, ZenonT(60)
<1>8. /\ DOMAIN g = {x \in DOMAIN map'.entries : ~IsExpired(map'.entries[x].expiresAt, now')}
      /\ \A x \in DOMAIN g : g[x] = map'.entries[x]
      /\ g = [x \in DOMAIN g |-> g[x]]
  BY LiveIs, ZenonT(60)
<1>. HIDE DEF l, g
<1>9. DOMAIN g = DOMAIN l
  BY <1>1, <1>5, <1>7, <1>8, Zenon
<1>10. g[k] = d /\ \A x \in DOMAIN l : x # k => g[x] = l[x]
  BY <1>5, <1>7, <1>8, <1>9, Zenon
<1>11. [l[k] EXCEPT !.value = v] = d
  BY <1>2, <1>7 DEF d
<1>12. g = [l EXCEPT ![k].value = v]
  <2>1. g = [x \in DOMAIN l |-> IF x = k THEN [l[k] EXCEPT !.value = v] ELSE l[x]]
    BY <1>8, <1>9, <1>10, <1>11, Zenon
  <2>. QED  BY <1>7, <2>1, Zenon
<1>13. LiveMap!Modify(k, v)
  <2>. DEFINE L == Restrict(map.entries, {x \in DOMAIN map.entries : HasLive(map, now, x)})
  <2>1. L = l /\ L' = g
    BY LiveMapIs, Zenon DEF l, g
  <2>. HIDE DEF L
  <2>2. k \in DOMAIN L /\ L' = [L EXCEPT ![k].value = v]
    BY <1>7, <1>12, <2>1, Zenon
  <2>. QED  BY <1>1, <2>2, Zenon DEF LiveMap!Modify, L
<1>. QED  BY <1>6, <1>13, Zenon DEF LiveMap!Next

\* evict_expired does not show.
LEMMA EvictStep ==
  ASSUME MapInv, EvictExpired
  PROVE  MapInv' /\ UNCHANGED LiveMap!vars
<1>1. /\ now' = now /\ now \in Nat /\ now <= MaxTime /\ map' = Evict(map, now) /\ Agree(map, Key)
      /\ IsFiniteSet(DOMAIN map.entries) /\ \A x \in DOMAIN map.entries : IsEntry(map.entries[x])
  BY Zenon DEF EvictExpired, MapInv
<1>2. /\ Agree(map', Key)
      /\ DOMAIN map'.entries = {x \in DOMAIN map.entries : ~IsExpired(map.entries[x].expiresAt, now)}
      /\ \A x \in DOMAIN map'.entries : map'.entries[x] = map.entries[x]
  BY <1>1, EvictAgrees
<1>3. IsFiniteSet(DOMAIN map'.entries)
  BY <1>1, <1>2, FS_Subset, Zenon
<1>4. MapInv'
  BY <1>1, <1>2, <1>3, Zenon DEF MapInv
<1>5. LiveOf(map', now) = LiveOf(map, now)
  BY <1>1, EvictKeepsLive, Zenon
<1>. QED  BY <1>1, <1>4, <1>5, LiveMapIs, Zenon DEF LiveMap!vars

\* Removing a key shows as forgetting it if its entry is live, and not otherwise.
LEMMA RemoveStep ==
  ASSUME MapInv, NEW k \in Key, RemoveKey(k)
  PROVE  MapInv' /\ [LiveMap!Next]_(LiveMap!vars)
<1>. DEFINE e == map.entries
            l == LiveOf(map, now)
            g == LiveOf(map', now')
<1>1. /\ now' = now /\ now \in Nat /\ now <= MaxTime /\ map' = Delete(map, k) /\ Agree(map, Key)
      /\ k \in DOMAIN e /\ IsFiniteSet(DOMAIN e) /\ \A x \in DOMAIN e : IsEntry(e[x])
  BY Zenon DEF RemoveKey, MapInv
<1>2. Agree(map', Key) /\ map'.entries = [x \in DOMAIN e \ {k} |-> e[x]]
  BY <1>1, DeleteAgrees
<1>3. DOMAIN map'.entries = DOMAIN e \ {k} /\ \A x \in DOMAIN e \ {k} : map'.entries[x] = e[x]
  BY <1>2, Zenon
<1>4. MapInv'
  <2>1. IsFiniteSet(DOMAIN map'.entries)
    BY <1>1, <1>3, FS_RemoveElement, Zenon
  <2>. QED  BY <1>1, <1>2, <1>3, <2>1, Zenon DEF MapInv
<1>5. /\ DOMAIN l = {x \in DOMAIN e : ~IsExpired(e[x].expiresAt, now)}
      /\ \A x \in DOMAIN l : l[x] = e[x]
      /\ l = [x \in DOMAIN l |-> l[x]]
  BY LiveIs, ZenonT(60)
<1>6. /\ DOMAIN g = {x \in DOMAIN map'.entries : ~IsExpired(map'.entries[x].expiresAt, now')}
      /\ \A x \in DOMAIN g : g[x] = map'.entries[x]
      /\ g = [x \in DOMAIN g |-> g[x]]
  BY LiveIs, ZenonT(60)
<1>. HIDE DEF l, g
<1>7. DOMAIN g = DOMAIN l \ {k}
  BY <1>1, <1>3, <1>5, <1>6, Zenon
<1>8. \A x \in DOMAIN g : g[x] = l[x]
  BY <1>3, <1>5, <1>6, <1>7, Zenon
<1>. DEFINE L == Restrict(map.entries, {x \in DOMAIN map.entries : HasLive(map, now, x)})
<1>9. L = l /\ L' = g
  BY LiveMapIs, Zenon DEF l, g
<1>. HIDE DEF L
<1>10. CASE k \in DOMAIN l
  <2>1. k \in DOMAIN L /\ L' = Restrict(L, DOMAIN L \ {k})
    BY <1>9, <1>10, <1>6, <1>7, <1>8, Zenon DEF Restrict
  <2>2. \A f, S : LiveMap!Restrict(f, S) = Restrict(f, S)
    BY Zenon DEF LiveMap!Restrict, Restrict
  <2>3. LiveMap!Forget(k)
    BY <1>1, <2>1, <2>2, Zenon DEF LiveMap!Forget, L
  <2>. QED  BY <1>4, <2>3, Zenon DEF LiveMap!Next
<1>11. CASE k \notin DOMAIN l
  BY <1>5, <1>6, <1>7, <1>8, <1>11, <1>9, <1>1, <1>4 DEF LiveMap!vars, L
<1>. QED  BY <1>10, <1>11, Zenon

\* When the time passes, exactly those entries cease to show whose end it passes.
LEMMA TickStep ==
  ASSUME MapInv, Tick
  PROVE  MapInv' /\ LiveMap!Next
<1>. DEFINE e == map.entries
            l == LiveOf(map, now)
            g == LiveOf(map', now')
<1>1. /\ now' = now + 1 /\ now \in Nat /\ now < MaxTime /\ map' = map /\ Agree(map, Key)
      /\ IsFiniteSet(DOMAIN e) /\ \A x \in DOMAIN e : IsEntry(e[x])
  BY Zenon DEF Tick, MapInv
<1>2. /\ DOMAIN l = {x \in DOMAIN e : ~IsExpired(e[x].expiresAt, now)}
      /\ \A x \in DOMAIN l : l[x] = e[x]
      /\ l = [x \in DOMAIN l |-> l[x]]
  BY LiveIs, ZenonT(60)
<1>3. /\ DOMAIN g = {x \in DOMAIN map'.entries : ~IsExpired(map'.entries[x].expiresAt, now')}
      /\ \A x \in DOMAIN g : g[x] = map'.entries[x]
      /\ g = [x \in DOMAIN g |-> g[x]]
  BY LiveIs, ZenonT(60)
<1>4. \A x \in DOMAIN e : /\ ~IsExpired(e[x].expiresAt, now') => ~IsExpired(e[x].expiresAt, now)
                          /\ ~IsExpired(e[x].expiresAt, now') <=> e[x].expiresAt >= now'
  <2>. SUFFICES ASSUME NEW x \in DOMAIN e
                PROVE  /\ ~IsExpired(e[x].expiresAt, now') => ~IsExpired(e[x].expiresAt, now)
                       /\ ~IsExpired(e[x].expiresAt, now') <=> e[x].expiresAt >= now'
    BY Zenon
  <2>1. e[x].expiresAt \in Nat
    BY <1>1, Zenon DEF IsEntry
  <2>. QED  BY <1>1, <2>1 DEF IsExpired
<1>. HIDE DEF l, g
<1>5. DOMAIN g = {x \in DOMAIN l : l[x].expiresAt >= now'}
  BY <1>1, <1>2, <1>3, <1>4, Zenon
<1>6. \A x \in DOMAIN g : g[x] = l[x]
  BY <1>1, <1>2, <1>3, <1>5, Zenon
<1>. DEFINE L == Restrict(map.entries, {x \in DOMAIN map.entries : HasLive(map, now, x)})
<1>7. L = l /\ L' = g
  BY LiveMapIs, Zenon DEF l, g
<1>. HIDE DEF L
<1>8. L' = Restrict(L, {x \in DOMAIN L : L[x].expiresAt >= now'})
  BY <1>7, <1>3, <1>5, <1>6, Zenon DEF Restrict
<1>9. LiveMap!Tick
  BY <1>1, <1>8, Zenon DEF LiveMap!Tick, L, LiveMap!Restrict, Restrict
<1>. QED  BY <1>9, <1>1, TimedSizedMapAssumption DEF LiveMap!Next, MapInv

\* Initially there is nothing.
LEMMA MapInit == Init => MapInv /\ LiveMap!Init
<1>. SUFFICES ASSUME Init PROVE MapInv /\ LiveMap!Init
  BY Zenon
<1>1. map = Empty /\ now = 0
  BY Zenon DEF Init
<1>2. Agree(map, Key) /\ DOMAIN map.entries = {}
  BY <1>1, EmptyAgrees, Zenon
<1>3. MapInv
  BY <1>1, <1>2, FS_EmptySet, TimedSizedMapAssumption DEF MapInv
<1>4. Restrict(map.entries, {k \in DOMAIN map.entries : HasLive(map, now, k)}) = << >>
  BY <1>2 DEF Restrict
<1>. QED  BY <1>1, <1>3, <1>4, Zenon DEF LiveMap!Init

\* Every step of the map is one of the abstract map, or does not show.
LEMMA MapStep ==
  MapInv /\ [Next]_vars => MapInv' /\ [LiveMap!Next]_(LiveMap!vars)
<1>. SUFFICES ASSUME MapInv, [Next]_vars PROVE MapInv' /\ [LiveMap!Next]_(LiveMap!vars)
  BY Zenon
<1>1. ASSUME NEW k \in Key, NEW v \in Value, Insert(k, v)
      PROVE  MapInv' /\ [LiveMap!Next]_(LiveMap!vars)
  BY TimedSizedMapAssumption, <1>1, InsertStep DEF MapInv, Expiry, Insert
<1>2. ASSUME NEW k \in Key, NEW v \in Value, NEW t \in Timestamp, InsertEntryAt(k, v, t)
      PROVE  MapInv' /\ [LiveMap!Next]_(LiveMap!vars)
  BY TimedSizedMapAssumption, <1>2, InsertStep DEF Timestamp
<1>3. CASE UNCHANGED vars
  BY <1>3, LiveMapIs, Zenon DEF vars, MapInv, LiveMap!vars
<1>. QED  BY <1>1, <1>2, <1>3, ModifyStep, EvictStep, RemoveStep, TickStep, Zenon DEF Next

\* The two indices hold the same keys, each key once and under the expiry of its entry, after
\* any sequence of insertions, evictions and removals, for any keys, values, ttl and capacity.
THEOREM IndicesStayInStep == Spec => []IndicesAgree
<1>1. MapInv => IndicesAgree
  BY DEF MapInv, Agree, IsBucket, Range, Bucket, IndicesAgree
<1>. QED  BY <1>1, MapInit, MapStep, PTL DEF Spec

\* To a user who looks at live entries, TimedSizedMap is a TtlMap, for any keys, values, ttl and
\* capacity and up to the largest timestamp: a live entry is never evicted nor extended.
THEOREM TtlMapImplemented == Spec => ImplementsTtlMap
BY MapInit, MapStep, PTL DEF Spec, ImplementsTtlMap, LiveMap!Spec

--------------------------------------------------------------------------------
(* The two maps of InsertionOrderedMap. *)

\* The two maps are inverse to each other, and every sequence number is below the next one.
\* They hold finitely many entries.
TxInv ==
  /\ nextSeq \in Nat
  /\ DOMAIN order \subseteq Nat
  /\ IsFiniteSet(DOMAIN order)
  /\ entries = [k \in DOMAIN entries |-> entries[k]]
  /\ \A k \in DOMAIN entries : entries[k] = [seq |-> entries[k].seq, value |-> entries[k].value]
  /\ \A k \in DOMAIN entries : entries[k].seq \in DOMAIN order /\ order[entries[k].seq] = k
  /\ \A s \in DOMAIN order :
       s < nextSeq /\ order[s] \in DOMAIN entries /\ entries[order[s]].seq = s

\* What inserting does to the maps: the sequence number of an entry that is replaced leaves
\* the order, and the new one comes in.
LEMMA TxInsertIs ==
  ASSUME NEW k, NEW v, TxInv, Transactions!Insert(k, v)
  PROVE  LET old == {s \in DOMAIN order : order[s] = k}
         IN  /\ nextSeq' = nextSeq + 1
             /\ DOMAIN entries' = DOMAIN entries \cup {k}
             /\ entries'[k] = [seq |-> nextSeq, value |-> v]
             /\ \A x \in DOMAIN entries \ {k} : entries'[x] = entries[x]
             /\ entries' = [x \in DOMAIN entries' |-> entries'[x]]
             /\ DOMAIN order' = (DOMAIN order \ old) \cup {nextSeq}
             /\ order'[nextSeq] = k
             /\ \A s \in DOMAIN order \ old : order'[s] = order[s]
<1>. DEFINE old == {s \in DOMAIN order : order[s] = k}
<1>1. Transactions!SeqOf(k) = old
  BY DEF TxInv, Transactions!SeqOf
<1>2. /\ nextSeq' = nextSeq + 1
      /\ DOMAIN entries' = DOMAIN entries \cup {k}
      /\ entries'[k] = [seq |-> nextSeq, value |-> v]
      /\ \A x \in DOMAIN entries \ {k} : entries'[x] = entries[x]
      /\ entries' = [x \in DOMAIN entries' |-> entries'[x]]
  BY Zenon DEF Transactions!Insert, Transactions!With
<1>3. order' = [s \in (DOMAIN order \ old) \cup {nextSeq} |->
                  IF s = nextSeq THEN k ELSE [z \in DOMAIN order \ old |-> order[z]][s]]
  <2>. HIDE DEF old
  <2>. QED  BY <1>1, Zenon DEF Transactions!Insert, Transactions!With, Transactions!Without
<1>. HIDE DEF old
<1>4. /\ DOMAIN order' = (DOMAIN order \ old) \cup {nextSeq}
      /\ order'[nextSeq] = k
      /\ \A s \in DOMAIN order \ old : order'[s] = order[s]
  BY <1>3 DEF TxInv
<1>. QED  BY <1>2, <1>4, Zenon DEF old

\* What removing does to the maps: a key and its sequence number go together.
LEMMA TxRemoveIs ==
  ASSUME NEW k, TxInv, Transactions!Remove(k)
  PROVE  LET old == {s \in DOMAIN order : order[s] = k}
         IN  /\ nextSeq' = nextSeq
             /\ DOMAIN entries' = DOMAIN entries \ {k}
             /\ \A x \in DOMAIN entries \ {k} : entries'[x] = entries[x]
             /\ entries' = [x \in DOMAIN entries' |-> entries'[x]]
             /\ DOMAIN order' = DOMAIN order \ old
             /\ \A s \in DOMAIN order \ old : order'[s] = order[s]
<1>. DEFINE old == {s \in DOMAIN order : order[s] = k}
<1>1. Transactions!SeqOf(k) = old
  BY DEF TxInv, Transactions!SeqOf
<1>. HIDE DEF old
<1>. QED  BY <1>1, Zenon DEF old, Transactions!Remove, Transactions!Without

\* What changing a value does: keys and sequence numbers are left alone.
LEMMA TxChangeIs ==
  ASSUME NEW k, NEW v, TxInv, Transactions!Change(k, v)
  PROVE  /\ nextSeq' = nextSeq /\ order' = order /\ k \in DOMAIN entries
         /\ DOMAIN entries' = DOMAIN entries
         /\ entries'[k] = [seq |-> entries[k].seq, value |-> v]
         /\ \A x \in DOMAIN entries \ {k} : entries'[x] = entries[x]
         /\ entries' = [x \in DOMAIN entries' |-> entries'[x]]
<1>1. /\ nextSeq' = nextSeq /\ order' = order /\ k \in DOMAIN entries
      /\ entries' = [entries EXCEPT ![k].value = v]
  BY Zenon DEF Transactions!Change
<1>2. [entries[k] EXCEPT !.value = v] = [seq |-> entries[k].seq, value |-> v]
  BY <1>1 DEF TxInv
<1>3. entries' = [x \in DOMAIN entries |-> IF x = k THEN [entries[k] EXCEPT !.value = v] ELSE entries[x]]
  BY <1>1, Zenon
<1>. QED  BY <1>1, <1>2, <1>3, Zenon

\* Inserting keeps the maps inverse: the new sequence number is given to no other key.
LEMMA TxInsertAgrees ==
  ASSUME NEW k, NEW v, TxInv, Transactions!Insert(k, v)
  PROVE  TxInv'
<1>. DEFINE old == {s \in DOMAIN order : order[s] = k}
<1>1. /\ nextSeq' = nextSeq + 1
      /\ DOMAIN entries' = DOMAIN entries \cup {k}
      /\ entries'[k] = [seq |-> nextSeq, value |-> v]
      /\ \A x \in DOMAIN entries \ {k} : entries'[x] = entries[x]
      /\ entries' = [x \in DOMAIN entries' |-> entries'[x]]
      /\ DOMAIN order' = (DOMAIN order \ old) \cup {nextSeq}
      /\ order'[nextSeq] = k
      /\ \A s \in DOMAIN order \ old : order'[s] = order[s]
  BY TxInsertIs, Zenon
<1>2. \A s \in DOMAIN order : s \in Nat /\ s < nextSeq /\ s < nextSeq + 1
  BY DEF TxInv
<1>3. nextSeq' \in Nat /\ DOMAIN order' \subseteq Nat /\ nextSeq \in Nat /\ nextSeq < nextSeq'
  BY <1>1, <1>2 DEF TxInv
<1>4. IsFiniteSet(DOMAIN order')
  <2>1. IsFiniteSet(DOMAIN order \ old)
    BY FS_Subset, Zenon DEF TxInv
  <2>. HIDE DEF old
  <2>. QED  BY <1>1, <2>1, FS_AddElement
<1>5. ASSUME NEW x \in DOMAIN entries'
      PROVE  /\ entries'[x] = [seq |-> entries'[x].seq, value |-> entries'[x].value]
             /\ entries'[x].seq \in DOMAIN order' /\ order'[entries'[x].seq] = x
  <2>1. CASE x = k
    BY <1>1, <2>1
  <2>2. CASE x # k
    BY <1>1, <2>2 DEF TxInv
  <2>. QED  BY <2>1, <2>2, Zenon
<1>6. ASSUME NEW s \in DOMAIN order'
      PROVE  s < nextSeq' /\ order'[s] \in DOMAIN entries' /\ entries'[order'[s]].seq = s
  <2>1. CASE s = nextSeq
    BY <1>1, <1>3, <2>1
  <2>2. CASE s # nextSeq
    BY <1>1, <2>2, <1>2 DEF TxInv
  <2>. QED  BY <2>1, <2>2, Zenon
<1>. QED  BY <1>1, <1>3, <1>4, <1>5, <1>6, Zenon DEF TxInv

\* Removing keeps the maps inverse.
LEMMA TxRemoveAgrees ==
  ASSUME NEW k, TxInv, Transactions!Remove(k)
  PROVE  TxInv'
<1>. DEFINE old == {s \in DOMAIN order : order[s] = k}
<1>1. /\ nextSeq' = nextSeq
      /\ DOMAIN entries' = DOMAIN entries \ {k}
      /\ \A x \in DOMAIN entries \ {k} : entries'[x] = entries[x]
      /\ entries' = [x \in DOMAIN entries' |-> entries'[x]]
      /\ DOMAIN order' = DOMAIN order \ old
      /\ \A s \in DOMAIN order \ old : order'[s] = order[s]
  BY TxRemoveIs, Zenon
<1>2. nextSeq' \in Nat /\ DOMAIN order' \subseteq Nat
  BY <1>1, Zenon DEF TxInv
<1>3. IsFiniteSet(DOMAIN order')
  BY <1>1, FS_Subset, Zenon DEF TxInv
<1>4. ASSUME NEW x \in DOMAIN entries'
      PROVE  /\ entries'[x] = [seq |-> entries'[x].seq, value |-> entries'[x].value]
             /\ entries'[x].seq \in DOMAIN order' /\ order'[entries'[x].seq] = x
  BY <1>1 DEF TxInv
<1>5. ASSUME NEW s \in DOMAIN order'
      PROVE  s < nextSeq' /\ order'[s] \in DOMAIN entries' /\ entries'[order'[s]].seq = s
  BY <1>1 DEF TxInv
<1>. QED  BY <1>1, <1>2, <1>3, <1>4, <1>5, Zenon DEF TxInv

\* Changing a value keeps the maps inverse.
LEMMA TxChangeAgrees ==
  ASSUME NEW k, NEW v, TxInv, Transactions!Change(k, v)
  PROVE  TxInv'
<1>1. /\ nextSeq' = nextSeq /\ order' = order /\ k \in DOMAIN entries
      /\ DOMAIN entries' = DOMAIN entries
      /\ entries'[k] = [seq |-> entries[k].seq, value |-> v]
      /\ \A x \in DOMAIN entries \ {k} : entries'[x] = entries[x]
      /\ entries' = [x \in DOMAIN entries' |-> entries'[x]]
  BY TxChangeIs, Zenon
<1>2. \A x \in DOMAIN entries' :
        /\ entries'[x].seq = entries[x].seq
        /\ entries'[x] = [seq |-> entries'[x].seq, value |-> entries'[x].value]
  BY <1>1 DEF TxInv
<1>. QED  BY <1>1, <1>2, Zenon DEF TxInv

\* Every step keeps the maps inverse to each other.
LEMMA TxStep ==
  TxInv /\ [Transactions!Next]_(Transactions!vars) => TxInv'
<1>. SUFFICES ASSUME TxInv, [Transactions!Next]_(Transactions!vars) PROVE TxInv'
  BY Zenon
<1>1. CASE UNCHANGED Transactions!vars
  BY <1>1, Zenon DEF Transactions!vars, TxInv
<1>. QED  BY <1>1, TxInsertAgrees, TxRemoveAgrees, TxChangeAgrees, Zenon DEF Transactions!Next

\* Initially there is no entry.
LEMMA TxInit == Transactions!Init => TxInv
BY FS_EmptySet DEF Transactions!Init, TxInv

\* The two maps of InsertionOrderedMap are inverse to each other after any sequence of
\* insertions, removals and changes, for any keys and values.
THEOREM MapsAgree == Transactions!Spec => []Transactions!IndicesAgree
<1>1. TxInv => Transactions!IndicesAgree
  BY Zenon DEF TxInv, Transactions!IndicesAgree
<1>. QED  BY <1>1, TxInit, TxStep, PTL DEF Transactions!Spec

--------------------------------------------------------------------------------
(* The elements of a set of numbers at some positions, and above all others. *)

\* As many elements are at some positions of a set as there are positions.
LEMMA PlacesSize ==
  ASSUME NEW D, D \subseteq Nat, IsFiniteSet(D), NEW Q, Q \subseteq 1 .. Cardinality(D),
         NEW E, \A y : y \in E <=> \E i \in Q : y = Nth(D, i)
  PROVE  IsFiniteSet(Q) /\ E \subseteq D /\ IsFiniteSet(E) /\ Cardinality(E) = Cardinality(Q)
<1>. DEFINE f == [i \in Q |-> Nth(D, i)]
<1>1. Cardinality(D) \in Nat
  BY FS_CardinalityType, Zenon
<1>2. IsFiniteSet(Q)
  <2>1. IsFiniteSet(1 .. Cardinality(D))
    BY <1>1, FS_Interval
  <2>. QED  BY <2>1, FS_Subset, Zenon
<1>3. \A i \in Q : Nth(D, i) \in D
  BY NthExists, Zenon
<1>4. E \subseteq D /\ IsFiniteSet(E)
  BY <1>3, FS_Subset
<1>5. \A i, j \in Q : f[i] = f[j] => i = j
  <2>. SUFFICES ASSUME NEW i \in Q, NEW j \in Q, Nth(D, i) = Nth(D, j) PROVE i = j
    BY Zenon
  <2>1. i \in 1 .. Cardinality(D) /\ j \in 1 .. Cardinality(D)
    BY Zenon
  <2>2. Cardinality(Below(D, Nth(D, i))) = i - 1 /\ Cardinality(Below(D, Nth(D, j))) = j - 1
    BY <2>1, NthExists, Zenon
  <2>3. i - 1 = j - 1
    BY <2>2, Zenon
  <2>. QED  BY <1>1, <2>1, <2>3
<1>6. f \in Bijection(Q, E)
  BY <1>5, Zenon DEF Bijection, Injection, Surjection, IsInjective
<1>. HIDE DEF f
<1>7. Cardinality(E) = Cardinality(Q)
  BY <1>2, <1>6, FS_Bijection, Zenon DEF ExistsBijection
<1>. QED  BY <1>2, <1>4, <1>7, Zenon

\* E has the elements of D at the positions P, in their order.
Picks(E, D, P) ==
  \A j \in 1 .. Cardinality(P) : Nth(P, j) \in P /\ Nth(E, j) = Nth(D, Nth(P, j))

\* The j-th of the elements at some positions is the one at the j-th of the positions.
LEMMA PlaceOfPlaces ==
  ASSUME NEW D, D \subseteq Nat, IsFiniteSet(D), NEW P, P \subseteq 1 .. Cardinality(D),
         NEW E, \A y : y \in E <=> \E i \in P : y = Nth(D, i)
  PROVE  Picks(E, D, P)
<1>. SUFFICES ASSUME NEW j \in 1 .. Cardinality(P)
              PROVE  Nth(P, j) \in P /\ Nth(E, j) = Nth(D, Nth(P, j))
  BY Zenon DEF Picks
<1>. DEFINE p == Nth(P, j)
            x == Nth(D, p)
            Q == Below(P, p)
<1>1. IsFiniteSet(P) /\ E \subseteq D /\ IsFiniteSet(E) /\ Cardinality(E) = Cardinality(P)
  BY PlacesSize, Zenon
<1>2. P \subseteq Nat /\ E \subseteq Nat /\ Cardinality(P) \in Nat
  BY <1>1, FS_CardinalityType
<1>3. p \in P /\ Cardinality(Q) = j - 1
  BY <1>1, <1>2, NthExists, Zenon
<1>4. x \in E
  BY <1>3, Zenon
<1>5. \A i \in P : (Nth(D, i) < x) <=> (i < p)
  <2>. SUFFICES ASSUME NEW i \in P PROVE (Nth(D, i) < x) <=> (i < p)
    BY Zenon
  <2>1. i \in 1 .. Cardinality(D) /\ p \in 1 .. Cardinality(D) /\ i \in Nat /\ p \in Nat
    BY <1>2, <1>3, Zenon
  <2>2. Nth(D, i) \in Nat /\ x \in Nat
    BY <2>1, NthExists, Zenon
  <2>3. i < p => Nth(D, i) < x
    BY <2>1, NthOrder, Zenon
  <2>4. p < i => x < Nth(D, i)
    BY <2>1, NthOrder, Zenon
  <2>5. i = p => Nth(D, i) = x
    BY Zenon
  <2>. HIDE DEF x, p
  <2>. QED  BY <2>1, <2>2, <2>3, <2>4, <2>5
<1>6. \A y : y \in Below(E, x) <=> \E i \in Q : y = Nth(D, i)
  <2>. HIDE DEF p, x
  <2>. QED  BY <1>5, Zenon DEF Below
<1>7. Q \subseteq 1 .. Cardinality(D)
  BY Zenon DEF Below
<1>8. Cardinality(Below(E, x)) = j - 1
  <2>. HIDE DEF Q
  <2>. HIDE DEF x
  <2>1. Cardinality(Below(E, x)) = Cardinality(Q)
    BY <1>6, <1>7, PlacesSize, Zenon
  <2>. QED  BY <1>3, <2>1, Zenon
<1>9. Nth(E, Cardinality(Below(E, x)) + 1) = x
  <2>. HIDE DEF x
  <2>. QED  BY <1>1, <1>2, <1>4, NthOf, Zenon
<1>10. (j - 1) + 1 = j
  BY <1>2
<1>. QED  BY <1>3, <1>8, <1>9, <1>10, Zenon

\* A number above all of a set comes after them, and the others keep their places.
LEMMA PlaceOfLast ==
  ASSUME NEW D, D \subseteq Nat, IsFiniteSet(D), NEW x \in Nat, \A y \in D : y < x
  PROVE  /\ Cardinality(D) \in Nat /\ Cardinality(D \cup {x}) = Cardinality(D) + 1
         /\ Nth(D \cup {x}, Cardinality(D) + 1) = x
         /\ \A i \in 1 .. Cardinality(D) : Nth(D \cup {x}, i) = Nth(D, i)
<1>. DEFINE E == D \cup {x}
<1>1. x \notin D /\ ~(x < x) /\ \A y \in D : ~(x < y)
  OBVIOUS
<1>2. /\ Cardinality(D) \in Nat /\ Cardinality(E) = Cardinality(D) + 1
      /\ IsFiniteSet(E) /\ E \subseteq Nat
  BY <1>1, FS_AddElement, FS_CardinalityType, Zenon
<1>3. Below(E, x) = D
  BY <1>1, Zenon DEF Below
<1>4. \A y \in D : Below(E, y) = Below(D, y)
  BY <1>1, Zenon DEF Below
<1>5. \A y \in E : Nth(E, Cardinality(Below(E, y)) + 1) = y
  <2>. HIDE DEF E
  <2>. QED  BY <1>2, NthOf, Zenon
<1>6. Nth(E, Cardinality(D) + 1) = x
  BY <1>3, <1>5, Zenon
<1>7. ASSUME NEW i \in 1 .. Cardinality(D)
      PROVE  Nth(E, i) = Nth(D, i)
  <2>1. Nth(D, i) \in D /\ Cardinality(Below(D, Nth(D, i))) = i - 1
    BY NthExists, Zenon
  <2>2. Nth(E, (i - 1) + 1) = Nth(D, i)
    <3>. HIDE DEF E
    <3>1. Nth(D, i) \in E
      BY <2>1, Zenon DEF E
    <3>. QED  BY <1>4, <1>5, <2>1, <3>1, Zenon
  <2>. QED  BY <2>2, <1>2
<1>. QED  BY <1>2, <1>6, <1>7, Zenon

--------------------------------------------------------------------------------
(* Iteration over an InsertionOrderedMap. *)

\* The entries es in the order od of their keys.
Listed(es, od) ==
  [i \in 1 .. Cardinality(DOMAIN od) |->
     [key   |-> od[Nth(DOMAIN od, i)],
      value |-> es[od[Nth(DOMAIN od, i)]].value]]

\* While the maps are inverse to each other, iteration finds every key.
LEMMA IterIsListed ==
  /\ TxInv  => Transactions!Iter = Listed(entries, order)
  /\ TxInv' => Transactions!Iter' = Listed(entries', order')
<1>1. \A S, i : Transactions!Nth(S, i) = Nth(S, i)
  BY Zenon DEF Transactions!Nth, Nth, Transactions!Below, Below, Transactions!Cardinality,
     Cardinality
<1>2. ASSUME TxInv PROVE Transactions!Iter = Listed(entries, order)
  <2>. DEFINE n == Cardinality(DOMAIN order)
  <2>1. \A i \in 1 .. n : order[Nth(DOMAIN order, i)] \in DOMAIN entries
    BY <1>2, NthExists, Zenon DEF TxInv
  <2>2. {i \in 1 .. n : order[Nth(DOMAIN order, i)] \notin DOMAIN entries} = {}
    BY <2>1, Zenon
  <2>. QED  BY <1>1, <2>2, Zenon DEF Transactions!Iter, Listed, Transactions!Cardinality,
     Cardinality
<1>3. ASSUME TxInv' PROVE Transactions!Iter' = Listed(entries', order')
  <2>. DEFINE n == Cardinality(DOMAIN order')
  <2>1. {i \in 1 .. n : order'[Nth(DOMAIN order', i)] \notin DOMAIN entries'} = {}
    BY <1>3, NthExists, Zenon DEF TxInv
  <2>. QED  BY <1>1, <2>1, Zenon DEF Transactions!Iter, Listed, Transactions!Cardinality,
     Cardinality
<1>. QED  BY <1>2, <1>3, Zenon

\* The positions of the keys other than k in a list.
OthersThan(k, l) == {i \in DOMAIN l : l[i].key # k}

\* The order od has all keys but k, and es has their values.
LeavesOut(k, es, od) ==
  /\ DOMAIN od = {s \in DOMAIN order : order[s] # k}
  /\ \A s \in DOMAIN od : od[s] = order[s]
  /\ \A x \in DOMAIN entries \ {k} : es[x].value = entries[x].value

\* Taking a key out of the order takes its entry out of the list, and the others keep
\* their order.
LEMMA ListedWithout ==
  ASSUME NEW k, NEW es, NEW od, TxInv, LeavesOut(k, es, od)
  PROVE  Listed(es, od) = Kept(Listed(entries, order), OthersThan(k, Listed(entries, order)))
<1>. DEFINE l == Listed(entries, order)
            P == OthersThan(k, l)
            D == DOMAIN order
            E == DOMAIN od
<1>1. D \subseteq Nat /\ IsFiniteSet(D)
  BY Zenon DEF TxInv
<1>2. /\ DOMAIN l = 1 .. Cardinality(D)
      /\ \A i \in DOMAIN l :
           l[i] = [key |-> order[Nth(D, i)], value |-> entries[order[Nth(D, i)]].value]
  BY Zenon DEF Listed
<1>. HIDE DEF l
<1>3. P \subseteq 1 .. Cardinality(D)
  BY <1>2, Zenon DEF OthersThan
<1>4. \A y : y \in E <=> \E i \in P : y = Nth(D, i)
  <2>1. \A i \in 1 .. Cardinality(D) : Nth(D, i) \in D
    BY <1>1, NthExists, Zenon
  <2>2. \A y \in D : \E i \in 1 .. Cardinality(D) : y = Nth(D, i)
    BY <1>1, NthOf, Zenon
  <2>3. \A i \in 1 .. Cardinality(D) : i \in P <=> order[Nth(D, i)] # k
    BY <1>2 DEF OthersThan
  <2>4. \A y : y \in E <=> y \in D /\ order[y] # k
    BY Zenon DEF LeavesOut
  <2>. HIDE DEF D, E, P
  <2>. QED  BY <1>3, <2>1, <2>2, <2>3, <2>4, ZenonT(60)
<1>5. Cardinality(E) = Cardinality(P)
  <2>. HIDE DEF D, E, P
  <2>. QED  BY <1>1, <1>3, <1>4, PlacesSize, Zenon
<1>6. Picks(E, D, P)
  <2>. HIDE DEF D, E, P
  <2>. QED  BY <1>1, <1>3, <1>4, PlaceOfPlaces, Zenon
<1>7. ASSUME NEW j \in 1 .. Cardinality(P)
      PROVE  [key |-> od[Nth(E, j)], value |-> es[od[Nth(E, j)]].value] = l[Nth(P, j)]
  <2>1. Nth(P, j) \in P /\ Nth(E, j) = Nth(D, Nth(P, j))
    BY <1>6, Zenon DEF Picks
  <2>2. Nth(E, j) \in E
    BY <1>4, <2>1, Zenon
  <2>. DEFINE s == Nth(E, j)
  <2>3. od[s] = order[s] /\ order[s] # k /\ order[s] \in DOMAIN entries
    BY <2>2, Zenon DEF TxInv, LeavesOut
  <2>4. es[od[s]].value = entries[order[s]].value
    BY <2>3, Zenon DEF LeavesOut
  <2>. QED  BY <2>3, <2>4, <1>2, <1>3, <2>1
<1>8. Listed(es, od) = [j \in 1 .. Cardinality(E) |->
                          [key |-> od[Nth(E, j)], value |-> es[od[Nth(E, j)]].value]]
  BY Zenon DEF Listed
<1>. HIDE DEF E, P
<1>. QED  BY <1>5, <1>7, <1>8, Zenon DEF Kept, P, l

\* The list of the abstract specification without a key.
LEMMA WithoutIs ==
  ASSUME NEW k
  PROVE  Transactions!Abstract!Without(k)
           = Kept(Transactions!Iter, OthersThan(k, Transactions!Iter))
<1>1. \A s, P : Transactions!Abstract!Kept(s, P) = Kept(s, P)
  BY Zenon DEF Transactions!Abstract!Kept, Kept, Transactions!Abstract!Cardinality, Cardinality,
     Transactions!Abstract!Nth, Nth, Transactions!Abstract!Below, Below
<1>. QED  BY <1>1, Zenon DEF Transactions!Abstract!Without, OthersThan

\* Removing an entry takes it out of what iteration shows, and leaves the rest in order.
LEMMA TxRemoveRefines ==
  ASSUME NEW k, TxInv, Transactions!Remove(k)
  PROVE  Transactions!Abstract!Remove(k)
<1>1. LeavesOut(k, entries', order')
  BY TxRemoveIs, ZenonT(60) DEF LeavesOut
<1>2. Transactions!Iter' = Transactions!Abstract!Without(k)
  BY <1>1, ListedWithout, WithoutIs, TxRemoveAgrees, IterIsListed, Zenon
<1>. QED  BY <1>2, Zenon DEF Transactions!Abstract!Remove

\* Inserting an entry puts it at the end of what iteration shows, and takes an older one
\* with its key out.
LEMMA TxInsertRefines ==
  ASSUME NEW k, NEW v, TxInv, Transactions!Insert(k, v)
  PROVE  Transactions!Abstract!Insert(k, v)
<1>. DEFINE D == {s \in DOMAIN order : order[s] # k}
            E == DOMAIN order'
            od == [s \in D |-> order[s]]
            n == Cardinality(D)
            b == Listed(entries', od)
            c == Listed(entries', order')
            e == [key |-> k, value |-> v]
<1>1. /\ \A x \in DOMAIN entries \ {k} : entries'[x].value = entries[x].value
      /\ entries'[k].value = v
      /\ order'[nextSeq] = k
      /\ \A s \in D : order'[s] = order[s]
      /\ E = D \cup {nextSeq}
  <2>. DEFINE old == {s \in DOMAIN order : order[s] = k}
  <2>1. /\ entries'[k] = [seq |-> nextSeq, value |-> v]
        /\ \A x \in DOMAIN entries \ {k} : entries'[x] = entries[x]
        /\ DOMAIN order' = (DOMAIN order \ old) \cup {nextSeq}
        /\ order'[nextSeq] = k
        /\ \A s \in DOMAIN order \ old : order'[s] = order[s]
    BY TxInsertIs, Zenon
  <2>2. DOMAIN order \ old = D
    BY Zenon
  <2>. HIDE DEF D, old
  <2>. QED  BY <2>1, <2>2
<1>2. Transactions!Iter = Listed(entries, order) /\ Transactions!Iter' = c
  BY TxInsertAgrees, IterIsListed, Zenon
<1>3. LeavesOut(k, entries', od)
  BY <1>1, Zenon DEF LeavesOut
<1>4. b = Transactions!Abstract!Without(k)
  <2>. HIDE DEF od
  <2>. QED  BY <1>2, <1>3, ListedWithout, WithoutIs, Zenon
<1>5. /\ D \subseteq Nat /\ IsFiniteSet(D) /\ nextSeq \in Nat /\ \A s \in D : s < nextSeq
  BY FS_Subset, Zenon DEF TxInv
<1>6. b = [i \in 1 .. n |-> [key |-> od[Nth(D, i)], value |-> entries'[od[Nth(D, i)]].value]]
  BY Zenon DEF Listed
<1>7. c = [i \in 1 .. Cardinality(E) |->
             [key |-> order'[Nth(E, i)], value |-> entries'[order'[Nth(E, i)]].value]]
  BY Zenon DEF Listed
<1>8. \A s \in D : order'[s] = od[s]
  BY <1>1, Zenon
<1>. HIDE DEF D, E, od, b, c
<1>9. /\ n \in Nat /\ Cardinality(E) = n + 1
      /\ Nth(E, n + 1) = nextSeq
      /\ \A i \in 1 .. n : Nth(E, i) = Nth(D, i)
  <2>1. E = D \cup {nextSeq}
    BY <1>1, Zenon
  <2>. QED  BY <1>5, <2>1, PlaceOfLast, Zenon
<1>. HIDE DEF n
<1>10. c[n + 1] = e
  <2>1. c[n + 1] = [key |-> order'[nextSeq], value |-> entries'[order'[nextSeq]].value]
    BY <1>7, <1>9
  <2>. QED  BY <1>1, <2>1, Zenon
<1>11. ASSUME NEW i \in 1 .. n PROVE c[i] = b[i]
  <2>1. Nth(D, i) \in D
    BY <1>5, NthExists, Zenon DEF n
  <2>2. order'[Nth(D, i)] = od[Nth(D, i)]
    BY <1>8, <2>1, Zenon
  <2>. QED  BY <1>6, <1>7, <2>2, <1>9
<1>12. c = Append(b, e)
  <2>. HIDE DEF e
  <2>1. b = [i \in 1 .. n |-> b[i]] /\ DOMAIN b = 1 .. n
    BY <1>6, Zenon
  <2>2. b \in Seq({b[i] : i \in 1 .. n}) /\ Len(b) = n
    BY <1>9, <2>1
  <2>3. Append(b, e) = [i \in 1 .. n + 1 |-> IF i <= n THEN b[i] ELSE e]
    BY <1>9, <2>1, <2>2
  <2>4. \A i \in 1 .. n + 1 : c[i] = IF i <= n THEN b[i] ELSE e
    BY <1>9, <1>10, <1>11
  <2>. QED  BY <2>3, <2>4, <1>7, <1>9, Zenon
<1>. QED  BY <1>2, <1>4, <1>12, Zenon DEF Transactions!Abstract!Insert, e

\* Changing a value shows as that.
LEMMA TxChangeRefines ==
  ASSUME NEW k, NEW v, TxInv, Transactions!Change(k, v)
  PROVE  Transactions!Abstract!Change(k, v)
<1>. DEFINE l == Listed(entries, order)
            c == Listed(entries', order')
            D == DOMAIN order
            n == Cardinality(D)
<1>1. /\ order' = order /\ k \in DOMAIN entries
      /\ entries'[k].value = v
      /\ \A x \in DOMAIN entries \ {k} : entries'[x].value = entries[x].value
  <2>1. /\ order' = order /\ k \in DOMAIN entries
        /\ entries'[k] = [seq |-> entries[k].seq, value |-> v]
        /\ \A x \in DOMAIN entries \ {k} : entries'[x] = entries[x]
    BY TxChangeIs, Zenon
  <2>. QED  BY <2>1
<1>2. Transactions!Iter = l /\ Transactions!Iter' = c
  BY TxChangeAgrees, IterIsListed, Zenon
<1>3. /\ l = [i \in 1 .. n |-> [key |-> order[Nth(D, i)], value |-> entries[order[Nth(D, i)]].value]]
      /\ c = [i \in 1 .. n |-> [key |-> order[Nth(D, i)], value |-> entries'[order[Nth(D, i)]].value]]
  BY <1>1, Zenon DEF Listed
<1>4. \A i \in 1 .. n : order[Nth(D, i)] \in DOMAIN entries
  BY NthExists, Zenon DEF TxInv
<1>. HIDE DEF l, c, n
<1>5. ASSUME NEW i \in 1 .. n
      PROVE  c[i] = IF l[i].key = k THEN [l[i] EXCEPT !.value = v] ELSE l[i]
  <2>. DEFINE x == order[Nth(D, i)]
  <2>1. l[i] = [key |-> x, value |-> entries[x].value] /\ c[i] = [key |-> x, value |-> entries'[x].value]
    BY <1>3, Zenon
  <2>2. x \in DOMAIN entries
    BY <1>4, Zenon
  <2>. HIDE DEF x
  <2>3. CASE x = k
    BY <1>1, <2>1, <2>3
  <2>4. CASE x # k
    BY <1>1, <2>1, <2>2, <2>4
  <2>. QED  BY <2>3, <2>4, Zenon
<1>6. c = [i \in DOMAIN l |-> IF l[i].key = k THEN [l[i] EXCEPT !.value = v] ELSE l[i]]
  BY <1>3, <1>5, Zenon
<1>. QED  BY <1>2, <1>6, Zenon DEF Transactions!Abstract!Change

\* Iterating over the transactions shows them oldest first, each once and none missing, for
\* any keys and values and any number of insertions: a key inserted again moves to the end,
\* one removed leaves the others in their order.
THEOREM TransactionsListed == Transactions!Spec => TransactionsAreOrdered
<1>1. Transactions!Init => Transactions!Abstract!Init
  <2>. SUFFICES ASSUME Transactions!Init PROVE Transactions!Abstract!Init
    BY Zenon
  <2>1. Listed(entries, order) = << >>
    BY FS_EmptySet DEF Listed, Transactions!Init
  <2>2. Transactions!Iter = << >>
    BY <2>1, TxInit, IterIsListed, Zenon
  <2>. QED  BY <2>2, Zenon DEF Transactions!Abstract!Init
<1>2. TxInv /\ [Transactions!Next]_(Transactions!vars)
        => [Transactions!Abstract!Next]_(Transactions!Iter)
  <2>. SUFFICES ASSUME TxInv, [Transactions!Next]_(Transactions!vars)
                PROVE  [Transactions!Abstract!Next]_(Transactions!Iter)
    BY Zenon
  <2>1. CASE UNCHANGED Transactions!vars
    <3>1. Transactions!Iter = Listed(entries, order) /\ Transactions!Iter' = Listed(entries', order')
      BY IterIsListed, TxStep, Zenon
    <3>. QED  BY <2>1, <3>1, Zenon DEF Transactions!vars
  <2>2. CASE Transactions!Next
    BY <2>2, TxInsertRefines, TxRemoveRefines, TxChangeRefines, Zenon
       DEF Transactions!Next, Transactions!Abstract!Next
  <2>. QED  BY <2>1, <2>2, Zenon
<1>. QED  BY <1>1, <1>2, TxInit, TxStep, PTL
          DEF Transactions!Spec, TransactionsAreOrdered, Transactions!RefinesOrderedMap,
              Transactions!Abstract!Spec

--------------------------------------------------------------------------------
(* The configuration. *)

\* The fields that the proofs compute with.
Numbers(c) ==
  /\ c.minimumDeposit \in MinimumDeposits
  /\ c.minimumWithdrawal \in MinimumWithdrawals
  /\ c.withdrawalFee \in WithdrawalFees
  /\ c.requiredCycles \in RequiredCycles
  /\ c.depositFee \in DepositFees

Valid == Numbers(config) /\ Settings!Validate(config)

\* The steps that change neither the configuration nor the pool.
CallStep ==
  \/ Settings!KeyRecorded
  \/ \E w \in Withdrawal, burned \in Amounts, to \in Address : Settings!StartWithdrawal(w,
         burned, to)
  \/ \E w \in Withdrawal : Settings!BurnFails(w) \/ Settings!AcceptWithdrawal(w) \/ Settings!Advance(w)
  \/ \E attached \in Attached : Settings!StartDeposit(attached)
  \/ \E refunded \in 0 .. GetBalanceCycles, balance \in Amounts \cup {None} :
       Settings!EndDeposit(refunded, balance)

\* Next without its quantifiers over upgrades.
LEMMA NextSplits ==
  Settings!Next <=> CallStep \/ \E args \in Settings!UpgradeArgs,
         list \in NonceLists : Settings!Upgrade(args, list)
BY Zenon DEF Settings!Next, CallStep

\* The configuration an upgrade proposes still consists of numbers.
LEMMA UpgradeKeepsNumbers ==
  ASSUME Numbers(config), NEW args \in Settings!UpgradeArgs
  PROVE  Numbers(Settings!Upgraded(args))
<1> QED BY Zenon DEF Numbers, Settings!Upgraded, Settings!Given, Settings!UpgradeArgs,
   Settings!FieldValues

\* The values that arguments and calls give are words.
LEMMA Words ==
  /\ Word \in Nat
  /\ Amounts \subseteq Nat /\ MinimumDeposits \subseteq Nat
  /\ MinimumWithdrawals \subseteq Nat /\ WithdrawalFees \subseteq Nat
<1>1. /\ Amounts \subseteq 0 .. Word - 1 /\ MinimumDeposits \subseteq 0 .. Word - 1
      /\ MinimumWithdrawals \subseteq 0 .. Word - 1 /\ WithdrawalFees \subseteq 0 .. Word - 1
  BY ConfigAssumption, Zenon
<1> QED BY <1>1, ConfigAssumption

\* The configuration a step starts from or leads to is valid.
LEMMA ValidInit == Settings!Init => Valid
BY Zenon DEF Settings!Init, Settings!Configs, Valid, Numbers

\* An upgrade leaves a configuration that validate accepts: it is refused otherwise.
LEMMA ValidUpgrade ==
  ASSUME Valid, NEW args \in Settings!UpgradeArgs, NEW list, Settings!Upgrade(args, list)
  PROVE  Valid'
<1> QED BY UpgradeKeepsNumbers, Zenon DEF Valid, Settings!Upgrade

\* The endpoints read the configuration and the nonce accounts and change neither.
LEMMA CallKeepsConfig ==
  ASSUME CallStep
  PROVE  config' = config /\ pool' = pool
BY Zenon DEF CallStep, Settings!KeyRecorded, Settings!StartWithdrawal, Settings!BurnFails,
       Settings!AcceptWithdrawal, Settings!Advance,
       Settings!StartDeposit, Settings!EndDeposit

\* Hence they keep the configuration valid.
LEMMA ValidCall ==
  ASSUME Valid, CallStep
  PROVE  Valid'
<1>1. config' = config
  BY CallKeepsConfig, Zenon
<1> QED BY <1>1, Zenon DEF Valid

-------------------------------------------------------------------------------
(* The charge of deposit_sol. *)

\* A call that awaits the balance has the cycles of the check and of the fee it read.
Covered ==
  reading # None =>
    /\ reading.attached \in Nat /\ reading.fee \in Nat
    /\ reading.attached >= GetBalanceCycles + reading.fee

ChargeInv == Valid /\ Covered /\ ChargeIsCovered

\* A deposit call that starts has attached what its two charges may come to.
LEMMA StartDepositCovered ==
  ASSUME Valid, NEW attached \in Attached, Settings!StartDeposit(attached)
  PROVE  Covered'
<1>1. /\ reading'.attached = attached /\ reading'.fee = config.depositFee
      /\ attached >= config.requiredCycles
  BY Zenon DEF Settings!StartDeposit
<1>2. /\ config.requiredCycles \in Nat /\ config.depositFee \in Nat /\ attached \in Nat
      /\ GetBalanceCycles \in Nat
  BY ConfigAssumption, Zenon DEF Valid, Numbers
<1>3. config.requiredCycles >= GetBalanceCycles + config.depositFee
  BY Zenon DEF Valid, Settings!Validate
<1> QED BY <1>1, <1>2, <1>3 DEF Covered

\* The charges of a call that ends are within what it was admitted with.
LEMMA EndDepositCovered ==
  ASSUME ChargeInv, NEW refunded \in 0 .. GetBalanceCycles, NEW balance,
         Settings!EndDeposit(refunded, balance)
  PROVE  Covered' /\ ChargeIsCovered'
<1>1. Covered'
  BY Zenon DEF Settings!EndDeposit, Covered
<1>2. Settings!RpcCost(refunded) \in 0 .. GetBalanceCycles
  BY ConfigAssumption DEF Settings!RpcCost, Settings!SaturatingSub
<1>3. charge'.asked <= charge'.available
  BY <1>2, ConfigAssumption DEF Settings!EndDeposit, ChargeInv, Covered
<1> QED BY <1>1, <1>3, Zenon DEF ChargeIsCovered, Settings!ChargeIsCovered

\* The assertion of charge_caller_cycles holds: what deposit_sol charges at its end never
\* exceeds what it checked for at its start, for any fees, refunds and upgrades.
THEOREM ChargesAreCovered == Settings!Spec => []ChargeIsCovered
<1>1. Settings!Init => ChargeInv
  <2> QED BY ValidInit, Zenon DEF ChargeInv, Settings!Init, Covered, ChargeIsCovered,
     Settings!ChargeIsCovered
<1>2. ChargeInv /\ [Settings!Next]_(Settings!vars) => ChargeInv'
  <2> SUFFICES ASSUME ChargeInv, [Settings!Next]_(Settings!vars) PROVE ChargeInv'
    BY Zenon
  <2> USE DEF ChargeInv
  <2>1. ASSUME NEW args \in Settings!UpgradeArgs, NEW list \in NonceLists,
         Settings!Upgrade(args, list)
        PROVE  ChargeInv'
    <3>1. Valid'
      BY <2>1, ValidUpgrade, Zenon
    <3> QED BY <3>1, <2>1, Zenon DEF Covered, ChargeIsCovered, Settings!ChargeIsCovered,
       Settings!Upgrade, Settings!DropCalls
  <2>2. ASSUME CallStep PROVE ChargeInv'
    <3>1. Valid'
      BY <2>2, ValidCall, Zenon
    <3>2. CASE UNCHANGED <<reading, charge>>
      BY <3>1, <3>2, Zenon DEF Covered, ChargeIsCovered, Settings!ChargeIsCovered
    <3>3. ASSUME NEW attached \in Attached, Settings!StartDeposit(attached) PROVE ChargeInv'
      BY <3>3, StartDepositCovered, <3>1, Zenon DEF Settings!StartDeposit, ChargeIsCovered,
         Settings!ChargeIsCovered
    <3>4. ASSUME NEW refunded \in 0 .. GetBalanceCycles, NEW balance,
           Settings!EndDeposit(refunded, balance)
          PROVE  ChargeInv'
      BY <3>1, <3>4, EndDepositCovered, Zenon
    <3> QED BY <2>2, <3>2, <3>3, <3>4, Zenon
            DEF CallStep, Settings!KeyRecorded, Settings!StartWithdrawal,
                   Settings!BurnFails, Settings!AcceptWithdrawal, Settings!Advance
  <2>3. CASE UNCHANGED Settings!vars
    BY <2>3, Zenon DEF Settings!vars, Valid, Covered, ChargeIsCovered, Settings!ChargeIsCovered
  <2> QED BY <2>1, <2>2, <2>3, NextSplits, Zenon
<1>3. ChargeInv => ChargeIsCovered
  BY Zenon DEF ChargeInv
<1> QED BY <1>1, <1>2, <1>3, PTL DEF Settings!Spec

-------------------------------------------------------------------------------
(* Deposits that are queued. *)

\* What validate asks of the minimum deposit amount.
Enough(m) == m >= MaxSignatures * FeePerSig + Rent /\ m >= 2 * Rent + FeePerSig

\* The minimum that a call read, and every balance queued, is enough.
DepositInv ==
  /\ Valid
  /\ reading # None => reading.minimum \in Nat /\ Enough(reading.minimum)
  /\ \A b \in queued : b \in Nat /\ Enough(b)

\* A balance is queued only if it is at least the minimum read when the call started.
LEMMA EndDepositEnough ==
  ASSUME DepositInv, NEW refunded, NEW balance \in Amounts \cup {None},
         Settings!EndDeposit(refunded, balance)
  PROVE  reading' = None /\ \A b \in queued' : b \in Nat /\ Enough(b)
<1>1. MaxSignatures * FeePerSig \in Nat /\ Rent \in Nat /\ FeePerSig \in Nat
  BY ConfigAssumption
<1>2. ASSUME balance \in Amounts,
       balance >= reading.minimum PROVE balance \in Nat /\ Enough(balance)
  <2>1. balance \in Nat
    BY <1>2, Words, Zenon
  <2>2. reading.minimum \in Nat /\ Enough(reading.minimum)
    BY Zenon DEF DepositInv, Settings!EndDeposit
  <2> DEFINE fees == MaxSignatures * FeePerSig
  <2>3. fees \in Nat /\ reading.minimum >= fees + Rent /\ reading.minimum >= 2 * Rent + FeePerSig
    BY <1>1, <2>2, Zenon DEF Enough
  <2> HIDE DEF fees
  <2>4. balance >= fees + Rent /\ balance >= 2 * Rent + FeePerSig
    BY <1>1, <1>2, <2>1, <2>2, <2>3
  <2> QED BY <2>1, <2>4, Zenon DEF Enough, fees
<1> QED BY <1>2, Zenon DEF DepositInv, Settings!EndDeposit

\* A balance that deposit_sol queues pays the fees of a full sweep and leaves something to
\* mint, for any constants and any upgrades between the reading of the minimum and the balance.
THEOREM QueuedDepositsPay == Settings!Spec => []DepositsPayTheirSweep
<1>1. Settings!Init => DepositInv
  BY ValidInit, Zenon DEF Settings!Init, DepositInv
<1>2. DepositInv /\ [Settings!Next]_(Settings!vars) => DepositInv'
  <2> SUFFICES ASSUME DepositInv, [Settings!Next]_(Settings!vars) PROVE DepositInv'
    BY Zenon
  <2>1. Valid
    BY Zenon DEF DepositInv
  <2>2. ASSUME NEW args \in Settings!UpgradeArgs, NEW list \in NonceLists,
         Settings!Upgrade(args, list)
        PROVE  DepositInv'
    <3>1. Valid'
      BY <2>1, <2>2, ValidUpgrade, Zenon
    <3>2. reading' = None /\ queued' = queued
      BY <2>2, Zenon DEF Settings!Upgrade, Settings!DropCalls
    <3> QED BY <3>1, <3>2, Zenon DEF DepositInv, Enough
  <2>3. ASSUME CallStep PROVE DepositInv'
    <3>1. Valid'
      BY <2>1, <2>3, ValidCall, Zenon
    <3>2. CASE UNCHANGED <<reading, queued>>
      BY <3>1, <3>2, Zenon DEF DepositInv, Enough
    <3>3. ASSUME NEW attached \in Attached,
           Settings!StartDeposit(attached) PROVE DepositInv'
      <4>1. queued' = queued /\ reading'.minimum = config.minimumDeposit
        BY <3>3, Zenon DEF Settings!StartDeposit
      <4>2. config.minimumDeposit \in Nat
        BY <2>1, ConfigAssumption DEF Valid, Numbers
      <4>3. Enough(config.minimumDeposit)
        BY <2>1, Zenon DEF Valid, Settings!Validate, Enough
      <4> QED BY <3>1, <4>1, <4>2, <4>3, Zenon DEF DepositInv, Enough
    <3>4. ASSUME NEW refunded \in 0 .. GetBalanceCycles,
           NEW balance \in Amounts \cup {None},
                 Settings!EndDeposit(refunded, balance)
          PROVE  DepositInv'
      <4>1. reading' = None /\ \A b \in queued' : b \in Nat /\ Enough(b)
        BY <3>4, EndDepositEnough, Zenon
      <4> QED BY <3>1, <4>1, Zenon DEF DepositInv, Enough
    <3> QED BY <2>3, <3>2, <3>3, <3>4, Zenon
            DEF CallStep, Settings!KeyRecorded, Settings!StartWithdrawal,
                   Settings!BurnFails, Settings!AcceptWithdrawal, Settings!Advance
  <2>4. CASE UNCHANGED Settings!vars
    BY <2>4, Zenon DEF Settings!vars, DepositInv, Valid, Enough
  <2> QED BY <2>2, <2>3, <2>4, NextSplits, Zenon
<1>3. DepositInv => DepositsPayTheirSweep
  <2> DEFINE fees == MaxSignatures * FeePerSig
  <2>1. fees \in Nat /\ Rent \in Nat \ {0} /\ FeePerSig \in Nat
    BY ConfigAssumption
  <2>2. ASSUME DepositInv,
         NEW b \in queued PROVE b - Rent >= fees /\ b - Rent - FeePerSig >= 1
    <3>1. b \in Nat /\ b >= fees + Rent /\ b >= 2 * Rent + FeePerSig
      BY <2>2, Zenon DEF DepositInv, Enough
    <3> HIDE DEF fees
    <3> QED BY <2>1, <3>1
  <2> QED BY <2>2, Zenon DEF DepositsPayTheirSweep, Settings!DepositsPayTheirSweep
<1> QED BY <1>1, <1>2, <1>3, PTL DEF Settings!Spec

-------------------------------------------------------------------------------
(* Withdrawals. *)

\* A withdrawal that has a destination, the burn under way included, has one that can be paid.
PayableInv ==
  /\ withdrawal = [w \in Withdrawal |-> withdrawal[w]]
  /\ \A w \in Withdrawal : withdrawal[w].stage \in Settings!Incomplete \cup {"burning"} =>
       withdrawal[w].to \notin Reserved \cup pool \cup {Main} /\ pool # {}

\* The record that AcceptWithdrawal stores, and the one that Advance does.
Accepted(w) ==
  LET burned == withdrawal[w].burned
  IN  IF burned < config.withdrawalFee
        THEN [stage |-> "panicked", burned |-> burned]
        ELSE [stage |-> "pending", to |-> withdrawal[w].to, burned |-> burned,
              amount |-> burned - config.withdrawalFee]

Advanced(w, stage) ==
  [stage |-> stage, to |-> withdrawal[w].to, burned |-> withdrawal[w].burned,
   amount |-> withdrawal[w].amount]

\* Advance moves an incomplete withdrawal one stage on and changes nothing else of it.
LEMMA AdvanceSteps ==
  ASSUME NEW w \in Withdrawal, Settings!Advance(w)
  PROVE  \E stage \in Settings!Incomplete \cup {"done"} :
           /\ withdrawal[w].stage \in Settings!Incomplete
           /\ withdrawal' = [withdrawal EXCEPT ![w] = Advanced(w, stage)]
<1>1. PICK step \in {<<"pending", "created">>, <<"created", "sent">>, <<"sent", "done">>} :
        /\ withdrawal[w].stage = step[1]
        /\ withdrawal' = [withdrawal EXCEPT ![w] = Advanced(w, step[2])]
  BY ZenonT(60) DEF Settings!Advance, Advanced
<1>2. step[1] \in Settings!Incomplete /\ step[2] \in Settings!Incomplete \cup {"done"}
  BY DEF Settings!Incomplete
<1> QED BY <1>1, <1>2, Zenon

\* What a step of one withdrawal must show to keep PayableInv.
LEMMA OneWithdrawal ==
  ASSUME PayableInv, pool' = pool, NEW w \in Withdrawal, NEW r,
         withdrawal' = [withdrawal EXCEPT ![w] = r],
         r.stage \in Settings!Incomplete \cup {"burning"} =>
           r.to \notin Reserved \cup pool \cup {Main} /\ pool # {}
  PROVE  PayableInv'
BY Zenon DEF PayableInv

\* No accepted withdrawal is addressed to a key that Solana reserves, to the main address or
\* to a nonce account, and there is a nonce account to pay it with: validate_destination at
\* the start of withdraw_sol and ensure_no_incomplete_withdrawal_to in upgrades suffice,
\* since the calls that await their burn do not survive an upgrade.
THEOREM DestinationsStayPayable == Settings!Spec => []DestinationsArePayable
<1>1. Settings!Init => PayableInv
  BY DEF Settings!Init, PayableInv, Settings!NoWithdrawal, Settings!Incomplete
<1>2. PayableInv /\ [Settings!Next]_(Settings!vars) => PayableInv'
  <2> SUFFICES ASSUME PayableInv, [Settings!Next]_(Settings!vars) PROVE PayableInv'
    BY Zenon
  <2>1. ASSUME NEW args \in Settings!UpgradeArgs, NEW list \in NonceLists,
         Settings!Upgrade(args, list)
        PROVE  PayableInv'
    <3>1. /\ withdrawal' = [w \in Withdrawal |->
               IF withdrawal[w].stage = "burning" THEN Settings!NoWithdrawal ELSE withdrawal[w]]
          /\ pool' = pool \cup {list[i] : i \in DOMAIN list}
          /\ Settings!NoIncompleteWithdrawalTo(list)
      BY <2>1, Zenon DEF Settings!Upgrade, Settings!DropCalls
    <3>2. ASSUME NEW w \in Withdrawal,
           withdrawal'[w].stage \in Settings!Incomplete \cup {"burning"}
          PROVE  withdrawal[w].stage \in Settings!Incomplete /\ withdrawal'[w] = withdrawal[w]
      BY <3>1, <3>2, Zenon DEF Settings!NoWithdrawal, Settings!Incomplete
    <3>3. ASSUME NEW w \in Withdrawal, withdrawal[w].stage \in Settings!Incomplete
          PROVE  withdrawal[w].to \notin Reserved \cup pool' \cup {Main} /\ pool' # {}
      BY <3>1, <3>3, Zenon DEF PayableInv, Settings!NoIncompleteWithdrawalTo
    <3>4. withdrawal' = [w \in Withdrawal |-> withdrawal'[w]]
      BY <3>1, Zenon
    <3> QED BY <3>2, <3>3, <3>4, Zenon DEF PayableInv
  <2>2. ASSUME CallStep PROVE PayableInv'
    <3>1. pool' = pool
      BY <2>2, CallKeepsConfig, Zenon
    <3>2. CASE UNCHANGED withdrawal
      BY <3>1, <3>2, Zenon DEF PayableInv
    <3>3. ASSUME NEW w \in Withdrawal, NEW burned, NEW to, Settings!StartWithdrawal(w,
           burned, to)
          PROVE  PayableInv'
      <4> DEFINE r == [stage |-> "burning", to |-> to, burned |-> burned]
      <4>1. withdrawal' = [withdrawal EXCEPT ![w] = r]
        BY <3>3, Zenon DEF Settings!StartWithdrawal
      <4>2. r.to \notin Reserved \cup pool \cup {Main} /\ pool # {}
        BY <3>3, Zenon DEF Settings!StartWithdrawal, Settings!ValidateDestination
      <4> HIDE DEF r
      <4> QED BY <3>1, <4>1, <4>2, OneWithdrawal, Zenon
    <3>4. ASSUME NEW w \in Withdrawal, Settings!BurnFails(w) PROVE PayableInv'
      <4>1. withdrawal' = [withdrawal EXCEPT ![w] = Settings!NoWithdrawal]
        BY <3>4, Zenon DEF Settings!BurnFails
      <4>2. Settings!NoWithdrawal.stage \notin Settings!Incomplete \cup {"burning"}
        BY Zenon DEF Settings!NoWithdrawal, Settings!Incomplete
      <4> QED BY <3>1, <4>1, <4>2, OneWithdrawal, Zenon
    <3>5. ASSUME NEW w \in Withdrawal, Settings!AcceptWithdrawal(w) PROVE PayableInv'
      <4> DEFINE r == Accepted(w)
      <4>1. withdrawal' = [withdrawal EXCEPT ![w] = r]
        BY <3>5, Zenon DEF Settings!AcceptWithdrawal, Accepted
      <4>2. withdrawal[w].to \notin Reserved \cup pool \cup {Main} /\ pool # {}
        BY <3>5, Zenon DEF Settings!AcceptWithdrawal, PayableInv
      <4>3. r.stage \in Settings!Incomplete \cup {"burning"} => r.to = withdrawal[w].to
        BY Zenon DEF Accepted, Settings!Incomplete
      <4> HIDE DEF r
      <4> QED BY <3>1, <4>1, <4>2, <4>3, OneWithdrawal, Zenon
    <3>6. ASSUME NEW w \in Withdrawal, Settings!Advance(w) PROVE PayableInv'
      <4>1. PICK stage \in Settings!Incomplete \cup {"done"} :
              /\ withdrawal[w].stage \in Settings!Incomplete
              /\ withdrawal' = [withdrawal EXCEPT ![w] = Advanced(w, stage)]
        BY <3>6, AdvanceSteps, Zenon
      <4> QED BY <3>1, <4>1, OneWithdrawal, Zenon DEF PayableInv, Advanced
    <3> QED BY <2>2, <3>2, <3>3, <3>4, <3>5, <3>6, Zenon
            DEF CallStep, Settings!KeyRecorded, Settings!StartDeposit, Settings!EndDeposit
  <2>3. CASE UNCHANGED Settings!vars
    BY <2>3, Zenon DEF Settings!vars, PayableInv
  <2> QED BY <2>1, <2>2, <2>3, NextSplits, Zenon
<1>3. PayableInv => DestinationsArePayable
  BY Zenon DEF PayableInv, DestinationsArePayable, Settings!DestinationsArePayable
<1> QED BY <1>1, <1>2, <1>3, PTL DEF Settings!Spec

\* The sum that validate compares the minimum withdrawal with does not wrap.
NoWrap == \A fee \in WithdrawalFees : fee + Rent < Word

\* A burn under way meets the minimum of the configuration that will be read after it, and
\* an accepted withdrawal pays the rent.
AmountsInv ==
  /\ Valid
  /\ withdrawal = [w \in Withdrawal |-> withdrawal[w]]
  /\ \A w \in Withdrawal :
       /\ withdrawal[w].stage = "burning" =>
            withdrawal[w].burned \in Nat /\ withdrawal[w].burned >= config.minimumWithdrawal
       /\ withdrawal[w].stage \in Settings!Incomplete \cup {"done"} => withdrawal[w].amount >= Rent
       /\ withdrawal[w].stage # "panicked"

\* Without wrap-around, a valid configuration has a minimum that pays the fee and the rent.
LEMMA MinimumCoversFee ==
  ASSUME NoWrap, Valid
  PROVE  /\ config.withdrawalFee \in Nat /\ config.minimumWithdrawal \in Nat
         /\ config.minimumWithdrawal >= config.withdrawalFee + Rent
<1>1. config.withdrawalFee \in Nat /\ config.minimumWithdrawal \in Nat /\ Rent \in Nat
  BY Words, ConfigAssumption, Zenon DEF Valid, Numbers
<1>2. Settings!Plus(config.withdrawalFee, Rent) = config.withdrawalFee + Rent
  BY Words, <1>1 DEF Settings!Plus, NoWrap, Valid, Numbers
<1>3. config.minimumWithdrawal >= Settings!Plus(config.withdrawalFee, Rent)
  BY Zenon DEF Valid, Settings!Validate
<1> QED BY <1>1, <1>2, <1>3, Zenon

\* A step on one withdrawal keeps the invariant if that withdrawal satisfies it.
LEMMA OneAmount ==
  ASSUME AmountsInv, Valid', config' = config, NEW w \in Withdrawal, NEW r,
         withdrawal' = [withdrawal EXCEPT ![w] = r],
         r.stage = "burning" => r.burned \in Nat /\ r.burned >= config.minimumWithdrawal,
         r.stage \in Settings!Incomplete \cup {"done"} => r.amount >= Rent,
         r.stage # "panicked"
  PROVE  AmountsInv'
BY Zenon DEF AmountsInv

\* As long as no fee is so large that adding the rent wraps, every accepted withdrawal pays
\* at least the rent and the expect of withdraw_sol on the burned amount never fails:
\* minimum and fee are read on two sides of the burn, but they are of one configuration.
THEOREM AcceptedWithdrawalsPay ==
  NoWrap => (Settings!Spec => [](WithdrawalsPayRent /\ Settings!BurnedCoversFee))
<1> SUFFICES ASSUME NoWrap PROVE Settings!Spec => [](WithdrawalsPayRent /\ Settings!BurnedCoversFee)
  BY Zenon
<1>1. Settings!Init => AmountsInv
  BY ValidInit DEF Settings!Init, AmountsInv, Settings!NoWithdrawal, Settings!Incomplete
<1>2. AmountsInv /\ [Settings!Next]_(Settings!vars) => AmountsInv'
  <2> SUFFICES ASSUME AmountsInv, [Settings!Next]_(Settings!vars) PROVE AmountsInv'
    BY Zenon
  <2>1. Valid
    BY Zenon DEF AmountsInv
  <2>2. ASSUME NEW args \in Settings!UpgradeArgs, NEW list \in NonceLists,
         Settings!Upgrade(args, list)
        PROVE  AmountsInv'
    <3>1. withdrawal' = [w \in Withdrawal |->
            IF withdrawal[w].stage = "burning" THEN Settings!NoWithdrawal ELSE withdrawal[w]]
      BY <2>2, Zenon DEF Settings!Upgrade, Settings!DropCalls
    <3>2. Valid'
      BY <2>1, <2>2, ValidUpgrade, Zenon
    <3> QED BY <3>2, <3>1, Zenon DEF AmountsInv, Settings!Incomplete, Settings!NoWithdrawal
  <2>3. ASSUME CallStep PROVE AmountsInv'
    <3>1. Valid' /\ config' = config
      BY <2>1, <2>3, ValidCall, CallKeepsConfig, Zenon
    <3>2. CASE UNCHANGED withdrawal
      BY <3>1, <3>2, Zenon DEF AmountsInv
    <3>3. ASSUME NEW w \in Withdrawal, NEW burned \in Amounts, NEW to,
           Settings!StartWithdrawal(w, burned, to)
          PROVE  AmountsInv'
      <4> DEFINE r == [stage |-> "burning", to |-> to, burned |-> burned]
      <4>1. withdrawal' = [withdrawal EXCEPT ![w] = r]
        BY <3>3, Zenon DEF Settings!StartWithdrawal
      <4>2. r.burned \in Nat /\ r.burned >= config.minimumWithdrawal
        BY <3>3, Words, Zenon DEF Settings!StartWithdrawal
      <4>3. r.stage \notin Settings!Incomplete \cup {"done"} /\ r.stage # "panicked"
        BY Zenon DEF Settings!Incomplete
      <4> HIDE DEF r
      <4> QED BY <3>1, <4>1, <4>2, <4>3, OneAmount, Zenon
    <3>4. ASSUME NEW w \in Withdrawal, Settings!BurnFails(w) PROVE AmountsInv'
      <4>1. withdrawal' = [withdrawal EXCEPT ![w] = Settings!NoWithdrawal]
        BY <3>4, Zenon DEF Settings!BurnFails
      <4>2. Settings!NoWithdrawal.stage \notin Settings!Incomplete \cup {"burning", "done",
             "panicked"}
        BY Zenon DEF Settings!NoWithdrawal, Settings!Incomplete
      <4> QED BY <3>1, <4>1, <4>2, OneAmount, ZenonT(60)
    <3>5. ASSUME NEW w \in Withdrawal, Settings!AcceptWithdrawal(w) PROVE AmountsInv'
      <4> DEFINE r == Accepted(w)
      <4>1. withdrawal' = [withdrawal EXCEPT ![w] = r]
        BY <3>5, Zenon DEF Settings!AcceptWithdrawal, Accepted
      <4>2. /\ config.withdrawalFee \in Nat /\ config.minimumWithdrawal \in Nat /\ Rent \in Nat
            /\ config.minimumWithdrawal >= config.withdrawalFee + Rent
        BY <2>1, MinimumCoversFee, ConfigAssumption, Zenon
      <4>3. r.stage = "pending" /\ r.amount = withdrawal[w].burned - config.withdrawalFee
        BY <4>2, <3>5 DEF Accepted, Settings!AcceptWithdrawal, AmountsInv
      <4> HIDE DEF r
      <4> QED BY <3>1, <4>1, <4>3, OneAmount, <4>2, <3>5 DEF Settings!AcceptWithdrawal,
         AmountsInv
    <3>6. ASSUME NEW w \in Withdrawal, Settings!Advance(w) PROVE AmountsInv'
      <4>1. PICK stage \in Settings!Incomplete \cup {"done"} :
              /\ withdrawal[w].stage \in Settings!Incomplete
              /\ withdrawal' = [withdrawal EXCEPT ![w] = Advanced(w, stage)]
        BY <3>6, AdvanceSteps, Zenon
      <4>2. Advanced(w, stage).amount = withdrawal[w].amount /\ Advanced(w,
             stage).stage = stage
        BY Zenon DEF Advanced
      <4> QED BY <3>1, <4>1, <4>2, OneAmount, Zenon DEF AmountsInv, Settings!Incomplete
    <3> QED BY <2>3, <3>2, <3>3, <3>4, <3>5, <3>6, Zenon
            DEF CallStep, Settings!KeyRecorded, Settings!StartDeposit, Settings!EndDeposit
  <2>4. CASE UNCHANGED Settings!vars
    BY <2>4, Zenon DEF Settings!vars, AmountsInv, Valid
  <2> QED BY <2>2, <2>3, <2>4, NextSplits, Zenon
<1>3. AmountsInv => WithdrawalsPayRent /\ Settings!BurnedCoversFee
  BY Zenon DEF AmountsInv, WithdrawalsPayRent, Settings!WithdrawalsPayRent,
         Settings!BurnedCoversFee
<1> QED BY <1>1, <1>2, <1>3, PTL DEF Settings!Spec

================================================================================
