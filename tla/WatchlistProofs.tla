---------------------------- MODULE WatchlistProofs ----------------------------
(***************************************************************************)
(* The watchlist and the deposits in flight, for any accounts, any window, *)
(* schedule and capacity.  The two indices of the watchlist agree (Agree), *)
(* so that eviction takes away expired registrations and no other; what    *)
(* else there is to know of an account is AccountOK.                       *)
(***************************************************************************)
EXTENDS Watchlist, DataTheorems

Watched == DOMAIN entries.entries

\* An entry is a record with a schedule and an expiry.
EntryOK(e) ==
  /\ e = [value |-> e.value, expiresAt |-> e.expiresAt]
  /\ e.value = [scheduledFrom |-> e.value.scheduledFrom, scanCount |-> e.value.scanCount,
                lastScannedAt |-> e.value.lastScannedAt]
  /\ e.value.scheduledFrom \in Nat /\ e.expiresAt \in Nat

\* The slots of an entry up to a time.
SlotsUpTo(e, t) == {s \in SlotTimes(e) : s <= t}

\* n due scans were made for the entry: none before the first one is recorded, and at most
\* one for every slot up to the last one.
Scanned(e, n, time) ==
  LET last == e.value.lastScannedAt
  IN  \/ last = Never /\ n = 0
      \/ last \in 0 .. time /\ n <= Cardinality(SlotsUpTo(e, last))

\* A registration is one of an account without deposit in flight, and a promise that has
\* not run out is backed by one.
AccountOK(a) ==
  /\ a \in Watched => /\ inFlight[a] = 0
                      /\ EntryOK(entries.entries[a])
                      /\ Scanned(entries.entries[a], dueScans[a], now)
  /\ promised[a] # 0 /\ now <= promised[a] =>
       /\ a \in Watched /\ entries.entries[a].expiresAt = promised[a]
       /\ keyKnown = TRUE /\ feeSet = TRUE

Types ==
  /\ Agree(entries, Account)
  /\ IsFiniteSet(Watched) /\ Cardinality(Watched) <= MaxWatched
  /\ now \in 0 .. MaxNow
  /\ keyKnown \in BOOLEAN /\ feeSet \in BOOLEAN
  /\ nextId \in Nat \ {0} /\ 0 \notin quarantined
  /\ inFlight \in [Account -> Nat]
  /\ promised \in [Account -> Nat]
  /\ dueScans \in [Account -> Nat]

Inv == Types /\ \A a \in Account : AccountOK(a)

--------------------------------------------------------------------------------
(* The map. *)

\* The operations that insert_entry is made of.
LEMMA SameOperations ==
  ASSUME NEW m, NEW t, NEW k, NEW e
  PROVE  /\ M!Evict(m, t) = Evict(m, t)
         /\ M!Enqueue(m, k, e) = Enqueue(m, k, e)
         /\ M!HasLive(m, t, k) <=> HasLive(m, t, k)
         /\ M!IsExpired(t, k) <=> IsExpired(t, k)
<1>1. M!Evict(m, t) = Evict(m, t)
  BY Zenon DEF M!Evict, Evict, M!IsExpired, IsExpired, M!Restrict, Restrict, M!Range, Range
<1>2. M!Enqueue(m, k, e) = Enqueue(m, k, e)
  BY Zenon DEF M!Enqueue, Enqueue, M!With, With, M!Bucket, Bucket
<1>3. M!HasLive(m, t, k) <=> HasLive(m, t, k)
  BY Zenon DEF M!HasLive, HasLive, M!IsExpired, IsExpired
<1>4. M!IsExpired(t, k) <=> IsExpired(t, k)
  BY Zenon DEF M!IsExpired, IsExpired
<1>. QED  BY <1>1, <1>2, <1>3, <1>4, Zenon

\* The registration that register inserts.
New == [value |-> Unscanned(now), expiresAt |-> M!Expiry(now)]

\* A window ends at a time that is not past.
LEMMA WindowEnds ==
  ASSUME Types
  PROVE  M!Expiry(now) \in Nat /\ now <= M!Expiry(now) /\ now \in Nat /\ now <= MaxTime
BY WatchlistAssumption DEF Types, M!Expiry

\* The three outcomes of Watchlist::register.
LEMMA RegisterCases ==
  ASSUME Types, NEW a
  PROVE  LET r == Register(a)
             evicted == Evict(entries, now)
         IN  \/ /\ HasLive(entries, now, a)
                /\ r.map = entries /\ r.reply = "already_present"
             \/ /\ ~HasLive(entries, now, a)
                /\ r.map = evicted /\ r.reply = "at_capacity"
             \/ /\ ~HasLive(entries, now, a)
                /\ r.map = Enqueue(evicted, a, New) /\ r.reply = "inserted"
                /\ ~(Cardinality(DOMAIN evicted.entries) >= MaxWatched)
<1>. DEFINE evicted == Evict(entries, now)
            r == Register(a)
            full == Cardinality(DOMAIN evicted.entries) >= MaxWatched
            clamped == [New EXCEPT !.expiresAt = IF @ < M!Expiry(now) THEN @ ELSE M!Expiry(now)]
<1>1. clamped = New
  BY DEF New
<1>2. ~IsExpired(New.expiresAt, now)
  BY WindowEnds DEF New, IsExpired
<1>3. r = IF M!IsExpired(New.expiresAt, now) THEN [map |-> entries, reply |-> "expired"]
          ELSE IF M!HasLive(entries, now, a) THEN [map |-> entries, reply |-> "already_present"]
          ELSE IF Cardinality(DOMAIN M!Evict(entries, now).entries) >= MaxWatched
            THEN [map |-> M!Evict(entries, now), reply |-> "at_capacity"]
          ELSE [map |-> M!Enqueue(M!Evict(entries, now), a, clamped), reply |-> "inserted"]
  BY Zenon DEF Register, New, M!InsertEntry, M!Cardinality, Cardinality
<1>4. /\ M!Evict(entries, now) = evicted
      /\ M!Enqueue(evicted, a, New) = Enqueue(evicted, a, New)
      /\ M!HasLive(entries, now, a) <=> HasLive(entries, now, a)
      /\ ~M!IsExpired(New.expiresAt, now)
  BY <1>2, SameOperations, Zenon
<1>. HIDE DEF r, clamped, evicted
<1>5. r = IF M!HasLive(entries, now, a) THEN [map |-> entries, reply |-> "already_present"]
          ELSE IF full THEN [map |-> evicted, reply |-> "at_capacity"]
          ELSE [map |-> Enqueue(evicted, a, New), reply |-> "inserted"]
  BY <1>1, <1>3, <1>4, Zenon
<1>. HIDE DEF full
<1>6. CASE HasLive(entries, now, a)
  <2>1. r = [map |-> entries, reply |-> "already_present"]
    BY <1>4, <1>5, <1>6, Zenon
  <2>2. r.map = entries /\ r.reply = "already_present"
    BY <2>1, Zenon
  <2>. QED  BY <1>6, <2>2, Zenon DEF r, evicted
<1>7. CASE ~HasLive(entries, now, a) /\ full
  <2>1. r = [map |-> evicted, reply |-> "at_capacity"]
    BY <1>4, <1>5, <1>7, Zenon
  <2>2. r.map = evicted /\ r.reply = "at_capacity"
    BY <2>1, Zenon
  <2>. QED  BY <1>7, <2>2, Zenon DEF r, evicted
<1>8. CASE ~HasLive(entries, now, a) /\ ~full
  <2>1. r = [map |-> Enqueue(evicted, a, New), reply |-> "inserted"]
    BY <1>4, <1>5, <1>8, Zenon
  <2>2. r.map = Enqueue(evicted, a, New) /\ r.reply = "inserted"
    BY <2>1, Zenon
  <2>. QED  BY <1>8, <2>2, Zenon DEF r, evicted, full
<1>. QED  BY <1>6, <1>7, <1>8, Zenon

\* Fewer accounts than those watched are within the limit as well.
LEMMA Smaller ==
  ASSUME Types, NEW S \in SUBSET Watched
  PROVE  IsFiniteSet(S) /\ Cardinality(S) <= MaxWatched /\ Cardinality(S) \in Nat
<1>1. IsFiniteSet(S) /\ Cardinality(S) <= Cardinality(Watched)
  BY FS_Subset, Zenon DEF Types
<1>2. Cardinality(S) \in Nat /\ Cardinality(Watched) \in Nat
  BY <1>1, FS_CardinalityType, Zenon DEF Types
<1>. QED  BY <1>1, <1>2, WatchlistAssumption DEF Types

\* evict_expired keeps every live registration and adds none.
LEMMA Evicted ==
  ASSUME Types, NEW n, n = Evict(entries, now)
  PROVE  /\ Agree(n, Account)
         /\ DOMAIN n.entries \subseteq Watched
         /\ \A b : HasLive(entries, now, b) <=> b \in DOMAIN n.entries
         /\ \A b \in DOMAIN n.entries : n.entries[b] = entries.entries[b]
<1>1. /\ Agree(n, Account)
      /\ DOMAIN n.entries =
           {k \in DOMAIN entries.entries : ~IsExpired(entries.entries[k].expiresAt, now)}
      /\ \A b \in DOMAIN n.entries : n.entries[b] = entries.entries[b]
  BY EvictAgrees DEF Types
<1>. QED  BY <1>1, Zenon DEF HasLive, Watched

\* An account whose registration, if it is live, is untouched is as it was.
LEMMA Frame ==
  ASSUME Types, NEW a \in Account, AccountOK(a), now' = now, keyKnown' = keyKnown,
         feeSet' = feeSet, inFlight'[a] = inFlight[a], dueScans'[a] = dueScans[a],
         promised'[a] = promised[a],
         a \in Watched' => a \in Watched /\ entries'.entries[a] = entries.entries[a],
         HasLive(entries, now, a) => a \in Watched'
  PROVE  AccountOK(a)'
<1>1. a \in Watched' => /\ inFlight'[a] = 0
                        /\ EntryOK(entries'.entries[a])
                        /\ Scanned(entries'.entries[a], dueScans'[a], now)
  BY Zenon DEF AccountOK
<1>2. ASSUME promised'[a] # 0, now' <= promised'[a]
      PROVE  /\ a \in Watched' /\ entries'.entries[a].expiresAt = promised'[a]
             /\ keyKnown' = TRUE /\ feeSet' = TRUE
  <2>1. /\ a \in Watched /\ entries.entries[a].expiresAt = promised[a]
        /\ keyKnown = TRUE /\ feeSet = TRUE
    BY <1>2, Zenon DEF AccountOK
  <2>2. now \in Nat /\ promised[a] \in Nat
    BY WindowEnds, Zenon DEF Types
  <2>3. HasLive(entries, now, a)
    BY <1>2, <2>1, <2>2 DEF HasLive, IsExpired, Watched
  <2>. QED  BY <2>1, <2>3, Zenon
<1>. QED  BY <1>1, <1>2, Zenon DEF AccountOK

--------------------------------------------------------------------------------
(* The schedule. *)

\* The smallest of a set of numbers, as Min chooses it.
LEMMA MinOf ==
  ASSUME NEW S, S \subseteq Nat, S # {}
  PROVE  Min(S) \in S /\ \A x \in S : Min(S) <= x
<1>1. \E x \in S : \A y \in S : x <= y
  BY NatMin, Zenon
<1>. QED  BY <1>1, Zenon DEF Min

\* An entry has finitely many slots, all of them times.
LEMMA SlotsFinite ==
  ASSUME NEW e, e.value.scheduledFrom \in Nat
  PROVE  SlotTimes(e) \subseteq Time /\ IsFiniteSet(SlotTimes(e)) /\ IsFiniteSet(Time)
<1>1. MaxTime \in Nat
  BY WatchlistAssumption, Zenon
<1>2. IsFiniteSet(Time)
  <2>1. 0 \in Int /\ MaxTime \in Int
    BY <1>1
  <2>. QED  BY <2>1, FS_Interval, Zenon DEF Time
<1>3. \A slot \in ScanSlots : slot \in Nat
  <2>. SUFFICES ASSUME NEW slot \in ScanSlots PROVE slot \in Nat
    BY Zenon
  <2>1. \/ slot \in BurstSlots
        \/ \E k \in 1 .. WatchWindow : slot = Max(BurstSlots) + SteadyGap * k
    BY Zenon DEF ScanSlots
  <2>2. Max(BurstSlots) \in Nat
    <3>1. IsFiniteSet(BurstSlots) /\ BurstSlots \subseteq Nat /\ BurstSlots # {}
      <4>1. IsFiniteSet(0 .. WatchWindow)
        <5>1. 0 \in Int /\ WatchWindow \in Int
          BY WatchlistAssumption
        <5>. QED  BY <5>1, FS_Interval, Zenon
      <4>2. BurstSlots \in SUBSET (0 .. WatchWindow) /\ 0 \in BurstSlots /\ WatchWindow \in Nat
        BY WatchlistAssumption, Zenon
      <4>3. IsFiniteSet(BurstSlots)
        BY <4>1, <4>2, FS_Subset, Zenon
      <4>4. \A x \in 0 .. WatchWindow : x \in Nat
        BY <4>2
      <4>. QED  BY <4>2, <4>3, <4>4, Zenon
    <3>2. \E x \in BurstSlots : \A y \in BurstSlots : y <= x
      BY <3>1, Largest, Zenon
    <3>3. \E x \in BurstSlots : \A y \in BurstSlots : x >= y
      BY <3>1, <3>2, Zenon
    <3>4. Max(BurstSlots) \in BurstSlots
      BY <3>3, Zenon DEF Max
    <3>. QED  BY <3>1, <3>4, Zenon
  <2>3. CASE slot \in BurstSlots
    BY <2>3, WatchlistAssumption
  <2>4. ASSUME NEW k \in 1 .. WatchWindow, slot = Max(BurstSlots) + SteadyGap * k
        PROVE  slot \in Nat
    <3>1. k \in Nat /\ SteadyGap \in Nat
      BY WatchlistAssumption
    <3>2. SteadyGap * k \in Nat
      BY <3>1
    <3>. QED  BY <2>2, <2>4, <3>2
  <2>. QED  BY <2>1, <2>3, <2>4, Zenon
<1>4. ASSUME NEW slot \in ScanSlots PROVE Min({e.value.scheduledFrom + slot, MaxTime}) \in Time
  <2>. DEFINE x == e.value.scheduledFrom + slot
              S == {x, MaxTime}
  <2>1. x \in Nat
    BY <1>3
  <2>. HIDE DEF x
  <2>2. S \subseteq Nat /\ S # {}
    BY <1>1, <2>1, Zenon
  <2>3. Min(S) \in S /\ \A y \in S : Min(S) <= y
    BY <2>2, MinOf, Zenon
  <2>4. Min(S) \in Nat /\ Min(S) <= MaxTime
    BY <2>2, <2>3, Zenon
  <2>5. Min(S) \in Time
    BY <1>1, <2>4 DEF Time
  <2>. QED  BY <2>5, Zenon DEF x
<1>5. SlotTimes(e) \subseteq Time
  BY <1>4, Zenon DEF SlotTimes
<1>. QED  BY <1>2, <1>5, FS_Subset, Zenon

\* The slots up to a time are finitely many, and no fewer up to a later one.
LEMMA SlotsGrow ==
  ASSUME NEW e, e.value.scheduledFrom \in Nat, NEW s \in Nat, NEW t \in Nat, s <= t
  PROVE  /\ IsFiniteSet(SlotsUpTo(e, t)) /\ Cardinality(SlotsUpTo(e, t)) \in Nat
         /\ Cardinality(SlotsUpTo(e, s)) \in Nat
         /\ Cardinality(SlotsUpTo(e, s)) <= Cardinality(SlotsUpTo(e, t))
         /\ (\E x \in SlotTimes(e) : s < x /\ x <= t) =>
              Cardinality(SlotsUpTo(e, s)) + 1 <= Cardinality(SlotsUpTo(e, t))
<1>. DEFINE A == SlotsUpTo(e, s)
            B == SlotsUpTo(e, t)
<1>1. SlotTimes(e) \subseteq Nat /\ IsFiniteSet(SlotTimes(e))
  BY SlotsFinite, WatchlistAssumption DEF Time
<1>2. A \subseteq B /\ B \subseteq SlotTimes(e)
  <2>1. \A x \in SlotTimes(e) : x <= s => x <= t
    BY <1>1
  <2>. QED  BY <2>1, Zenon DEF SlotsUpTo
<1>3. IsFiniteSet(B) /\ IsFiniteSet(A)
  BY <1>1, <1>2, FS_Subset, Zenon
<1>4. (\E x \in SlotTimes(e) : s < x /\ x <= t) => A # B
  <2>1. \A x \in SlotTimes(e) : s < x => ~(x <= s)
    BY <1>1
  <2>. QED  BY <2>1, Zenon DEF SlotsUpTo
<1>. HIDE DEF A, B
<1>5. /\ Cardinality(A) \in Nat /\ Cardinality(B) \in Nat
      /\ Cardinality(A) <= Cardinality(B) /\ (Cardinality(B) = Cardinality(A) => B = A)
  BY <1>2, <1>3, FS_Subset, FS_CardinalityType, Zenon
<1>6. A # B => Cardinality(A) + 1 <= Cardinality(B)
  BY <1>5
<1>. QED  BY <1>3, <1>4, <1>5, <1>6, Zenon DEF A, B

\* A registration that is due has a slot after the last scan that has passed.
LEMMA DueHasSlot ==
  ASSUME Types, NEW a \in Due, EntryOK(entries.entries[a])
  PROVE  LET e == entries.entries[a]
         IN  \E x \in SlotTimes(e) :
               x <= now /\ (e.value.lastScannedAt # Never => e.value.lastScannedAt < x)
<1>. DEFINE e == entries.entries[a]
            last == e.value.lastScannedAt
            S == {t \in SlotTimes(e) : last # Never => t > last}
<1>1. NextScanAt(e) <= now /\ NextScanAt(e) = IF S = {} THEN Never ELSE Min(S)
  BY Zenon DEF Due, NextScanAt, First
<1>2. e.value.scheduledFrom \in Nat
  BY Zenon DEF EntryOK
<1>. HIDE DEF e
<1>3. SlotTimes(e) \subseteq Nat
  BY <1>2, SlotsFinite, WatchlistAssumption DEF Time
<1>4. ~(Never <= now)
  BY WindowEnds, WatchlistAssumption DEF Never
<1>5. S # {}
  BY <1>1, <1>4, Zenon
<1>6. Min(S) \in S /\ Min(S) <= now
  BY <1>1, <1>3, <1>5, MinOf, Zenon
<1>7. Min(S) \in SlotTimes(e) /\ (last # Never => Min(S) > last)
  BY <1>6, Zenon
<1>8. (Min(S) > last) <=> (last < Min(S))
  BY Zenon
<1>. QED  BY <1>6, <1>7, <1>8, Zenon DEF e

--------------------------------------------------------------------------------
(* The steps. *)

\* The types after a step that leaves all but the map alone.
LEMMA MapTypes ==
  ASSUME Types, Agree(entries', Account), IsFiniteSet(Watched'),
         Cardinality(Watched') <= MaxWatched,
         UNCHANGED <<now, keyKnown, feeSet, depositVars>>,
         promised' \in [Account -> Nat], dueScans' \in [Account -> Nat]
  PROVE  Types'
BY Zenon DEF Types, depositVars

\* A step that takes away registrations, live ones excepted, and changes nothing else.
LEMMA EvictStep ==
  ASSUME Inv, entries' = Evict(entries, now),
         UNCHANGED <<now, keyKnown, feeSet, depositVars, promised, dueScans>>
  PROVE  Inv'
<1>1. Types
  BY Zenon DEF Inv
<1>2. /\ Agree(entries', Account)
      /\ Watched' \subseteq Watched
      /\ \A b : HasLive(entries, now, b) <=> b \in Watched'
      /\ \A b \in Watched' : entries'.entries[b] = entries.entries[b]
  BY <1>1, Evicted, Zenon DEF Watched
<1>3. Types'
  BY <1>1, <1>2, Smaller, MapTypes, Zenon DEF Types
<1>4. ASSUME NEW a \in Account PROVE AccountOK(a)'
  BY <1>1, <1>2, Frame, Zenon DEF Inv, depositVars
<1>. QED  BY <1>3, <1>4, Zenon DEF Inv

\* watch_deposit_address registers the account, or finds it registered.
LEMMA WatchStep ==
  ASSUME Inv, NEW a \in Account, WatchDepositAddress(a)
  PROVE  Inv'
<1>. DEFINE r == Register(a)
            evicted == Evict(entries, now)
<1>1. Types /\ AccountOK(a)
  BY Zenon DEF Inv
<1>2. /\ keyKnown = TRUE /\ feeSet = TRUE /\ inFlight[a] = 0 /\ entries' = r.map
      /\ promised' = [promised EXCEPT ![a] =
           IF r.reply = "at_capacity" \/ (@ # 0 /\ now <= @) THEN @
           ELSE entries'.entries[a].expiresAt]
      /\ dueScans' = [dueScans EXCEPT ![a] = IF r.reply = "inserted" THEN 0 ELSE @]
      /\ UNCHANGED <<now, keyKnown, feeSet, depositVars>>
  BY <1>1, Zenon DEF WatchDepositAddress, Types
<1>3. /\ promised \in [Account -> Nat] /\ dueScans \in [Account -> Nat]
      /\ now' = now /\ keyKnown' = keyKnown /\ feeSet' = feeSet /\ inFlight' = inFlight
      /\ now \in Nat
  BY <1>1, <1>2, WindowEnds, Zenon DEF Types, depositVars
<1>. DEFINE q == IF r.reply = "at_capacity" \/ (promised[a] # 0 /\ now <= promised[a])
                 THEN promised[a] ELSE entries'.entries[a].expiresAt
            d == IF r.reply = "inserted" THEN 0 ELSE dueScans[a]
<1>4. promised' = [promised EXCEPT ![a] = q] /\ dueScans' = [dueScans EXCEPT ![a] = d]
  BY <1>2, <1>3, Zenon
<1>. HIDE DEF q, d
<1>5. /\ promised'[a] = q /\ dueScans'[a] = d
      /\ \A b \in Account : b # a => promised'[b] = promised[b] /\ dueScans'[b] = dueScans[b]
  BY <1>3, <1>4, Zenon
<1>6. d \in Nat
  BY <1>3, Zenon DEF d
<1>7. q \in Nat => promised' \in [Account -> Nat] /\ dueScans' \in [Account -> Nat]
  BY <1>3, <1>4, <1>6, Zenon
<1>8. /\ Agree(evicted, Account)
      /\ DOMAIN evicted.entries \subseteq Watched
      /\ \A b : HasLive(entries, now, b) <=> b \in DOMAIN evicted.entries
      /\ \A b \in DOMAIN evicted.entries : evicted.entries[b] = entries.entries[b]
  BY <1>1, Evicted, Zenon
<1>. HIDE DEF r, evicted
<1>9. CASE HasLive(entries, now, a) /\ r.map = entries /\ r.reply = "already_present"
  <2>1. entries' = entries /\ a \in Watched
    BY <1>2, <1>9, Zenon DEF HasLive, Watched
  <2>2. /\ q = IF promised[a] # 0 /\ now <= promised[a] THEN promised[a]
               ELSE entries.entries[a].expiresAt
        /\ d = dueScans[a]
    BY <1>9, <2>1, Zenon DEF q, d
  <2>3. entries.entries[a].expiresAt \in Nat /\ promised[a] \in Nat
    BY <1>1, <1>3, <2>1, Zenon DEF AccountOK, EntryOK
  <2>4. Types'
    <3>1. q \in Nat
      BY <2>2, <2>3, Zenon
    <3>. QED  BY <1>1, <1>2, <1>7, <2>1, <3>1, MapTypes, Zenon DEF Types, Watched
  <2>5. AccountOK(a)'
    <3>1. /\ EntryOK(entries'.entries[a]) /\ inFlight'[a] = 0
          /\ Scanned(entries'.entries[a], dueScans'[a], now)
      BY <1>1, <1>3, <1>5, <2>1, <2>2, Zenon DEF AccountOK
    <3>2. promised'[a] # 0 /\ now <= promised'[a] => entries'.entries[a].expiresAt = promised'[a]
      BY <1>1, <1>5, <2>1, <2>2, Zenon DEF AccountOK
    <3>. QED  BY <1>2, <1>3, <2>1, <3>1, <3>2, Zenon DEF AccountOK, Watched
  <2>6. ASSUME NEW b \in Account, b # a PROVE AccountOK(b)'
    BY <1>1, <1>3, <1>5, <2>1, <2>6, Frame, Zenon DEF Inv, HasLive, Watched
  <2>. QED  BY <2>4, <2>5, <2>6, Zenon DEF Inv
<1>10. CASE ~HasLive(entries, now, a) /\ r.map = evicted /\ r.reply = "at_capacity"
  <2>1. entries' = evicted
    BY <1>2, <1>10, Zenon
  <2>2. q = promised[a] /\ d = dueScans[a]
    BY <1>10, Zenon DEF q, d
  <2>3. promised' = promised /\ dueScans' = dueScans
    BY <1>3, <1>4, <2>2, Zenon
  <2>. QED  BY <1>2, <2>1, <2>3, EvictStep, Zenon DEF evicted
<1>11. CASE /\ ~HasLive(entries, now, a)
            /\ r.map = Enqueue(evicted, a, New) /\ r.reply = "inserted"
            /\ ~(Cardinality(DOMAIN evicted.entries) >= MaxWatched)
  <2>1. a \notin DOMAIN evicted.entries /\ entries' = Enqueue(evicted, a, New)
    BY <1>2, <1>8, <1>11, Zenon
  <2>2. /\ Agree(entries', Account)
        /\ entries'.entries =
             [x \in DOMAIN evicted.entries \cup {a} |-> IF x = a THEN New ELSE evicted.entries[x]]
    BY <1>8, <2>1, EnqueueAgrees
  <2>3. /\ Watched' = DOMAIN evicted.entries \cup {a} /\ entries'.entries[a] = New
        /\ \A b \in DOMAIN evicted.entries : entries'.entries[b] = evicted.entries[b]
    BY <2>1, <2>2, Zenon DEF Watched
  <2>4. IsFiniteSet(Watched') /\ Cardinality(Watched') <= MaxWatched
    <3>1. /\ IsFiniteSet(DOMAIN evicted.entries)
          /\ Cardinality(DOMAIN evicted.entries) \in Nat
      BY <1>1, <1>8, Smaller, Zenon
    <3>2. /\ IsFiniteSet(Watched')
          /\ Cardinality(Watched') = Cardinality(DOMAIN evicted.entries) + 1
      BY <2>1, <2>3, <3>1, FS_AddElement, Zenon
    <3>. QED  BY <1>11, <3>1, <3>2, WatchlistAssumption
  <2>5. /\ New.expiresAt = M!Expiry(now) /\ New.expiresAt \in Nat /\ now <= New.expiresAt
        /\ New = [value |-> New.value, expiresAt |-> New.expiresAt]
        /\ New.value = Unscanned(now)
    BY <1>1, WindowEnds, Zenon DEF New
  <2>6. EntryOK(New) /\ Scanned(New, 0, now)
    <3>1. /\ New.value.scheduledFrom = now /\ New.value.scanCount = 0
          /\ New.value.lastScannedAt = Never
          /\ New.value = [scheduledFrom |-> now, scanCount |-> 0, lastScannedAt |-> Never]
      BY <2>5 DEF Unscanned
    <3>. QED  BY <1>3, <2>5, <3>1, Zenon DEF EntryOK, Scanned
  <2>7. d = 0
    BY <1>11, Zenon DEF d
  <2>8. ~(promised[a] # 0 /\ now <= promised[a])
    <3>. SUFFICES ASSUME promised[a] # 0, now <= promised[a] PROVE FALSE
      BY Zenon
    <3>1. a \in Watched /\ entries.entries[a].expiresAt = promised[a] /\ promised[a] \in Nat
      BY <1>1, <1>3, Zenon DEF AccountOK
    <3>. QED  BY <1>3, <1>11, <3>1 DEF HasLive, IsExpired, Watched
  <2>9. q = New.expiresAt
    <3>1. q = entries'.entries[a].expiresAt
      BY <1>11, <2>8, Zenon DEF q
    <3>. QED  BY <2>3, <3>1, Zenon
  <2>. HIDE DEF New
  <2>10. Types'
    BY <1>1, <1>2, <1>7, <2>2, <2>4, <2>5, <2>9, MapTypes, Zenon
  <2>11. AccountOK(a)'
    <3>1. /\ a \in Watched' /\ EntryOK(entries'.entries[a]) /\ inFlight'[a] = 0
          /\ Scanned(entries'.entries[a], dueScans'[a], now)
      BY <1>2, <1>3, <1>5, <2>3, <2>6, <2>7, Zenon
    <3>2. entries'.entries[a].expiresAt = promised'[a]
      BY <1>5, <2>3, <2>9, Zenon
    <3>. QED  BY <1>2, <1>3, <3>1, <3>2, Zenon DEF AccountOK, Watched
  <2>12. ASSUME NEW b \in Account, b # a PROVE AccountOK(b)'
    <3>1. b \in Watched' <=> b \in DOMAIN evicted.entries
      BY <2>3, <2>12, Zenon
    <3>2. b \in Watched' => b \in Watched /\ entries'.entries[b] = entries.entries[b]
      BY <1>8, <2>3, <3>1, Zenon
    <3>3. HasLive(entries, now, b) => b \in Watched'
      BY <1>8, <3>1, Zenon
    <3>. QED  BY <1>1, <1>3, <1>5, <2>12, <3>2, <3>3, Frame, Zenon DEF Inv
  <2>. QED  BY <2>10, <2>11, <2>12, Zenon DEF Inv
<1>12. \/ HasLive(entries, now, a) /\ r.map = entries /\ r.reply = "already_present"
       \/ ~HasLive(entries, now, a) /\ r.map = evicted /\ r.reply = "at_capacity"
       \/ /\ ~HasLive(entries, now, a)
          /\ r.map = Enqueue(evicted, a, New) /\ r.reply = "inserted"
          /\ ~(Cardinality(DOMAIN evicted.entries) >= MaxWatched)
  BY <1>1, RegisterCases, Zenon DEF r, evicted
<1>. QED  BY <1>9, <1>10, <1>11, <1>12, Zenon

\* Entries with the same schedule have the same slots.
LEMMA SameSlots ==
  ASSUME NEW e, NEW d, e.value.scheduledFrom = d.value.scheduledFrom,
         e.expiresAt = d.expiresAt
  PROVE  SlotTimes(e) = SlotTimes(d)
BY Zenon DEF SlotTimes

\* record_scan changes the progress of one entry: a scan that was due uses up a slot that
\* no scan before it had reached.
LEMMA ScanStep ==
  ASSUME Inv, NEW a \in Account, RecordScan(a)
  PROVE  Inv'
<1>. DEFINE e == entries.entries[a]
            c == Min({e.value.scanCount + 1, MaxCount})
            v == [scheduledFrom |-> e.value.scheduledFrom, scanCount |-> c, lastScannedAt |-> now]
            d == [value |-> v, expiresAt |-> e.expiresAt]
            f == [x \in Watched |-> IF x = a THEN d ELSE entries.entries[x]]
<1>1. Types /\ AccountOK(a)
  BY Zenon DEF Inv
<1>2. a \in Watched /\ HasLive(entries, now, a)
  BY Zenon DEF RecordScan, HasLive, Watched
<1>3. /\ EntryOK(e) /\ inFlight[a] = 0 /\ Scanned(e, dueScans[a], now)
  BY <1>1, <1>2, Zenon DEF AccountOK
<1>4. Agree(entries, Account) /\ e = [value |-> e.value, expiresAt |-> e.expiresAt]
  BY <1>1, <1>3, Zenon DEF Types, EntryOK
<1>5. Agree(entries', Account) /\ entries'.entries = f
  <2>1. entries' = SetValue(entries, a, v)
    BY Zenon DEF RecordScan
  <2>. HIDE DEF v
  <2>. QED  BY <1>2, <1>4, <2>1, SetValueAgrees DEF Watched
<1>6. /\ dueScans' = [dueScans EXCEPT ![a] = IF a \in Due THEN @ + 1 ELSE @]
      /\ UNCHANGED <<now, keyKnown, feeSet, depositVars, promised>>
  BY Zenon DEF RecordScan
<1>7. /\ dueScans \in [Account -> Nat] /\ now \in Nat /\ now' = now /\ promised' = promised
      /\ keyKnown' = keyKnown /\ feeSet' = feeSet /\ inFlight' = inFlight
      /\ promised \in [Account -> Nat]
  BY <1>1, <1>6, WindowEnds, Zenon DEF Types, depositVars
<1>. DEFINE n == IF a \in Due THEN dueScans[a] + 1 ELSE dueScans[a]
<1>8. /\ dueScans' = [dueScans EXCEPT ![a] = n] /\ n \in Nat
  BY <1>6, <1>7
<1>. HIDE DEF n
<1>9. /\ dueScans' \in [Account -> Nat] /\ dueScans'[a] = n
      /\ \A b \in Account : b # a => dueScans'[b] = dueScans[b]
  BY <1>7, <1>8, Zenon
<1>10. /\ d.expiresAt = e.expiresAt /\ d.value = v
       /\ v.scheduledFrom = e.value.scheduledFrom /\ v.lastScannedAt = now
  BY Zenon
<1>11. EntryOK(d)
  BY <1>3, Zenon DEF EntryOK
<1>. HIDE DEF c, v, d, e
<1>12. /\ DOMAIN f = Watched /\ f[a] = d /\ \A b \in Watched : b # a => f[b] = entries.entries[b]
  BY <1>2, Zenon
<1>. HIDE DEF f
<1>13. Watched' = Watched
  BY <1>12, <1>5, Zenon DEF Watched
<1>14. Types'
  BY <1>1, <1>6, <1>7, <1>9, <1>5, <1>13, MapTypes, Zenon DEF Types
<1>15. Scanned(d, n, now)
  <2>1. SlotTimes(d) = SlotTimes(e)
    BY <1>10, SameSlots, Zenon
  <2>2. d.value.lastScannedAt = now /\ now \in 0 .. now
    BY <1>7, <1>10
  <2>3. \A t : SlotsUpTo(d, t) = SlotsUpTo(e, t)
    BY <2>1, Zenon DEF SlotsUpTo
  <2>4. e.value.scheduledFrom \in Nat /\ dueScans[a] \in Nat
    BY <1>3, <1>7, Zenon DEF EntryOK
  <2>. DEFINE last == e.value.lastScannedAt
              up(t) == Cardinality(SlotsUpTo(e, t))
  <2>5. \/ last = Never /\ dueScans[a] = 0
        \/ last \in 0 .. now /\ dueScans[a] <= up(last)
    BY <1>3, Zenon DEF Scanned
  <2>6. a \in Due => \E x \in SlotTimes(e) : x <= now /\ (last # Never => last < x)
    BY <1>1, <1>3, DueHasSlot, Zenon DEF e
  <2>. HIDE DEF last
  <2>7. n <= up(now)
    <3>1. CASE last = Never /\ dueScans[a] = 0
      <4>1. up(now) \in Nat
        BY <1>7, <2>4, SlotsGrow
      <4>2. CASE a \in Due
        <5>1. PICK x \in SlotTimes(e) : x <= now
          BY <2>6, <4>2, Zenon
        <5>2. SlotsUpTo(e, now) # {}
          BY <5>1, Zenon DEF SlotsUpTo
        <5>3. up(now) # 0
          <6>1. IsFiniteSet(SlotsUpTo(e, now))
            BY <1>7, <2>4, SlotsGrow
          <6>. QED  BY <5>2, <6>1, FS_EmptySet, Zenon
        <5>4. n = 1
          BY <3>1, <4>2 DEF n
        <5>. QED  BY <4>1, <5>3, <5>4
      <4>3. CASE a \notin Due
        BY <3>1, <4>1, <4>3 DEF n
      <4>. QED  BY <4>2, <4>3, Zenon
    <3>2. CASE last \in 0 .. now /\ dueScans[a] <= up(last)
      <4>1. last \in Nat /\ last <= now /\ last # Never
        BY <1>1, <1>7, <3>2, WindowEnds, WatchlistAssumption DEF Never
      <4>2. /\ up(last) \in Nat /\ up(now) \in Nat /\ up(last) <= up(now)
            /\ (\E x \in SlotTimes(e) : last < x /\ x <= now) => up(last) + 1 <= up(now)
        BY <1>7, <2>4, <4>1, SlotsGrow, Zenon
      <4>. HIDE DEF up
      <4>3. CASE a \in Due
        <5>1. up(last) + 1 <= up(now)
          BY <2>6, <4>1, <4>2, <4>3, Zenon
        <5>2. n = dueScans[a] + 1
          BY <4>3, Zenon DEF n
        <5>. QED  BY <2>4, <3>2, <4>2, <5>1, <5>2
      <4>4. CASE a \notin Due
        <5>1. n = dueScans[a]
          BY <4>4, Zenon DEF n
        <5>. QED  BY <2>4, <3>2, <4>2, <5>1
      <4>. QED  BY <4>3, <4>4, Zenon
    <3>. QED  BY <2>5, <3>1, <3>2, Zenon
  <2>8. Cardinality(SlotsUpTo(d, now)) = up(now)
    BY <2>3, Zenon
  <2>9. n <= Cardinality(SlotsUpTo(d, d.value.lastScannedAt))
    BY <2>2, <2>7, <2>8, Zenon
  <2>. QED  BY <2>2, <2>9, Zenon DEF Scanned
<1>16. AccountOK(a)'
  <2>1. entries'.entries[a] = d /\ a \in Watched'
    BY <1>2, <1>12, <1>5, <1>13, Zenon
  <2>2. /\ inFlight'[a] = 0 /\ EntryOK(entries'.entries[a])
        /\ Scanned(entries'.entries[a], dueScans'[a], now)
    BY <1>3, <1>7, <1>9, <1>11, <1>15, <2>1, Zenon
  <2>3. promised'[a] # 0 /\ now <= promised'[a] =>
          /\ entries'.entries[a].expiresAt = promised'[a] /\ keyKnown' = TRUE /\ feeSet' = TRUE
    BY <1>1, <1>7, <1>10, <2>1, Zenon DEF AccountOK, e
  <2>. QED  BY <1>7, <2>1, <2>2, <2>3, Zenon DEF AccountOK, Watched
<1>17. ASSUME NEW b \in Account, b # a PROVE AccountOK(b)'
  <2>1. b \in Watched' => b \in Watched /\ entries'.entries[b] = entries.entries[b]
    BY <1>12, <1>5, <1>13, <1>17, Zenon
  <2>2. HasLive(entries, now, b) => b \in Watched'
    BY <1>13, Zenon DEF HasLive, Watched
  <2>. QED  BY <1>1, <1>7, <1>9, <1>17, <2>1, <2>2, Frame, Zenon DEF Inv
<1>. QED  BY <1>14, <1>16, <1>17, Zenon DEF Inv

\* Queueing a deposit ends the registration of its account and the promise with it.
LEMMA QueueStep ==
  ASSUME Inv, NEW a \in Account, QueueDeposit(a)
  PROVE  Inv'
<1>1. Types
  BY Zenon DEF Inv
<1>2. /\ inFlight' = [inFlight EXCEPT ![a] = nextId] /\ nextId' = nextId + 1
      /\ promised' = [promised EXCEPT ![a] = 0] /\ dueScans' = [dueScans EXCEPT ![a] = 0]
      /\ UNCHANGED <<now, keyKnown, feeSet, quarantined>>
      /\ entries' = IF a \in Watched THEN Delete(entries, a) ELSE entries
  BY Zenon DEF QueueDeposit, Watched
<1>3. /\ inFlight \in [Account -> Nat] /\ promised \in [Account -> Nat]
      /\ dueScans \in [Account -> Nat] /\ nextId \in Nat \ {0} /\ now' = now
      /\ keyKnown' = keyKnown /\ feeSet' = feeSet
  BY <1>1, <1>2, Zenon DEF Types
<1>4. /\ inFlight' \in [Account -> Nat] /\ promised' \in [Account -> Nat]
      /\ dueScans' \in [Account -> Nat] /\ nextId' \in Nat \ {0} /\ promised'[a] = 0
      /\ \A b \in Account : b # a => /\ inFlight'[b] = inFlight[b]
                                     /\ promised'[b] = promised[b] /\ dueScans'[b] = dueScans[b]
  BY <1>2, <1>3
<1>5. /\ Agree(entries', Account) /\ Watched' = Watched \ {a}
      /\ \A b \in Watched' : entries'.entries[b] = entries.entries[b]
  <2>1. CASE a \in Watched
    <3>1. entries' = Delete(entries, a) /\ a \in DOMAIN entries.entries /\ Agree(entries, Account)
      BY <1>1, <1>2, <2>1, Zenon DEF Types, Watched
    <3>2. /\ Agree(entries', Account)
          /\ entries'.entries = [x \in DOMAIN entries.entries \ {a} |-> entries.entries[x]]
      BY <3>1, DeleteAgrees
    <3>. QED  BY <3>2, Zenon DEF Watched
  <2>2. CASE a \notin Watched
    BY <1>1, <1>2, <2>2, Zenon DEF Types, Watched
  <2>. QED  BY <2>1, <2>2, Zenon
<1>6. IsFiniteSet(Watched') /\ Cardinality(Watched') <= MaxWatched
  BY <1>1, <1>5, Smaller, Zenon
<1>7. Types'
  BY <1>1, <1>2, <1>4, <1>5, <1>6, Zenon DEF Types
<1>8. AccountOK(a)'
  BY <1>4, <1>5, Zenon DEF AccountOK
<1>9. ASSUME NEW b \in Account, b # a PROVE AccountOK(b)'
  <2>1. b \in Watched' <=> b \in Watched
    BY <1>5, <1>9, Zenon
  <2>2. HasLive(entries, now, b) => b \in Watched'
    BY <2>1, Zenon DEF HasLive, Watched
  <2>. QED  BY <1>1, <1>3, <1>4, <1>5, <1>9, <2>1, <2>2, Frame, Zenon DEF Inv
<1>. QED  BY <1>7, <1>8, <1>9, Zenon DEF Inv

\* An upgrade starts with an empty watchlist and no promises, as the minter did at first.
LEMMA EmptyStart ==
  ASSUME entries = Empty, promised = [a \in Account |-> 0], dueScans = [a \in Account |-> 0]
  PROVE  /\ Agree(entries, Account) /\ Watched = {}
         /\ IsFiniteSet(Watched) /\ Cardinality(Watched) <= MaxWatched
         /\ promised \in [Account -> Nat] /\ dueScans \in [Account -> Nat]
         /\ \A a \in Account : AccountOK(a)
<1>1. Agree(entries, Account) /\ Watched = {}
  BY EmptyAgrees, Zenon DEF Watched
<1>2. IsFiniteSet(Watched) /\ Cardinality(Watched) <= MaxWatched
  BY <1>1, FS_EmptySet, WatchlistAssumption
<1>. QED  BY <1>1, <1>2, Zenon DEF AccountOK

\* At the start nothing is watched.
LEMMA InitInv == Init => Inv
<1>. SUFFICES ASSUME Init PROVE Inv
  BY Zenon
<1>1. /\ Agree(entries, Account) /\ IsFiniteSet(Watched) /\ Cardinality(Watched) <= MaxWatched
      /\ promised \in [Account -> Nat] /\ dueScans \in [Account -> Nat]
      /\ \A a \in Account : AccountOK(a)
  BY EmptyStart, Zenon DEF Init
<1>2. /\ now \in 0 .. MaxNow /\ keyKnown \in BOOLEAN /\ feeSet \in BOOLEAN
      /\ nextId \in Nat \ {0} /\ 0 \notin quarantined /\ inFlight \in [Account -> Nat]
  <2>1. now = 0 /\ 0 \in 0 .. MaxNow
    BY WatchlistAssumption DEF Init
  <2>2. keyKnown \in BOOLEAN /\ feeSet \in BOOLEAN
    BY Zenon DEF Init
  <2>3. nextId = 1 /\ quarantined = {} /\ inFlight = [a \in Account |-> 0]
    BY Zenon DEF Init
  <2>. QED  BY <2>1, <2>2, <2>3
<1>. QED  BY <1>1, <1>2, Zenon DEF Inv, Types

\* Every step keeps the invariant.
LEMMA Inductive == Inv /\ [Next]_vars => Inv'
<1>. SUFFICES ASSUME Inv, [Next]_vars PROVE Inv'
  BY Zenon
<1>. USE DEF depositVars
<1>1. Types /\ now \in Nat /\ MaxNow \in Nat
  BY WindowEnds, WatchlistAssumption DEF Inv
<1>2. ASSUME RecordKey PROVE Inv'
  <2>1. /\ keyKnown' = TRUE
        /\ UNCHANGED <<entries, now, feeSet, depositVars, promised, dueScans>>
    BY <1>2, Zenon DEF RecordKey
  <2>2. Types'
    BY <1>1, <2>1, Zenon DEF Types, Watched
  <2>3. ASSUME NEW a \in Account PROVE AccountOK(a)'
    BY <2>1, Zenon DEF Inv, AccountOK, Watched
  <2>. QED  BY <2>2, <2>3, Zenon DEF Inv
<1>3. ASSUME NEW a \in Account, WatchDepositAddress(a) PROVE Inv'
  BY <1>3, WatchStep, Zenon
<1>4. ASSUME NEW a \in Account, RecordScan(a) PROVE Inv'
  BY <1>4, ScanStep, Zenon
<1>5. ASSUME NEW a \in Account, QueueDeposit(a) PROVE Inv'
  BY <1>5, QueueStep, Zenon
<1>6. ASSUME NEW a \in Account, ReleaseInFlight(a) PROVE Inv'
  <2>1. /\ inFlight' = [inFlight EXCEPT ![a] = 0]
        /\ UNCHANGED <<entries, now, keyKnown, feeSet, nextId, quarantined, promised, dueScans>>
    BY <1>6, Zenon DEF ReleaseInFlight
  <2>2. /\ inFlight' \in [Account -> Nat]
        /\ \A b \in Account : inFlight[b] = 0 => inFlight'[b] = 0
    BY <1>1, <2>1, Zenon DEF Types
  <2>3. Types'
    BY <1>1, <2>1, <2>2, Zenon DEF Types, Watched
  <2>4. ASSUME NEW b \in Account PROVE AccountOK(b)'
    BY <2>1, <2>2, Zenon DEF Inv, AccountOK, Watched
  <2>. QED  BY <2>3, <2>4, Zenon DEF Inv
<1>7. ASSUME NEW a \in Account, Quarantine(a) PROVE Inv'
  <2>1. /\ inFlight[a] # 0 /\ quarantined' = quarantined \cup {inFlight[a]}
        /\ UNCHANGED <<entries, now, keyKnown, feeSet, nextId, inFlight, promised, dueScans>>
    BY <1>7, Zenon DEF Quarantine
  <2>2. Types'
    BY <1>1, <2>1, Zenon DEF Types, Watched
  <2>3. ASSUME NEW b \in Account PROVE AccountOK(b)'
    BY <2>1, Zenon DEF Inv, AccountOK, Watched
  <2>. QED  BY <2>2, <2>3, Zenon DEF Inv
<1>8. ASSUME EvictExpired PROVE Inv'
  BY <1>8, EvictStep, Zenon DEF EvictExpired
<1>9. ASSUME Upgrade PROVE Inv'
  <2>1. /\ entries' = Empty /\ promised' = [a \in Account |-> 0] /\ dueScans' = [a \in Account |-> 0]
        /\ UNCHANGED <<now, keyKnown, depositVars>> /\ feeSet' \in {feeSet, TRUE}
    BY <1>9, Zenon DEF Upgrade
  <2>2. /\ Agree(entries', Account) /\ Watched' = {}
        /\ IsFiniteSet(Watched') /\ Cardinality(Watched') <= MaxWatched
    <3>1. Agree(entries', Account) /\ Watched' = {}
      BY <2>1, EmptyAgrees, Zenon DEF Watched
    <3>. QED  BY <3>1, FS_EmptySet, WatchlistAssumption
  <2>3. promised' \in [Account -> Nat] /\ dueScans' \in [Account -> Nat]
    BY <2>1, Zenon
  <2>4. feeSet' \in BOOLEAN
    BY <1>1, <2>1, Zenon DEF Types
  <2>5. Types'
    BY <1>1, <2>1, <2>2, <2>3, <2>4, Zenon DEF Types
  <2>6. ASSUME NEW a \in Account PROVE AccountOK(a)'
    BY <2>1, <2>2, Zenon DEF AccountOK
  <2>. QED  BY <2>5, <2>6, Zenon DEF Inv
<1>10. ASSUME Tick PROVE Inv'
  <2>1. /\ now < MaxNow /\ now' = now + 1
        /\ UNCHANGED <<entries, keyKnown, feeSet, depositVars, promised, dueScans>>
    BY <1>10, Zenon DEF Tick
  <2>2. Types'
    BY <1>1, <2>1 DEF Types, Watched
  <2>3. ASSUME NEW a \in Account PROVE AccountOK(a)'
    <3>1. AccountOK(a) /\ promised[a] \in Nat
      BY <1>1, Zenon DEF Inv, Types
    <3>2. \A e, n : Scanned(e, n, now) => Scanned(e, n, now')
      BY <1>1, <2>1 DEF Scanned
    <3>3. now' <= promised'[a] => now <= promised[a]
      BY <1>1, <2>1, <3>1
    <3>. QED  BY <2>1, <3>1, <3>2, <3>3, Zenon DEF AccountOK, Watched
  <2>. QED  BY <2>2, <2>3, Zenon DEF Inv
<1>11. CASE UNCHANGED vars
  <2>1. UNCHANGED <<entries, now, keyKnown, feeSet, depositVars, promised, dueScans>>
    BY <1>11, Zenon DEF vars
  <2>2. Types'
    BY <1>1, <2>1, Zenon DEF Types, Watched
  <2>3. ASSUME NEW a \in Account PROVE AccountOK(a)'
    BY <2>1, Zenon DEF Inv, AccountOK, Watched
  <2>. QED  BY <2>2, <2>3, Zenon DEF Inv
<1>. QED  BY <1>2, <1>3, <1>4, <1>5, <1>6, <1>7, <1>8, <1>9, <1>10, <1>11, Zenon DEF Next

--------------------------------------------------------------------------------
(* The theorems. *)

\* An account is never watched while a deposit of it is in flight: watch_deposit_address
\* refuses it and Deposits::queue ends its registration, however calls interleave.
THEOREM SweepsOwnTheirAddress == Spec => []NeverWatchedInFlight
<1>1. Inv => NeverWatchedInFlight
  BY Zenon DEF Inv, Types, Agree, AccountOK, NeverWatchedInFlight, Watched
<1>. QED  BY <1>1, InitInv, Inductive, PTL DEF Spec

\* The watchlist never holds more registrations than MAX_WATCHED_ADDRESSES, expired ones
\* included: Watchlist::register evicts before it counts.
THEOREM WatchlistIsBounded == Spec => [](Cardinality(Watched) <= MaxWatched)
<1>1. Inv => Cardinality(Watched) <= MaxWatched
  BY Zenon DEF Inv, Types
<1>. QED  BY <1>1, InitInv, Inductive, PTL DEF Spec

\* What watch_deposit_address answered holds until the time it named, for any accounts,
\* window and capacity: no eviction, scan or registration of another account takes a live
\* registration away or moves its end.
THEOREM PromisesAreKept == Spec => []PromiseKept
<1>1. Inv => PromiseKept
  <2>. SUFFICES ASSUME Inv, NEW a \in Account, promised[a] # 0, now <= promised[a]
                PROVE  Status(a) = [kind |-> "Watching", validUntil |-> promised[a]]
    BY Zenon DEF PromiseKept
  <2>1. /\ a \in Watched /\ entries.entries[a].expiresAt = promised[a]
        /\ keyKnown = TRUE /\ feeSet = TRUE /\ inFlight[a] = 0
    BY Zenon DEF Inv, AccountOK
  <2>2. 0 \notin quarantined /\ now \in Nat /\ promised[a] \in Nat
    BY WindowEnds, Zenon DEF Inv, Types
  <2>3. a \in LiveAccounts
    BY <2>1, <2>2 DEF LiveAccounts, HasLive, IsExpired, Watched
  <2>4. Status(a) = [kind |-> "Watching", validUntil |-> entries.entries[a].expiresAt]
    BY <2>1, <2>2, <2>3, Zenon DEF Status
  <2>. QED  BY <2>1, <2>4, Zenon
<1>. QED  BY <1>1, InitInv, Inductive, PTL DEF Spec

\* Scans made when a registration was due never outnumber the slots that have passed, for
\* any schedule: every one of them uses up a slot that no earlier scan had reached.
THEOREM ScansUseUpSlots == Spec => []ScansWithinSlots
<1>1. Inv => ScansWithinSlots
  <2>. SUFFICES ASSUME Inv, NEW a \in LiveAccounts
                PROVE  dueScans[a] <= Cardinality({t \in SlotTimes(entries.entries[a]) : t <= now})
    BY Zenon DEF ScansWithinSlots
  <2>. DEFINE e == entries.entries[a]
              last == e.value.lastScannedAt
  <2>1. a \in Account /\ a \in Watched
    BY Zenon DEF LiveAccounts, HasLive, Watched
  <2>2. EntryOK(e) /\ Scanned(e, dueScans[a], now) /\ dueScans[a] \in Nat /\ now \in Nat
    BY <2>1, WindowEnds, Zenon DEF Inv, AccountOK, Types
  <2>. HIDE DEF e
  <2>3. e.value.scheduledFrom \in Nat
    BY <2>2, Zenon DEF EntryOK
  <2>4. Cardinality(SlotsUpTo(e, now)) \in Nat
    BY <2>2, <2>3, SlotsGrow
  <2>5. CASE last \in 0 .. now /\ dueScans[a] <= Cardinality(SlotsUpTo(e, last))
    <3>1. last \in Nat /\ last <= now
      BY <2>2, <2>5
    <3>2. /\ Cardinality(SlotsUpTo(e, last)) \in Nat
          /\ Cardinality(SlotsUpTo(e, last)) <= Cardinality(SlotsUpTo(e, now))
      BY <2>2, <2>3, <3>1, SlotsGrow, Zenon
    <3>3. dueScans[a] <= Cardinality(SlotsUpTo(e, now))
      BY <2>2, <2>4, <2>5, <3>2
    <3>. QED  BY <3>3, Zenon DEF SlotsUpTo, e
  <2>6. CASE dueScans[a] = 0
    <3>1. dueScans[a] <= Cardinality(SlotsUpTo(e, now))
      BY <2>4, <2>6
    <3>. QED  BY <3>1, Zenon DEF SlotsUpTo, e
  <2>. QED  BY <2>2, <2>5, <2>6, Zenon DEF Scanned
<1>. QED  BY <1>1, InitInv, Inductive, PTL DEF Spec

================================================================================
