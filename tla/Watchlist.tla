------------------------------- MODULE Watchlist -------------------------------
(***************************************************************************)
(* The automatic deposit flow as far as it is implemented: the endpoint    *)
(* watch_deposit_address, the watchlist it registers accounts in, the scan *)
(* schedule of a registration, and the deposits and upgrades that end one. *)
(* The watchlist is a TimedSizedMap from accounts to their scan progress;  *)
(* the two functions a balance scan would use, due and record_scan, are    *)
(* called by tests only, so that record_scan is taken here at any time and *)
(* for any account.                                                        *)
(***************************************************************************)
EXTENDS ExpiryIndex, FiniteSetsExt

CONSTANTS
  Account,
  WatchWindow,  \* WATCH_WINDOW
  MaxWatched,   \* MAX_WATCHED_ADDRESSES
  BurstSlots,   \* BURST_SCAN_SLOTS, as offsets
  SteadyGap,    \* STEADY_SCAN_GAP
  MaxTime,      \* u64::MAX, the largest Timestamp
  MaxCount,     \* u32::MAX, the largest scan_count
  MaxNow,       \* bound: the time
  MaxDeposits,  \* bound: deposits queued
  MaxUpgrades   \* bound: upgrades of the minter

ASSUME WatchlistAssumption ==
  /\ WatchWindow \in Nat /\ MaxWatched \in Nat \ {0}
  /\ BurstSlots \subseteq 0 .. WatchWindow /\ 0 \in BurstSlots
  /\ SteadyGap \in Nat \ {0}
  /\ MaxTime \in Nat /\ MaxCount \in Nat /\ MaxNow \in 0 .. MaxTime
  /\ MaxDeposits \in Nat /\ MaxUpgrades \in Nat

VARIABLES
  entries,      \* the registrations
  now,          \* the time of the latest call
  keyKnown,     \* whether the minter public key is recorded
  feeSet,       \* whether the automatic deposit fee is configured
  nextId,       \* next_id of the deposits
  inFlight,     \* in_flight_ids: the deposit in flight of each account, or 0
  latest,       \* latest_ids: the latest deposit of each account, or 0
  quarantined,  \* the deposits in flight that are quarantined
  \* History and bounds.
  promised,     \* the end of the window an account was first told, 0 when void
  dueScans,     \* scans of the present registration made when it was due
  upgrades

depositVars == <<nextId, inFlight, latest, quarantined>>
vars == <<entries, now, keyKnown, feeSet, depositVars, promised, dueScans, upgrades>>

Time == 0 .. MaxTime
Never == MaxTime + 1   \* no scan yet, or no slot left

\* The address of an account is a function of the account.
ScanProgress == [scheduledFrom : Time, scanCount : 0 .. MaxCount,
                 lastScannedAt : Time \cup {Never}]

M == INSTANCE TimedSizedMap WITH
  Key <- Account, Value <- ScanProgress, Ttl <- WatchWindow,
  Capacity <- MaxWatched, map <- entries

Unscanned(t) == [scheduledFrom |-> t, scanCount |-> 0, lastScannedAt |-> Never]

--------------------------------------------------------------------------------
(* The schedule. *)

ScanSlots ==
  {slot \in BurstSlots \cup {Max(BurstSlots) + SteadyGap * k : k \in 1 .. WatchWindow} :
     slot <= WatchWindow}

\* The slots of an entry that lie in its window.
SlotTimes(entry) ==
  {t \in {Min({entry.value.scheduledFrom + slot, MaxTime}) : slot \in ScanSlots} :
     t <= entry.expiresAt}

First(times) == IF times = {} THEN Never ELSE Min(times)

\* Mutant: the schedule goes on with the slot after the ones already scanned.
NextScanAt_MadeUp(entry) ==
  First({t \in SlotTimes(entry) :
           Cardinality({s \in SlotTimes(entry) : s < t}) >= entry.value.scanCount})

NextScanAt(entry) ==
  First({t \in SlotTimes(entry) :
           entry.value.lastScannedAt # Never => t > entry.value.lastScannedAt})

--------------------------------------------------------------------------------
(* Reading the watchlist. *)

LiveAccounts == {a \in Account : HasLive(entries, now, a)}

Due == {a \in LiveAccounts : NextScanAt(entries.entries[a]) <= now}

\* What watch_deposit_address answers, in the order of its early returns; when it
\* has to register the account, the registration it finds.
Status(a) ==
  IF ~keyKnown \/ ~feeSet THEN [kind |-> "TemporarilyUnavailable"]
  ELSE IF inFlight[a] \in quarantined THEN [kind |-> "Quarantined", depositId |-> inFlight[a]]
  ELSE IF inFlight[a] # 0 THEN [kind |-> "Detected", depositId |-> inFlight[a]]
  ELSE IF a \in LiveAccounts
    THEN [kind |-> "Watching", validUntil |-> entries.entries[a].expiresAt]
  ELSE [kind |-> "NotWatching"]

--------------------------------------------------------------------------------
(* The operations. *)

Init ==
  /\ entries = Empty /\ now = 0
  /\ keyKnown = FALSE /\ feeSet \in BOOLEAN
  /\ nextId = 1 /\ quarantined = {}
  /\ inFlight = [a \in Account |-> 0] /\ latest = [a \in Account |-> 0]
  /\ promised = [a \in Account |-> 0]
  /\ dueScans = [a \in Account |-> 0]
  /\ upgrades = 0

\* The key fetch records the key.
RecordKey ==
  /\ ~keyKnown
  /\ keyKnown' = TRUE
  /\ UNCHANGED <<entries, now, feeSet, depositVars, promised, dueScans, upgrades>>

\* Mutant: a new registration replaces a live one.
Register_Anew(a) ==
  M!InsertEntry(IF a \in DOMAIN entries.entries THEN Delete(entries, a) ELSE entries,
                now, a, [value |-> Unscanned(now), expiresAt |-> M!Expiry(now)])

\* Watchlist::register.
Register(a) ==
  M!InsertEntry(entries, now, a, [value |-> Unscanned(now), expiresAt |-> M!Expiry(now)])

\* The endpoint, for an account that needs a registration: the existing one is
\* returned as it is.  With any other answer nothing changes, and neither it
\* does when the watchlist is full, but for the eviction of expired entries.
WatchDepositAddress(a) ==
  /\ keyKnown /\ feeSet
  /\ inFlight[a] = 0
  /\ entries' = Register(a).map
  /\ promised' = [promised EXCEPT ![a] =
                    IF Register(a).reply = "at_capacity" \/ (@ # 0 /\ now <= @) THEN @
                    ELSE entries'.entries[a].expiresAt]
  /\ dueScans' = [dueScans EXCEPT ![a] = IF Register(a).reply = "inserted" THEN 0 ELSE @]
  /\ UNCHANGED <<now, keyKnown, feeSet, depositVars, upgrades>>

\* record_scan of an account that is still watched.
RecordScan(a) ==
  /\ HasLive(entries, now, a)
  /\ LET progress == entries.entries[a].value
     IN  entries' = SetValue(entries, a,
           [scheduledFrom |-> progress.scheduledFrom,
            scanCount     |-> Min({progress.scanCount + 1, MaxCount}),
            lastScannedAt |-> now])
  /\ dueScans' = [dueScans EXCEPT ![a] = IF a \in Due THEN @ + 1 ELSE @]
  /\ UNCHANGED <<now, keyKnown, feeSet, depositVars, promised, upgrades>>

EvictExpired ==
  /\ entries' = Evict(entries, now)
  /\ UNCHANGED <<now, keyKnown, feeSet, depositVars, promised, dueScans, upgrades>>

\* Mutant: the registration outlives the deposit.
QueueDeposit_KeepWatching(a) ==
  /\ keyKnown /\ inFlight[a] = 0 /\ nextId <= MaxDeposits
  /\ inFlight' = [inFlight EXCEPT ![a] = nextId]
  /\ latest' = [latest EXCEPT ![a] = nextId]
  /\ nextId' = nextId + 1
  /\ promised' = [promised EXCEPT ![a] = 0]
  /\ dueScans' = [dueScans EXCEPT ![a] = 0]
  /\ UNCHANGED <<entries, now, keyKnown, feeSet, quarantined, upgrades>>

\* A call of deposit_sol queues a deposit (module DepositSweeps).
QueueDeposit(a) ==
  /\ keyKnown /\ inFlight[a] = 0 /\ nextId <= MaxDeposits
  /\ inFlight' = [inFlight EXCEPT ![a] = nextId]
  /\ latest' = [latest EXCEPT ![a] = nextId]
  /\ nextId' = nextId + 1
  /\ entries' = IF a \in DOMAIN entries.entries THEN Delete(entries, a) ELSE entries
  /\ promised' = [promised EXCEPT ![a] = 0]
  /\ dueScans' = [dueScans EXCEPT ![a] = 0]
  /\ UNCHANGED <<now, keyKnown, feeSet, quarantined, upgrades>>

\* The deposit is minted or dropped, and its account released.
ReleaseInFlight(a) ==
  /\ inFlight[a] # 0 /\ inFlight[a] \notin quarantined
  /\ inFlight' = [inFlight EXCEPT ![a] = 0]
  /\ UNCHANGED <<entries, now, keyKnown, feeSet, nextId, latest, quarantined,
                 promised, dueScans, upgrades>>

Quarantine(a) ==
  /\ inFlight[a] # 0 /\ inFlight[a] \notin quarantined
  /\ quarantined' = quarantined \cup {inFlight[a]}
  /\ UNCHANGED <<entries, now, keyKnown, feeSet, nextId, inFlight, latest,
                 promised, dueScans, upgrades>>

\* The replayed events hold the key, the deposits and the fee, which the upgrade
\* may set; the watchlist starts empty, and so do the promises.
Upgrade ==
  /\ upgrades < MaxUpgrades
  /\ upgrades' = upgrades + 1
  /\ feeSet' \in {feeSet, TRUE}
  /\ entries' = Empty
  /\ promised' = [a \in Account |-> 0]
  /\ dueScans' = [a \in Account |-> 0]
  /\ UNCHANGED <<now, keyKnown, depositVars>>

\* The environment: the clock of the canister.
Tick ==
  /\ now < MaxNow
  /\ now' = now + 1
  /\ UNCHANGED <<entries, keyKnown, feeSet, depositVars, promised, dueScans, upgrades>>

Next ==
  \/ RecordKey
  \/ \E a \in Account :
       \/ WatchDepositAddress(a)
       \/ RecordScan(a)
       \/ QueueDeposit(a)
       \/ ReleaseInFlight(a)
       \/ Quarantine(a)
  \/ EvictExpired
  \/ Upgrade
  \/ Tick

Spec == Init /\ [][Next]_vars

--------------------------------------------------------------------------------
(* Properties. *)

\* An account has a registration, even an expired one, only while none of its
\* deposits is in flight: the sweep flow owns its address then.
NeverWatchedInFlight == \A a \in DOMAIN entries.entries : inFlight[a] = 0

\* What watch_deposit_address told a client stays true: the account is reported
\* as watched until exactly that time, whatever is registered, evicted or
\* scanned meanwhile, unless a deposit is queued for it or the minter upgraded.
PromiseKept ==
  \A a \in Account :
    promised[a] # 0 /\ now <= promised[a] =>
      Status(a) = [kind |-> "Watching", validUntil |-> promised[a]]

\* The scans made when a registration was due never outnumber the slots of its
\* schedule that have passed, however late they come and however many others
\* are made in between: the bound on what a registration costs.
ScansWithinSlots ==
  \A a \in LiveAccounts :
    dueScans[a] <= Cardinality({t \in SlotTimes(entries.entries[a]) : t <= now})
================================================================================
