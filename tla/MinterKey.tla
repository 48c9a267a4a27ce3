------------------------------- MODULE MinterKey -------------------------------
(***************************************************************************)
(* The minter's public key: fetched from the management canister by a      *)
(* timer that init and post_upgrade arm, recorded as an event, cached in   *)
(* the state and rebuilt by replay.  Every address of the minter derives   *)
(* from it, and the sweep transactions of the log can only be replayed     *)
(* once it is there.  A fetch holds a scope guard that arms the timer      *)
(* again, dropped unless the fetch gets as far as a valid key.             *)
(***************************************************************************)
EXTENDS Naturals, Sequences

CONSTANTS
  MaxSweeps, MaxUpgrades   \* bounds: events of a kind

\* The key of the management canister for master_key_name, which no upgrade
\* changes; None; and a state transition that panics.
Key == "key"
NoKey == "none"
Panic == "panic"

VARIABLES
  log,        \* the events, those that matter to the key
  cached,     \* State::minter_public_key
  timers,     \* one-shot timers of fetch_and_record_minter_public_key
  fetching,   \* fetches that await the management canister
  sweeping    \* sweep rounds past their read of the key, awaiting a block or signatures

vars == <<log, cached, timers, fetching, sweeping>>

Count(e) == Len(SelectSeq(log, LAMBDA f : f = e))

-------------------------------------------------------------------------------
(* State transitions and their replay. *)

\* cache_minter_public_key.
CacheMinterPublicKey(state, key) ==
  IF state \in {NoKey, key} THEN key ELSE Panic

\* apply_state_transition for the three events that read or write the key.
Apply(state, event) ==
  CASE state = Panic -> Panic
    [] event = "MinterPublicKeyFetched" -> CacheMinterPublicKey(state, Key)
    [] event = "SubmittedSweep" -> IF state = NoKey THEN Panic ELSE state
    [] OTHER -> state

Replay(events) ==
  LET after[n \in 0 .. Len(events)] ==
        IF n = 0 THEN NoKey ELSE Apply(after[n - 1], events[n])
  IN  after[Len(events)]

\* Mutant: the event is recorded and the state not updated.
ProcessEvent_LogOnly(event) ==
  log' = Append(log, event) /\ UNCHANGED cached

\* process_event: a transition that panics leaves no trace in the state or the log.
ProcessEvent(event) ==
  IF Apply(cached, event) = Panic
    THEN UNCHANGED <<log, cached>>
    ELSE /\ cached' = Apply(cached, event)
         /\ log' = Append(log, event)

-------------------------------------------------------------------------------
(* fetch_and_record_minter_public_key. *)

\* The management canister rejects the call, or answers with bytes that are no
\* key, on which the fetch traps.  Either way the scope guard arms the timer.
FetchFails ==
  /\ fetching > 0
  /\ fetching' = fetching - 1 /\ timers' = timers + 1
  /\ UNCHANGED <<log, cached, sweeping>>

\* The timer fires: nothing to do once the key is there.
FireTimer ==
  /\ timers > 0
  /\ timers' = timers - 1
  /\ fetching' = IF cached = NoKey THEN fetching + 1 ELSE fetching
  /\ UNCHANGED <<log, cached, sweeping>>

\* A valid key arrives, and is recorded unless another fetch was first.
FetchSucceeds ==
  /\ fetching > 0
  /\ fetching' = fetching - 1
  /\ IF cached = NoKey THEN ProcessEvent("MinterPublicKeyFetched")
                       ELSE UNCHANGED <<log, cached>>
  /\ UNCHANGED <<timers, sweeping>>

-------------------------------------------------------------------------------
(* The timer that sweeps, and the life of the canister. *)

\* sweep_queued_deposits reads the key and awaits, or skips the round.
StartSweep ==
  /\ sweeping = 0 /\ cached # NoKey
  /\ Count("SubmittedSweep") < MaxSweeps
  /\ sweeping' = 1
  /\ UNCHANGED <<log, cached, timers, fetching>>

\* The sweep is recorded; a trap would end the round as well.
SubmitSweep ==
  /\ sweeping = 1
  /\ sweeping' = 0
  /\ ProcessEvent("SubmittedSweep")
  /\ UNCHANGED <<timers, fetching>>

\* Upgrades with arguments are recorded, upgrades without are not.
RecordUpgrade ==
  \/ UNCHANGED log
  \/ Count("Upgrade") < MaxUpgrades /\ log' = Append(log, "Upgrade")

\* Mutant: only init arms the timer.
Upgrade_NoTimer ==
  /\ RecordUpgrade /\ cached' = Replay(log)
  /\ timers' = 0 /\ fetching' = 0 /\ sweeping' = 0

\* post_upgrade: replay, the event of the upgrade if it has arguments, setup_timers.
\* Timers and calls of the old instance are gone.  A replay that panics would
\* undo the upgrade.
Upgrade ==
  /\ RecordUpgrade /\ cached' = Replay(log)
  /\ timers' = 1 /\ fetching' = 0 /\ sweeping' = 0

\* init: the event of the initialization, and setup_timers.
Init ==
  /\ log = <<"Init">> /\ cached = NoKey
  /\ timers = 1 /\ fetching = 0 /\ sweeping = 0

Next ==
  \/ FireTimer \/ FetchFails \/ FetchSucceeds
  \/ StartSweep \/ SubmitSweep \/ Upgrade

Spec == Init /\ [][Next]_vars

-------------------------------------------------------------------------------
\* An upgrade at any moment finds the key exactly where the canister had it: the
\* replay of the log neither panics in cache_minter_public_key or on a sweep that
\* was submitted before the key, nor forgets the key.
ReplayAgrees == Replay(log) = cached

\* As long as the key is missing exactly one timer or fetch is under way, over
\* failures, traps and upgrades: the retry of the scope guard is neither lost nor
\* doubled.  Once the key is there at most one idle timer is left.
FetchUnderWay ==
  /\ cached = NoKey => timers + fetching = 1
  /\ timers + fetching <= 1

\* The key becomes available, however often fetches fail and the canister is
\* upgraded meanwhile.
KeyEventuallyAvailable == <>[](cached # NoKey)

===============================================================================
