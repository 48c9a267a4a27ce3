# A TLA+ model of the ckSOL minter

The minter is a canister that takes SOL at deposit addresses, mints ckSOL for it, and
burns ckSOL to pay SOL out. It keeps one tracked balance of its main Solana address,
records every state change as an event, and does its work in four timers that await
Solana, the threshold signer and the ckSOL ledger at almost every step. This directory
holds a model of that control: what is interleaved at the awaits, what is lost by an
upgrade, what a stale or failed answer may do, and what must hold all the same.

All paths below are relative to `src/minter/src/`.

## 1. The system

| Part | State | Operations | Talks to |
|---|---|---|---|
| `withdraw_sol` (`withdraw/mod.rs`, `ledger/`) | pending requests, guards | `withdraw`, `withdrawal_status` | ledger (burn) |
| `process_pending_withdrawals` (`withdraw/`, `sol_transfer/`) | created and submitted transactions, nonce pool, balance | create, sign, send | Solana, signer |
| durable nonce pool (`state/nonce_pool/`) | free or bound accounts, values seen | `add_accounts`, `bind`, `free`, `classify_read` | |
| `deposit_sol` (`deposit/sweep/mod.rs`, `guard/`) | queued deposits, ids in flight, guards | `deposit_sol`, `queue_deposit` | Solana (balance) |
| `sweep_queued_deposits` (`deposit/sweep/timer.rs`) | queued and swept deposits | plan, sign, record, send | Solana, signer |
| `finalize_transactions` (`monitor/`, `deposit/sweep/finalize/`) | submitted and finalized transactions, balance | expire or finalize sweeps; read nonces, rebroadcast, settle withdrawals; credit sweeps | Solana |
| `process_pending_mints` (`deposit/sweep/mint/`) | pending mints | transfer, record, quarantine | ledger (mint) |
| automatic deposits (`deposit/automatic/`, `state/watchlist/`) | watchlist with expiry and scan progress | `watch_deposit_address`, record a scan, evict; the timer that scans is not implemented | |
| minter key (`address/`) | cached key | fetch and record | management canister |
| event log (`state/audit.rs`, `state/event/`, `storage/`, `lifecycle.rs`) | log in stable memory | record, replay, upgrade, `get_events` | |
| configuration (`state/mod.rs`) | fees, minima, cycles, canister ids | init, upgrade, `validate` | |
| SOL RPC (`rpc/`) | none | reads and sends, checks of what providers answer | four providers, three of which must agree |
| dashboard, metrics | none | read-only | |

What makes it hard:

- Every round chooses its work before an await and records it after one; two endpoints,
  four timers, Solana and the ledger move in between.
- A nonce or balance read may return an old value; a read, a signature or a call may fail,
  and a failed call may have had its effect or have it later.
- A durable nonce transaction never expires. A sweep does, but only at a finalized height.
- An upgrade loses the rounds, calls and guards and keeps what the events restore. A trap
  after an await rolls back and runs the scope guards.

What correctness means: a burn is paid at most once and its status tells the truth; no two
messages are ever signed for one nonce value; a deposit is minted at most once, and only
for lamports that reached the main address; the tracked balance can be spent; no assertion
marked `BUG` is reachable; every request and deposit is settled in the end; what the minter
concludes from its providers is true; and an upgrade at any moment finds a log that it can read.
`PROJECT.json` lists the hazards at the lines where they bite.

## 2. The modules

| Module | Models | How |
|---|---|---|
| `WithdrawalBatches` | `State::withdrawal_batches` | closed form of the batches, used by `Withdrawals` |
| `BatchIterator` | the `WithdrawalBatches` iterator | one action per turn of its loop |
| `Withdrawals` | `withdraw_sol`, `process_pending_withdrawals`, the withdrawal part of `finalize_transactions`, the nonce pool, upgrade | see below |
| `Payouts` | what a holder is promised for a burn | abstract specification |
| `SweepPlan` | `Sweep::plan`, `Sweep::mints` | arithmetic of a sweep |
| `DepositSweeps` | `deposit_sol`, `sweep_queued_deposits`, the sweep part of `finalize_transactions`, `Deposits`, upgrade | see below |
| `Mints` | `process_pending_mints` and the ledger's deduplication | see below |
| `ProviderReads` | the reads of `rpc/mod.rs`, and what `monitor/`, `deposit/sweep/finalize/`, `withdraw/nonce/` and `deposit_sol` make of them | one withdrawal, sweep or deposit against providers that lag or lie |
| `Config` | `State::validate`, `State::upgrade`, and the parts of `withdraw` and `deposit_sol` that read the configuration | configurations and calls over upgrades |
| `Signing` | `sol_transfer/`, `signer/`, the messages of a sweep and of a withdrawal batch | one transaction from its message to its signatures |
| `MinterKey` | `address/mod.rs`, the replay of its event | timer, fetch, retry, record, upgrade |
| `Guards` | `guard/mod.rs` | calls and rounds that return, trap or are lost |
| `Watchlist` | `deposit/automatic/`, `state/watchlist/`, and what ends a registration | see below |
| `ExpiryIndex` | the two indices of the map behind the watchlist (`utils/timed_sized_map/`) | operators on a map, used by the next two and by `Watchlist` |
| `TimedSizedMap` | that map | one action per operation |
| `MapSnapshot` | `iter_by_expiry`, `from_ordered_entries` | operators, recursive as the code's loop |
| `TtlMap` | what users of that map see | abstract specification |
| `InsertionOrderedMap` | the map of submitted transactions (`utils/insertion_ordered_map/`) | its two indices, one action per operation |
| `OrderedMap` | what users of that map see | abstract specification |
| `MinterState` | | the two maps and the configuration side by side, with what they implement and keep |
| `Payments` | | the mints and the batches side by side |
| `Containers` | maps, sorted keys, filtered queues | operators: the i-th key is the one with i - 1 below it |
| `EventCodec` | CBOR and Candid encodings of events (`state/event.rs`, `state/event/`) | operators |
| `EventLog` | `storage/`, `get_events`, and the two readers of the whole log | recording and reading interleaved |
| `Dashboard` | the table of withdrawals of `dashboard/mod.rs`, `State::withdrawal_status` | operators on the state of `Withdrawals` |
| `...Proofs` | | theorems about the module of that name (`Foundations`: `Guards`, `MinterKey`, `Signing`, `ProviderReads`) |
| `DataTheorems` | | theorems about sums over finite sets, elements by rank, and `ExpiryIndex` |
| `WithdrawalFundsProofs` | | theorems about the lamports of `Withdrawals` |
| `MC...` | | instances for TLC (`Mints` is run as it is) |

Conventions of all of them. An await ends an action. An operator `Can...` holds the
assertions of a state transition; it is a conjunct of the action that makes the transition,
since a failing assertion traps and is rolled back, and the invariant `NoAssertionFails`
says that it holds whenever the transition may be made. A definition named `Op_Variant` is a
plausible mistake in `Op`, used only to show that a property notices it.

### Withdrawals

`status` follows a burn index through `pending_withdrawal_requests`, `created_withdrawal_txs`,
`submitted_transactions` and the final maps; `burned` is a burn whose reply has not arrived,
`lost` one whose call an upgrade dropped. `pool`, `bound` and `seen` are the nonce pool. A
nonce value is the number of advances of its account; a message is the account, the value and
the burn indices, since each index stands for a destination and an amount.

The timer: `StartRound` reserves accounts and batches, `CreateTransaction` or `SkipBatch` is the
continuation of each nonce read, `SignTransaction` or `SignFails` of each signature,
`SendTransaction` of each send. The last continuation of a stage starts the next stage in the
same step, as `join_all` does. The monitor: `StartMonitor`, `ReadNonce` / `ReadFails`,
`Rebroadcast`, `FinalizeLanded` / `OutcomeUnresolved`. `Land`, `SweepLands` are Solana. `requested`
is history: every message that was ever sent to the signer.

Abstracted: message bytes and their size check (a failing check is a skipped batch), the age
after which a withdrawal is broadcast again (it may be at any time), splitting calls into chunks,
and the immediate rescheduling of a timer (a timer may fire whenever it is idle). The pool's
accounts are assumed to start at value 0 when they join it; only differences matter.

### DepositSweeps

`stage` follows a deposit through the maps of `Deposits`: `queued`, `swept`, `finalized`,
`pending`, `minted`, `dropped`, and the two causes of quarantine. `inFlight` is `in_flight_ids`.
`readers` counts the calls of `deposit_sol` that await a balance: their guard. Heights are kept
as differences, which bounds them without a cap on the number of blocks: `age` of a sweep's
blockhash, `depth` of a landed sweep, `Lag` between confirmed and finalized.

Solana: a balance read returns any balance the address ever had; a sweep may land from the
moment it is recorded, while its blockhash is recent; it fails when an address cannot pay or
would drop below rent exemption; it may be charged one lamport more or less than planned; a
sweep that landed and is not final may be missing from a status answer. A status is not older
than the height read before it, which is what the comment at `monitor/mod.rs:93` relies on.

The statuses are asked in chunks of the sweeps in the order of their signatures, at most
`MAX_CONCURRENT_RPC_CALLS` of them in a round, and each chunk may fail alone. Signatures come in
an order that nothing else depends on, so the model lets any set of sweeps be answered
(`answered`), the empty one included, and leaves the others for a later round.

`Sweep::settle` also checks the message, the signature and every balance of the transaction. In
the model Solana executes the message that was signed, so the mismatches it can meet are the
on-chain error and a fee above the plan. `MintDeposit` and `QuarantinePendingMint` are what
`Mints` does to the deposits. Deposits carry no automatic fee: only the scan, which the code
does not have yet, sets one.

### Mints

A round sends one transfer after another. `HandleReply` records the answer, quarantines what is
beyond the window and sends the next, all in one message execution. `TrapOnReply` is the
continuation trapping: the scope guard quarantines the deposit. The ledger is external: it
refuses a `created_at_time` older than `Window` or more than `Drift` in the future, and remembers a
transfer for `Window + Drift`. Its clock and the minter's differ by at most `MaxSkew`. A transfer
whose caller is gone stays in `late` and may be executed any time, any number of times (several
retries of one deposit carry equal arguments).

### TimedSizedMap, ExpiryIndex

`map.entries` and `map.by_expiry` are the two `BTreeMap`s; a bucket keeps the order of insertion.
Operations are operators on a map, so that the watchlist can use them, and `Next` applies them at
any time that does not go back. `MaxTime` is `u64::MAX`: time ends there, and the expiry saturates.
Eviction finds its keys through `by_expiry` only, as the code does, so the indices
agree because the operations keep them so.

### ProviderReads

A call goes to four providers and returns an answer if three gave it. A provider that is not
faulty answers with any finalized state up to the present one, or fails; a faulty one answers
anything the minter's checks tell apart. `Continue` is the continuation of each read: `ClassifyRead`
for a nonce, `WithdrawalOutcome`, `SweepOutcome`, `CreditReason` for the reasons of
`failed_credit_attempts`, and the balance that `deposit_sol` queues. A signature cannot be
made to verify for a message it does not sign.

### Config

`Validate` is `State::validate` with the additions of `u64` wrapping at `Word`. `Upgrade` changes up to
`MaxGiven` parameters and adds nonce accounts; an upgrade that `validate`, `parse_nonce_accounts`
or `ensure_no_incomplete_withdrawal_to` refuses does not happen. `StartWithdrawal` is `withdraw` up
to its burn, `AcceptWithdrawal` the part after it, which reads the fee. `StartDeposit` and
`EndDeposit` are the two sides of the balance read of `deposit_sol`, with the cycles checked on one
and charged on the other. An upgrade drops the calls under way.

### Signing, MinterKey, Guards

`Signing` keeps the order of the signer keys of a message (fee payer, then by address), the order of
the transfers (`TransferOrder`), and the byte counts of `ensure_within_transaction_size`. Signatures
arrive in any order; the first failure fails them all.

`MinterKey` keeps the events that read or write the key, in order: `Replay` folds `Apply` over them, and
may panic. The scope guard of a fetch arms the timer on failure and on a trap; `setup_timers` arms it after
an upgrade.

`Guards` keeps what the two endpoints and the timers put into their sets, and who runs. A trap before the
first await undoes the whole call, so it is no step; one after it runs the destructors.

### Watchlist

`entries` is a `TimedSizedMap` from accounts to their `ScanProgress`; the operations are those of that
module. The slots of a schedule are a burst and then a steady gap; a slot that was missed is not made up.
`QueueDeposit` ends the registration, an upgrade empties the watchlist, because the events do not hold it.
`due` and `record_scan` are called by tests only so far; `RecordScan` is taken at any time.

### InsertionOrderedMap, EventCodec, EventLog, Dashboard

`Iter` of `InsertionOrderedMap` walks the order and looks keys up, and ends at the first it does not find.

`EventCodec` has one table row per variant (its tag and the codecs of its fields); a value is abstract, but
the kind and the length of its encoding are not, and the derived encoders leave out trailing options
without value. `EventLog` records encoded events; `get_all_events` asks for the rest of the total that the
first page reported, `retrieve_all_events` for full pages until it has what the last page reported. Both are
clients in `src/` and convert what they get back into events.

`Dashboard` adds no state: rows, page offsets and links are operators on the maps of `Withdrawals`.

### How they fit together

`Withdrawals`, `DepositSweeps` and `Mints` meet at the tracked balance and at the pending mints. `Withdrawals`
sees deposits as `SweepLands` followed by `CreditSweep`; `DepositSweeps` shows that a credited sweep did land
with the amount credited (`MintsAreBacked`). `Mints` takes a deposit from `CreditSweep` on; `DepositSweeps`
takes its two results as steps. The other modules discharge what these three assume: `Guards` that an account
has one call and a timer one round; `ProviderReads` that an outcome, a status and a nonce may be late but not
false; `Config` that a queued balance pays its sweep and an accepted amount its fee and rent; `Signing` that a
signed transaction is one that Solana executes; `MinterKey` that replaying a recorded sweep finds the key;
`InsertionOrderedMap` that a round of the monitor sees every submitted transaction once; `EventLog` that an
upgrade restores the event-sourced state; `BatchIterator` that the batches are those of the closed form.

`MinterState`, `Payments` and `MCFoundations` put parts that share nothing next to each other, so that one
development proves and one instance checks them. A behaviour of such a run is one of one part, the others being at rest.

## 3. What TLC checks

| Run | Instance | States | Shows |
|---|---|---|---|
| `withdrawals` | 3 burns, 2 accounts, 2 per transaction, 2 sweeps, 1 upgrade, pages of 2 | 271,888 | see below |
| `withdrawals_live` | 2 burns, 2 accounts, one signature per round, 1 upgrade | 9,082 | `AcceptedIsSettled` |
| `batches` | 5 requests of 3 amounts, balances up to 14, 2 per transaction | 54,792 | `BatchesMatch` |
| `mints` | 2 deposits, window 2, drift 1, skew 1, 1 upgrade | 320,724 | `MintedAtMostOnce`, `MintedIsOnLedger`, `NoAssertionFails`, `PendingIsResolved` |
| `deposit_sweeps` | 2 accounts, 3 deposits, 2 payments, lag 2, 1 upgrade | 620,374 | see below |
| `deposit_sweeps_live` | 1 account, 2 deposits, 1 upgrade | 38,048 | `QueuedIsSettled` |
| `config` | 2 to 3 values of each parameter, 6 lists of nonce accounts, any number of upgrades of up to 2 parameters | 23,910 | see below |
| `config_overflow` | a fee close to the end of the word | | violates `BurnedCoversFee` |
| `collections` | map of 3 for 4 keys, 6 insertions of 3 keys | 9,049 | see below |
| `watchlist` | 3 accounts, 2 places, window 3, 2 deposits, 1 upgrade | 126,832 | see below |
| `foundations` | 4 calls, 2 rounds; key; sweeps and withdrawals of 1, 2, 3 and 10 transfers at real sizes; 4 providers, 3 must agree, 0 to 4 faulty | 184,232 | see below |
| `events` | every variant of an event; logs of up to 6 | 16,094 | see below |

`withdrawals`: no request is paid twice (`PaidAtMostOnce`); one message per nonce value
(`OneMessagePerNonceValue`); truthful statuses (`OutcomeReported`); an account is bound exactly
by the one transaction in flight on it (`BoundToOneTransaction`); whatever can still land is
tracked (`OnlySubmittedCanLand`); no assertion fails; the main address holds exactly the tracked
balance, uncredited sweeps, unlanded spending and the transfers that Solana refused
(`BalanceAccounted`); what can land is funded with rent to spare (`LandingIsFunded`); the pages of the
dashboard list every request once, with the status of `withdraw_sol_status`, whatever offset is asked for
(`PagesListEveryRequest`); and the whole implements `Payouts` (`ImplementsPayouts`). The refinement maps a
request in progress to `owed`, `paid` or `refused` by what Solana executed.

`deposit_sweeps`: no assertion fails; ids in flight and live deposits agree (`InFlightIsLive`); a
dropped sweep has not moved funds and never will (`DroppedNeverLands`); the tracked balance is
what arrived and covers what is minted (`MintsAreBacked`), and per account what is minted is covered
by what left its deposit address, also after a stale balance read (`MintedWasPaid`).

`config`: no accepted withdrawal goes to an account of the minter or a reserved one, even if an upgrade adds
nonce accounts meanwhile (`DestinationsArePayable`); it pays at least the rent (`WithdrawalsPayRent`); a queued
deposit pays its share of a full sweep and leaves something to mint, whatever the configuration has become
(`DepositsPayTheirSweep`); the charge after the await is within what was checked (`ChargeIsCovered`). A
behaviour has calls of one of the two endpoints, which share the configuration only.

`config_overflow`: `validate` compares the minimum withdrawal with fee plus rent in `u64`, which wraps in the
release profile. A fee near the end of the word passes, and `withdraw` then fails at
`withdraw/mod.rs:85` (`.expect("BUG: burned amount must be >= withdrawal fee")`) after the burn. Only a
controller can set such a fee. This is the finding in `PROJECT.json`.

`collections`: the two indices of `TimedSizedMap` agree and its entries in order restore it, as a snapshot of the
watchlist would (`SnapshotRestores`); to users, who see live entries only, it is a `TtlMap` (`ImplementsTtlMap`): none is evicted or extended.
Submitted transactions are iterated as `OrderedMap` says (`TransactionsAreOrdered`).

`batches`: the iterator yields the closed form of `WithdrawalBatches` (`BatchesMatch`).

`watchlist`: no address is watched while a sweep owns it (`NeverWatchedInFlight`); the window a caller was told stays
what it was unless a deposit or an upgrade ends it (`PromiseKept`); due scans never exceed the slots that have passed (`ScansWithinSlots`).

`foundations`: guards are exactly those of what runs (`GuardsAreExact`); an upgrade finds the key where it was, and
while it is missing exactly one fetch or timer is under way (`KeyIsNeverLost`); it arrives (`KeyArrives`); a signed
transaction of a sweep or of withdrawals verifies, and a full batch fits into 1232 bytes (`TransactionsAreAcceptable`);
with fewer faulty providers than must agree, every conclusion is true (`ConclusionsAreTrue`); with any number, a
transaction that does not carry the right signature concludes nothing (`ForgeriesConcludeNothing`).

`events`: an upgrade decodes exactly what was recorded (`StoredEventsSurvive`); a reader collects the log without
gap or repetition while it grows, and what it has converts back (`CollectedLogReplays`).

Two comments say something else than the code, which the model follows. `state/deposits/mod.rs:111` says that the
watchlist is "carried across upgrades by a snapshot taken before the upgrade"; there is no such snapshot, and
`lifecycle.rs:23` rebuilds the state from the events only. `guard/mod.rs:43` says that a block is kept from "being
executed `MAX_CONCURRENT` or more times in parallel"; the check at line 61 admits exactly `MAX_CONCURRENT`.

Bounds. Two nonce accounts and three burns give two concurrent batches, one of them with two
requests, and an account used again with a second value while old reads of the first are still
possible. Two sweeps of 5 pay for some but not all of the requests at first, so both the funded
and the waiting case occur. Two payments and three deposits give a joint sweep, a stale read
of a swept balance, and a deposit queued on it. Lag 2 lets a sweep that landed be unfinalized
while the confirmed height, but not the finalized one, is past its age. The maximum age only shifts
the heights at which a sweep can land and expires: it is 0 in `deposit_sweeps` and 1 in
`deposit_sweeps_live`. Times up to 5 with window 2 let the
window open, close at one clock before the other, and forget. One upgrade may happen at any step.
Each parameter of `config` has a value that is valid only together with some of the others, so that upgrades
that change one, or two, are refused and accepted; more at once are covered by the proofs only. Four keys for a map of three give a refusal, a bucket of
three keys and removal from its middle; five requests with two per transaction give a third batch, and balances
that end in every batch. Three accounts for a watchlist of two give a refusal and a place freed by expiry. Four
calls on three accounts with a limit of two meet both refusals. Ten deposits are `MAX_SIGNATURES`. A log of six
with pages of two makes both readers ask at least three times. The signature and nonce counters need no bound of
their own: they follow from the burns. Symmetry is used for the accounts of `deposit_sweeps` and `watchlist`, where
nothing orders accounts. Deadlock is not checked where a behaviour may end: the iterator, a signed
transaction, a collected log, a concluded read, and `config` with all its calls made.

Fairness. Timers are set at intervals for ever and a call on the Internet Computer is
answered in the end: weak fairness of the rounds and continuations. A call repeated every
round eventually succeeds: strong fairness, per account or deposit, of the successful
continuation. Without it the code promises nothing. For a sweep to expire, the height
and the sweep's status must be read in one round; strong fairness says this eventually happens
for each sweep (the sweeps before it in the order of signatures land or expire, which makes room
for it in the chunks of a round). Solana includes what a node received while its nonce is current, and produces
blocks. `mints` assumes no success of the ledger at all. For the key, in `foundations`: timers fire, calls are
answered, and the management canister does not fail every time (strong fairness of a successful fetch, over failures and
upgrades).

## 4. What is proved

The theorems hold for all values of the constants that the named assumptions allow: any finite sets
of accounts, burns and deposits, any amounts, fees, limits and windows, and any number of upgrades. Every safety property
of the runs has a theorem except those listed at the end of this section.

`WithdrawalsProofs`, what is signed and executed: `TypeCorrect`, `NoDoublePayment`, `NoConflictingSignatures`,
`TruthfulStatus`, `ExclusiveBinding` and `FreedAccountsAreQuiet`. None of these is inductive alone. The
inductive invariant `IInv` adds what ties the state to the history and to Solana:

- `SeenOK`: a free account has seen every value below its nonce; a bound one also the bound
  value, which is the current one, or the previous one once its transaction landed. This is what
  makes `classify_read` and `has_seen` right in the face of stale reads.
- `OccupancyOK`, `BurnsOK`: a bound account has one occupant, a request one transaction.
- `SignaturesOK`: a signature identifies its transaction.
- `ChainOK`: what is on its way to the network is submitted or out of date; what landed is out of
  date, and is either still submitted or settled with its own outcome; two executions share no
  request.
- `RequestedOK`: a message ever sent to the signer is bound, submitted or out of date.
- `RoundsOK`: what the rounds copied before an await still exists.

The steps that change none of this are handled once (`QuietStep`); binding, signing, landing and
settling have a lemma each.

`WithdrawalFundsProofs`, lamports: `LamportsAccounted`, `LandingsAreFunded` and `AssertionsHold`, whose hard part is that the
subtraction from the tracked balance cannot fail. `FundsInv` adds to `IInv`:

- `Accounted`: the main address holds the tracked balance, what is not credited yet, the cost of every transaction in
  flight that has not landed, and the transfers of those that failed. This is the property itself, over sums. A step
  moves one transaction or one sweep from one sum to another.
- `RoundFunded`: the batches that a round took before its nonce reads do not overlap, and the balance still pays all that
  are left. Only the round spends, each batch pays for itself when it is created, and a sweep can only add.
- `RentOK`: while a transaction is in flight the balance is at least the rent. With `Accounted`, whatever can land is funded.

`WithdrawalsProofs`, refinement: `PayoutsImplemented`. `InFlightPhase` says what Solana did with a request that is in
progress; with `IInv` each action is a step of `Payouts` or none: landing pays or refuses a batch, settling reports it, and
the upgrade loses the burns whose reply has not come. This is where `BurnsOK` is needed a second time: a landing pays its whole batch
and nobody else.

`DepositSweepsProofs` proves `AccountsFollowTheirDeposit`, `DepositAssertionsHold` and `DroppedSweepsAreDead`. The invariant
adds to `InFlightIsLive`:

- `NumbersOK`: ids and signatures are given in order, so a new one is new.
- `DepositsOK`: the deposits of a sweep stay together until it is credited, quarantined or dropped.
- `RoundsOK`: what a call or round took before an await (an idle account, a batch, a sweep to check or to credit) is still
  where it was; batches of a round are disjoint.
- `ChainOK`: a sweep that landed is no older than `MaxAge` plus its depth until it is final. A sweep that was too old at the
  finalized height is then final, and has a status, or can never land. With the confirmed height this fails.
- `DroppedOK`: a dropped sweep failed, or never landed and is too old.

It also proves `MintsBacked` and `MintsArePaidFor`. `FundsInv` there has `AmountsOK` (a queued balance is at least the minimum,
so every transfer of `Sweep::plan` is a natural number), `CreditedOK` (only sweeps that landed are credited, and as a whole) and
`TrackedOK`: the tracked balance is what the credited deposits mint, the main address holds what the landed
ones do, and each deposit address lost at least what its landed deposits mint. The lemmas under it say of the plan that what
a sweep moves is exactly what its deposits mint, whoever pays the fee.

`PaymentsProofs`, mints: `MintsTypeCorrect`, `NoDoubleMint`, `MintedIsTruthful` and `MintAssertionsHold`. The
invariant: whatever transfer is awaited, late or in a block carries the `created_at_time`
recorded with its deposit; a block's time is at least its `created_at_time` less the drift. So a
transfer that the ledger does not refuse as too old comes while the first block is still remembered,
for any skew of the clocks. An answer `Ok` or `Duplicate` means a block exists, and a round's
deposits are pending, distinct and ordered.

`PaymentsProofs`, batches: `IteratorMatches`. The closed form numbers requests by rank and divides by the size of a batch; the
iterator only subtracts and counts. `IterInv` connects them: the requests taken are the oldest (`TakenInOrder`), what is
left of the balance is the budget less their amounts and one fee for each batch begun (`Spent`), a request is in the
batch that its rank divided by the size gives (`Grouped`), no batch but the last is short (`Filled`), and the iteration ends at
a request that the budget does not cover (`EndsRight`). Since cost grows with rank, none after that one is covered either.

`FoundationsProofs` has four parts.

- Guards: `GuardsStayExact`. That the sets of guards and what runs agree in both directions, and that no two calls
  hold one guard, is inductive only together (`Agreement`); the limit needs in addition that the sets are finite (`Bounded`).
- The key: `KeyNeverLost`. A replay is the function that applies one event after another. `Replayed` says that there is
  one for the log and that it ends in the cached key; appending an event extends it by one step. A sweep is recorded
  only by a round that read the key, which is what keeps a later replay from panicking.
- Signing: `TransactionsAccepted`. A message has at most ten transfers; the bound on the bytes of its transaction is then
  arithmetic on the sizes of its parts, which are those of the code. That the fee payer is the first signer needs that the largest
  deposit, and of these the first, is the one that `TransferOrder` puts first (`FirstLargest`).
- Reads: `ReadsConcludeTruth` and `ForgeriesRefused`, for any number of providers and any threshold. `CallOK` says that an answer
  that no honest provider would give was given by faulty ones only, so that fewer than the threshold cannot make it the answer.

`MinterStateProofs`, configuration: `ChargesAreCovered`, `QueuedDepositsPay`, `DestinationsStayPayable` and `AcceptedWithdrawalsPay`, for any sets of
values and any upgrades. Each has its invariant on top of the validity of the configuration (`Valid`): what a call read
before its await still bounds what it does after it (`ChargeInv`, `DepositInv`); whoever burns or waits has a destination
outside the present pool (`PayableInv`: upgrades check those who wait, and those who burn do not survive one); the
amount burned covers the fee because both are of one configuration (`AmountsInv`). The last one assumes `NoWrap`, that no
fee plus rent exceeds the word: `config_overflow` shows that it is needed.

`WatchlistProofs` proves `SweepsOwnTheirAddress`, `WatchlistIsBounded`, `PromisesAreKept` and `ScansUseUpSlots`. The invariant says of every
account that a registration excludes a deposit in flight, and that a promise that has not run out is backed by a
registration with that expiry (`AccountOK`); and of every registration that at most one due scan was made for each slot up
to its last one (`Scanned`): a scan when due takes the latest slot passed, which no earlier scan took. Both rest on the
agreement of the two indices of the map (`Agree`): a key that eviction did not find would stay for ever.

`MinterStateProofs`, maps: `IndicesStayInStep` and `TtlMapImplemented` for `TimedSizedMap`, and `MapsAgree` and `TransactionsListed` for
`InsertionOrderedMap`. The first is inductive with what a bucket is (`IsBucket`); then what eviction removes is exactly what
a user could not see, and every operation is a step of `TtlMap` or invisible. The second is inductive with sequence numbers below
the next one (`TxInv`). Then iteration finds every key, and shows the entries by the rank of their sequence numbers:
taking a number out shifts the ranks above it and no other, and a number above all others has the last rank.

How data is reasoned about (`DataTheorems`). Induction over a set or a sequence is by a least counterexample, which needs no
induction rule: a set of natural numbers has a least element (`NatMin`), a family of finite sets one of least size
(`SmallestSet`), and with it a family closed under adding an element has every finite set (`FiniteInduction`). Sums are the
folds of the modules; that such a fold exists, is unique, and what adding or removing an element does to it (`SumAdd`, `SumTake`)
is proved once, and so are sums over unions, of sums, and their order. Filters are written by rank (`Nth`, `Kept`) and not
by recursion, with a lemma that every rank has its element and every element its rank (`NthExists`, `NthOf`, `NthOrder`).

The assumptions are the `ASSUME`s of the modules, which TLC evaluates in the runs: limits and amounts are natural numbers,
some of them positive (the fee of a Solana transaction among them), values of the configuration fit into the word, the minimum
deposit covers rent and fees as `State::validate` demands, and the sizes of a transaction and its signatures are those
of the code.

Only model-checked:

- Liveness (`AcceptedIsSettled`, `PendingIsResolved`, `QueuedIsSettled`, `KeyArrives`): fairness and `ENABLED` are out of the prover's reach.
- `SnapshotRestores`, `PagesListEveryRequest`, `StoredEventsSurvive` and `CollectedLogReplays`: they sort, flatten and fold
  sequences with recursive operators. The runs go through every order of expiry, row, page offset and variant. The
  agreement of the indices, which `SnapshotRestores` includes, is `IndicesStayInStep`.

## 5. What is not modelled

- The derivation of addresses and keys, and the cryptography of signatures: a signature is by a key, of a message.
- Memos of burns and mints: data layout without control.
- Metrics, logs and the routing of HTTP requests: they render values. The tables of minted and quarantined
  deposits of the dashboard are paged by the code that `Dashboard` models for the withdrawals.
- The scan of watched addresses and the collection of the automatic fee: not implemented in the code yet.
- The generated table of reserved addresses: a constant set.
- The exact bytes of CBOR and Candid, and the mismatches of `Sweep::settle` that a faithful execution excludes.

## 6. Plan

1. `Minter`: deposits, mints and withdrawals composed over one main address and one supply:
   the ckSOL supply and the open requests never exceed what the minter holds. An abstract
   specification of a deposit, refined by `DepositSweeps` and `Mints`.
2. Proofs: that a snapshot of the map restores it, and the pages of the dashboard; the composition of deposits with mints.
3. When the scan of watched addresses is implemented: its timer, and the snapshot of the watchlist over an upgrade.
