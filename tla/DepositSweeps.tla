---------------------------- MODULE DepositSweeps ----------------------------
(***************************************************************************)
(* The deposit side of the minter up to the pending mints: deposit_sol,    *)
(* the timer sweep_queued_deposits, the sweep part of the timer            *)
(* finalize_transactions (check_sweep_transactions and                     *)
(* credit_finalized_sweeps), the Deposits state and the upgrade, together  *)
(* with the deposit addresses, the main address and the transactions of    *)
(* Solana.                                                                 *)
(*                                                                         *)
(* Every await ends an action.  Block heights are kept as differences: the *)
(* age of a sweep is the number of blocks confirmed since the block whose  *)
(* hash it carries, and its depth the number of blocks confirmed since the *)
(* one it landed in.  The finalized block is Lag blocks behind the         *)
(* confirmed one.  The deposits of sweep s are those with sweepOf[d] = s.  *)
(***************************************************************************)
EXTENDS SweepPlan

CONSTANTS
  Account,      \* accounts with a deposit address
  Payments,     \* lamports that a user may send to a deposit address at once
  MaxRpc,       \* MAX_CONCURRENT_RPC_CALLS
  MaxAge,       \* MAX_BLOCKHASH_AGE_IN_BLOCKS
  Lag,          \* blocks between the confirmed and the finalized one
  MaxDeposits,  \* bound: deposits queued
  MaxPayments,  \* bound: payments of users
  MaxUpgrades   \* bound: upgrades of the minter

ASSUME DepositSweepsAssumption ==
  /\ IsFiniteSet(Account) /\ Payments \subseteq Nat
  /\ MaxRpc \in Nat \ {0} /\ MaxAge \in Nat /\ Lag \in Nat
  /\ MaxDeposits \in Nat /\ MaxPayments \in Nat /\ MaxUpgrades \in Nat

DepositId == 1 .. MaxDeposits
Signature == 1 .. MaxDeposits   \* a sweep holds one deposit at least
AgeCap == MaxAge + Lag + 1      \* an older sweep is no different

VARIABLES
  \* State of the minter that the event log restores after an upgrade.
  stage,      \* where each deposit is in its life
  owner,      \* its account, 0 before
  recorded,   \* the balance it was queued with
  sweepOf,    \* the sweep that holds it, 0 before
  inFlight,   \* in_flight_ids: the deposit in flight of each account, or 0
  balance,    \* tracked balance of the main address
  \* Calls of deposit_sol and the rounds of the two timers, lost by an upgrade.
  readers,    \* calls of deposit_sol that await the balance, per account
  sweeper,    \* "idle", "block" or "submit"
  toSign,     \* batches of the round not yet signed
  toSend,     \* sweeps recorded and not yet sent
  monitor,    \* "idle", "height", "status", "withdrawals" or "credit"
  checked,    \* submitted sweeps whose status is checked
  aged,       \* those expired at the block height read before
  toCredit,   \* finalized sweeps whose outcome is fetched
  \* Solana.
  addr,       \* lamports of each deposit address
  past,       \* balances each deposit address has had
  main,       \* lamports of the main address
  blockAge,   \* age of the block that the sweep round fetched
  age,        \* age of each sweep
  depth,      \* depth of each sweep that landed
  outcome,    \* "none", "ok" or "failed": how it landed
  charged,    \* transaction fee it was charged
  \* History and bounds.
  paid,       \* lamports users sent to each deposit address
  payments, upgrades

depositVars == <<stage, owner, recorded, sweepOf, inFlight, balance>>
sweepVars   == <<sweeper, toSign, toSend>>
monitorVars == <<monitor, checked, aged, toCredit>>
addrVars    == <<addr, past, main, paid, payments>>
chainVars   == <<age, depth, outcome, charged>>
vars == <<depositVars, readers, sweepVars, monitorVars, addrVars, blockAge,
          chainVars, upgrades>>

Init ==
  /\ stage = [d \in DepositId |-> "none"]
  /\ owner = [d \in DepositId |-> 0]
  /\ recorded = [d \in DepositId |-> 0]
  /\ sweepOf = [d \in DepositId |-> 0]
  /\ inFlight = [a \in Account |-> 0]
  /\ balance = 0
  /\ readers = [a \in Account |-> 0]
  /\ sweeper = "idle" /\ toSign = {} /\ toSend = {}
  /\ monitor = "idle" /\ checked = {} /\ aged = {} /\ toCredit = {}
  /\ addr = [a \in Account |-> 0] /\ past = [a \in Account |-> {0}]
  /\ main = 0
  /\ blockAge = 0
  /\ age = [s \in Signature |-> 0] /\ depth = [s \in Signature |-> 0]
  /\ outcome = [s \in Signature |-> "none"]
  /\ charged = [s \in Signature |-> 0]
  /\ paid = [a \in Account |-> 0] /\ payments = 0 /\ upgrades = 0

In(st) == {d \in DepositId : stage[d] = st}
Held(s) == {d \in DepositId : sweepOf[d] = s}
SweepsIn(st) == {s \in Signature : \E d \in In(st) : sweepOf[d] = s}

\* The stages of a deposit that keeps its account in flight; the last two are
\* the quarantined ones, by QuarantineCause.
Live == {"queued", "swept", "finalized", "pending", "unreadable", "unresolved"}

-----------------------------------------------------------------------------
(* The endpoint deposit_sol. *)

\* Mutant: no guard keeps two calls of an account apart.
DepositSol_Unguarded(a) ==
  /\ readers[a] < 2
  /\ inFlight[a] = 0
  /\ readers' = [readers EXCEPT ![a] = @ + 1]
  /\ UNCHANGED <<depositVars, sweepVars, monitorVars, addrVars, blockAge,
                 chainVars, upgrades>>

\* The account's guard is taken and the balance read starts; with a deposit in
\* flight the call returns at once and changes nothing.
DepositSol(a) ==
  /\ readers[a] = 0
  /\ inFlight[a] = 0
  /\ readers' = [readers EXCEPT ![a] = @ + 1]
  /\ UNCHANGED <<depositVars, sweepVars, monitorVars, addrVars, blockAge,
                 chainVars, upgrades>>

\* The assertion of Deposits::queue.
CanQueue(a) == inFlight[a] = 0

\* The read returns a balance that the address has or had.
QueueDeposit(a, bal) ==
  LET d == Cardinality(DepositId \ In("none")) + 1
  IN  /\ readers[a] > 0
      /\ bal \in past[a] /\ bal >= Minimum
      /\ d \in DepositId
      /\ CanQueue(a)
      /\ stage' = [stage EXCEPT ![d] = "queued"]
      /\ owner' = [owner EXCEPT ![d] = a]
      /\ recorded' = [recorded EXCEPT ![d] = bal]
      /\ inFlight' = [inFlight EXCEPT ![a] = d]
      /\ readers' = [readers EXCEPT ![a] = @ - 1]
      /\ UNCHANGED <<sweepOf, balance, sweepVars, monitorVars, addrVars,
                     blockAge, chainVars, upgrades>>

\* The read fails or returns less than the minimum.
RefuseDeposit(a) ==
  /\ readers[a] > 0
  /\ readers' = [readers EXCEPT ![a] = @ - 1]
  /\ UNCHANGED <<depositVars, sweepVars, monitorVars, addrVars, blockAge,
                 chainVars, upgrades>>

-----------------------------------------------------------------------------
(* The timer sweep_queued_deposits. *)

\* SweepRound::take_from_queue: the oldest queued deposits in batches.
Batches ==
  LET rank(d) == Cardinality({e \in In("queued") : e < d})
  IN  {{d \in In("queued") : rank(d) \div MaxPerSweep = k} : k \in 0 .. MaxRpc - 1}
        \ {{}}

\* The timer fires while no other round runs (TimerGuard).
StartSweeping ==
  /\ sweeper = "idle"
  /\ toSign' = Batches
  /\ sweeper' = IF Batches = {} THEN "idle" ELSE "block"
  /\ UNCHANGED <<depositVars, readers, toSend, monitorVars, addrVars, blockAge,
                 chainVars, upgrades>>

\* The recent block arrives, or the read fails and the round ends.
FetchBlock ==
  /\ sweeper = "block"
  /\ sweeper' = "submit" /\ blockAge' = 0
  /\ UNCHANGED <<depositVars, readers, toSign, toSend, monitorVars, addrVars,
                 chainVars, upgrades>>

FetchBlockFails ==
  /\ sweeper = "block"
  /\ sweeper' = "idle" /\ toSign' = {}
  /\ UNCHANGED <<depositVars, readers, toSend, monitorVars, addrVars, blockAge,
                 chainVars, upgrades>>

\* The round ends with its last batch.
Sweeping(batches, sent) ==
  /\ toSign' = batches /\ toSend' = sent
  /\ sweeper' = IF batches = {} /\ sent = {} THEN "idle" ELSE "submit"

\* The assertions of Deposits::sweep.
CanSweep(batch) == batch \subseteq In("queued")

\* The signatures of a batch arrive: the sweep is recorded, then sent.
SubmitSweep(batch) ==
  LET s == Cardinality({sweepOf[d] : d \in DepositId} \ {0}) + 1
  IN  /\ sweeper = "submit"
      /\ batch \in toSign
      /\ CanSweep(batch)
      /\ stage' = [d \in DepositId |-> IF d \in batch THEN "swept" ELSE stage[d]]
      /\ sweepOf' = [d \in DepositId |-> IF d \in batch THEN s ELSE sweepOf[d]]
      /\ age' = [age EXCEPT ![s] = blockAge]
      /\ Sweeping(toSign \ {batch}, toSend \cup {s})
      /\ UNCHANGED <<owner, recorded, inFlight, balance, readers, monitorVars,
                     addrVars, blockAge, depth, outcome, charged, upgrades>>

\* Signing fails: the deposits of the batch stay queued.
SignFails(batch) ==
  /\ sweeper = "submit"
  /\ batch \in toSign
  /\ Sweeping(toSign \ {batch}, toSend)
  /\ UNCHANGED <<depositVars, readers, monitorVars, addrVars, blockAge,
                 chainVars, upgrades>>

\* sendTransaction returns, whatever its result.  Whether a node broadcast the
\* sweep is seen from whether it lands; it may from the moment it is recorded.
FinishSend(s) ==
  /\ s \in toSend
  /\ Sweeping(toSign, toSend \ {s})
  /\ UNCHANGED <<depositVars, readers, monitorVars, addrVars, blockAge,
                 chainVars, upgrades>>

-----------------------------------------------------------------------------
(* The timer finalize_transactions: check_sweep_transactions. *)

StartMonitor ==
  /\ monitor = "idle"
  /\ checked' = SweepsIn("swept")
  /\ monitor' = IF checked' = {} THEN "withdrawals" ELSE "height"
  /\ UNCHANGED <<depositVars, readers, sweepVars, aged, toCredit, addrVars,
                 blockAge, chainVars, upgrades>>

\* Mutant: the height is read at the confirmed commitment.
IsBlockhashExpired_Confirmed(s) == age[s] > MaxAge

\* At the finalized block, which is Lag blocks behind.
IsBlockhashExpired(s) == age[s] > MaxAge + Lag

\* The height of the finalized block is read before the statuses; without it no
\* sweep expires in this round.
ReadHeight ==
  /\ monitor = "height"
  /\ aged' = {s \in checked : IsBlockhashExpired(s)}
  /\ monitor' = "status"
  /\ UNCHANGED <<depositVars, readers, sweepVars, checked, toCredit, addrVars,
                 blockAge, chainVars, upgrades>>

ReadHeightFails ==
  /\ monitor = "height"
  /\ aged' = {}
  /\ monitor' = "status"
  /\ UNCHANGED <<depositVars, readers, sweepVars, checked, toCredit, addrVars,
                 blockAge, chainVars, upgrades>>

Finalized(s) == outcome[s] # "none" /\ depth[s] >= Lag
Unfinalized == {s \in checked : outcome[s] # "none" /\ ~Finalized(s)}

\* The assertions of finalize_swept, drop_swept and release_in_flight.
CanConclude ==
  /\ checked \subseteq SweepsIn("swept")
  /\ \A s \in checked : \A d \in Held(s) : inFlight[owner[d]] = d

\* Mutant: sweeps without a status are kept forever.
Expired_Never(missing) == {}

\* expire_transactions: the sweeps without a status that were too old before.
Expired(missing) == missing \cap aged

\* check_transaction_statuses: the chunks in answered are among the first
\* MAX_CONCURRENT_RPC_CALLS and their call succeeded.  A sweep that landed and is
\* not finalized yet may be missing from the answer (hidden).
NotFound(answered, hidden) == {s \in answered : outcome[s] = "none" \/ s \in hidden}
FinalizedAs(answered, how) == {s \in answered : Finalized(s) /\ outcome[s] = how}

\* The statuses arrive.  A sweep finalized with an error or expired is dropped, and
\* its accounts are released; one without an answer is left for a later round.
ApplyStatuses(answered, hidden) ==
  LET succeeded == FinalizedAs(answered, "ok")
      dropped == FinalizedAs(answered, "failed") \cup Expired(NotFound(answered, hidden))
  IN  /\ monitor = "status"
      /\ CanConclude
      /\ stage' = [d \in DepositId |->
                     IF sweepOf[d] \in succeeded THEN "finalized"
                     ELSE IF sweepOf[d] \in dropped THEN "dropped"
                     ELSE stage[d]]
      /\ inFlight' = [a \in Account |->
                        IF \E d \in DepositId : owner[d] = a /\ sweepOf[d] \in dropped
                        THEN 0 ELSE inFlight[a]]
      /\ monitor' = "withdrawals" /\ checked' = {} /\ aged' = {}
      /\ UNCHANGED <<owner, recorded, sweepOf, balance, readers, sweepVars,
                     toCredit, addrVars, blockAge, chainVars, upgrades>>

-----------------------------------------------------------------------------
(* The timer finalize_transactions: credit_finalized_sweeps. *)

\* The withdrawals of the round are done with: the first finalized sweeps are
\* taken in the order of their signatures, which is arbitrary.
StartCredit ==
  /\ monitor = "withdrawals"
  /\ toCredit' \in {S \in SUBSET SweepsIn("finalized") :
                      Cardinality(S) = Min({MaxRpc, Cardinality(SweepsIn("finalized"))})}
  /\ monitor' = IF toCredit' = {} THEN "idle" ELSE "credit"
  /\ UNCHANGED <<depositVars, readers, sweepVars, checked, aged, addrVars,
                 blockAge, chainVars, upgrades>>

\* Sweep::settle, for the message that Solana executed: it succeeded, and the fee
\* charged is at most the planned one.  The balances then change as planned.
Settles(s) == outcome[s] = "ok" /\ charged[s] <= PlannedFee(Held(s))

AmountReceived(s) == ExpectedReceived(recorded, Held(s))

\* The assertion of Deposits::credit_sweep and Deposits::quarantine_sweep.
CanCredit == toCredit \subseteq SweepsIn("finalized")

\* The transactions arrive, those in unread excepted, which are left for later.
CreditSweeps(unread) ==
  LET settled == {s \in toCredit \ unread : Settles(s)}
      mismatched == (toCredit \ unread) \ settled
  IN  /\ monitor = "credit"
      /\ CanCredit
      /\ stage' = [d \in DepositId |->
                     IF sweepOf[d] \in settled THEN "pending"
                     ELSE IF sweepOf[d] \in mismatched THEN "unreadable"
                     ELSE stage[d]]
      /\ balance' = balance + SumFunction([s \in settled |-> AmountReceived(s)])
      /\ monitor' = "idle" /\ toCredit' = {}
      /\ UNCHANGED <<owner, recorded, sweepOf, inFlight, readers, sweepVars,
                     checked, aged, addrVars, blockAge, chainVars, upgrades>>

-----------------------------------------------------------------------------
(* What the minting timer (module Mints) does to the deposits. *)

\* The assertion of release_in_flight.
CanRelease(d) == inFlight[owner[d]] = d

MintDeposit(d) ==
  /\ stage[d] = "pending"
  /\ CanRelease(d)
  /\ stage' = [stage EXCEPT ![d] = "minted"]
  /\ inFlight' = [inFlight EXCEPT ![owner[d]] = 0]
  /\ UNCHANGED <<owner, recorded, sweepOf, balance, readers, sweepVars,
                 monitorVars, addrVars, blockAge, chainVars, upgrades>>

\* Mutant: the quarantine releases the account.
QuarantinePendingMint_Release(d) ==
  /\ stage[d] = "pending"
  /\ stage' = [stage EXCEPT ![d] = "unresolved"]
  /\ inFlight' = [inFlight EXCEPT ![owner[d]] = 0]
  /\ UNCHANGED <<owner, recorded, sweepOf, balance, readers, sweepVars,
                 monitorVars, addrVars, blockAge, chainVars, upgrades>>

\* The account stays in flight.
QuarantinePendingMint(d) ==
  /\ stage[d] = "pending"
  /\ stage' = [stage EXCEPT ![d] = "unresolved"]
  /\ UNCHANGED <<owner, recorded, sweepOf, inFlight, balance, readers, sweepVars,
                 monitorVars, addrVars, blockAge, chainVars, upgrades>>

-----------------------------------------------------------------------------
(* Solana, users and upgrades. *)

SetBalance(a, lamports) ==
  /\ addr' = [addr EXCEPT ![a] = lamports]
  /\ past' = [past EXCEPT ![a] = @ \cup {lamports}]

Pay(a, lamports) ==
  /\ payments < MaxPayments
  /\ payments' = payments + 1
  /\ SetBalance(a, addr[a] + lamports)
  /\ paid' = [paid EXCEPT ![a] = @ + lamports]
  /\ UNCHANGED <<depositVars, readers, sweepVars, monitorVars, main, blockAge,
                 chainVars, upgrades>>

NewBlock ==
  /\ age' = [s \in Signature |-> IF Held(s) = {} THEN 0 ELSE Min({age[s] + 1, AgeCap})]
  /\ depth' = [s \in Signature |->
                 IF outcome[s] = "none" THEN 0 ELSE Min({depth[s] + 1, Lag})]
  /\ blockAge' = IF sweeper = "submit" THEN Min({blockAge + 1, AgeCap}) ELSE 0
  /\ UNCHANGED <<depositVars, readers, sweepVars, monitorVars, addrVars, outcome,
                 charged, upgrades>>

\* A sweep may land while its blockhash is recent.  Solana charges the fee fee.
CanLand(s) == Held(s) # {} /\ outcome[s] = "none" /\ age[s] <= MaxAge

\* What the deposit address of d loses to sweep s.
Debit(s, d, fee) ==
  TransferOf(recorded, Held(s), d)
    + (IF d = FeePayer(recorded, Held(s)) THEN fee ELSE 0)

\* Every address can pay and stays rent-exempt.
Executes(s, fee) == \A d \in Held(s) : addr[owner[d]] >= Debit(s, d, fee) + Rent

SweepLands(s, fee) ==
  /\ CanLand(s)
  /\ Executes(s, fee)
  /\ outcome' = [outcome EXCEPT ![s] = "ok"]
  /\ charged' = [charged EXCEPT ![s] = fee]
  /\ addr' = [a \in Account |->
                addr[a] - SumFunction([d \in {e \in Held(s) : owner[e] = a} |->
                                         Debit(s, d, fee)])]
  /\ past' = [a \in Account |-> past[a] \cup {addr'[a]}]
  /\ main' = main + ExpectedReceived(recorded, Held(s))
  /\ UNCHANGED <<depositVars, readers, sweepVars, monitorVars, paid, payments,
                 blockAge, age, depth, upgrades>>

\* The sweep lands and fails; only the fee is charged.
SweepFails(s, fee) ==
  LET payer == owner[FeePayer(recorded, Held(s))]
  IN  /\ CanLand(s)
      /\ ~Executes(s, fee)
      /\ addr[payer] >= fee + Rent
      /\ outcome' = [outcome EXCEPT ![s] = "failed"]
      /\ charged' = [charged EXCEPT ![s] = fee]
      /\ SetBalance(payer, addr[payer] - fee)
      /\ UNCHANGED <<depositVars, readers, sweepVars, monitorVars, main, paid,
                     payments, blockAge, age, depth, upgrades>>

Fees(s) == {PlannedFee(Held(s)) - 1, PlannedFee(Held(s)), PlannedFee(Held(s)) + 1}

\* An upgrade replays the events: calls, rounds and their guards are gone.
Upgrade ==
  /\ upgrades < MaxUpgrades
  /\ upgrades' = upgrades + 1
  /\ readers' = [a \in Account |-> 0]
  /\ sweeper' = "idle" /\ toSign' = {} /\ toSend' = {}
  /\ monitor' = "idle" /\ checked' = {} /\ aged' = {} /\ toCredit' = {}
  /\ blockAge' = 0
  /\ UNCHANGED <<depositVars, addrVars, chainVars>>

Next ==
  \/ \E a \in Account :
       \/ DepositSol(a)
       \/ \E bal \in past[a] : QueueDeposit(a, bal)
       \/ RefuseDeposit(a)
       \/ \E lamports \in Payments : Pay(a, lamports)
  \/ StartSweeping
  \/ FetchBlock
  \/ FetchBlockFails
  \/ \E batch \in toSign : SubmitSweep(batch) \/ SignFails(batch)
  \/ \E s \in toSend : FinishSend(s)
  \/ StartMonitor
  \/ ReadHeight
  \/ ReadHeightFails
  \/ \E answered \in SUBSET checked : \E hidden \in SUBSET (answered \cap Unfinalized) :
       ApplyStatuses(answered, hidden)
  \/ StartCredit
  \/ \E unread \in SUBSET toCredit : CreditSweeps(unread)
  \/ \E d \in DepositId : MintDeposit(d) \/ QuarantinePendingMint(d)
  \/ NewBlock
  \/ \E s \in Signature : \E fee \in Fees(s) : SweepLands(s, fee) \/ SweepFails(s, fee)
  \/ Upgrade

Spec == Init /\ [][Next]_vars

\* The statuses arrive, that of s among them.
StatusArrives(s) ==
  \E answered \in SUBSET checked : \E hidden \in SUBSET (answered \cap Unfinalized) :
    s \in answered /\ ApplyStatuses(answered, hidden)

\* The timers fire again and again, calls return, and Solana produces blocks.  A
\* read or a signature that is tried again and again succeeds in the end, and so
\* do the two reads that make a sweep expire in one round.
Fairness ==
  /\ WF_vars(StartSweeping)
  /\ SF_vars(FetchBlock)
  /\ \A d \in DepositId :
       SF_vars(\E batch \in toSign : d \in batch /\ SubmitSweep(batch))
  /\ WF_vars(\E batch \in toSign : SubmitSweep(batch) \/ SignFails(batch))
  /\ WF_vars(\E s \in toSend : FinishSend(s))
  /\ WF_vars(StartMonitor)
  /\ SF_vars(ReadHeight)
  /\ WF_vars(ApplyStatuses({}, {}))
  /\ \A s \in Signature : SF_vars(s \in aged /\ StatusArrives(s))
  /\ WF_vars(StartCredit)
  /\ SF_vars(CreditSweeps({}))
  /\ WF_vars(NewBlock)

FairSpec == Spec /\ Fairness

-----------------------------------------------------------------------------
(* Properties. *)

\* No assertion of a deposit state transition fails, although deposit_sol, the
\* two timers and the minting timer act on what they read before an await: an
\* account has nothing in flight when its balance arrives, a batch is still
\* queued when its signatures arrive, a sweep whose status or outcome arrives is
\* still where it was, and the in-flight deposit of an account is the one that
\* releases it.
NoAssertionFails ==
  /\ \A a \in Account : readers[a] > 0 => CanQueue(a)
  /\ \A batch \in toSign : CanSweep(batch)
  /\ monitor = "status" => CanConclude
  /\ monitor = "credit" => CanCredit
  /\ \A d \in In("pending") : CanRelease(d)

\* The in-flight deposit of an account is exactly its live one, so that
\* Deposits::in_flight never panics and no deposit is forgotten by its account.
InFlightIsLive ==
  /\ \A a \in Account : inFlight[a] # 0 => /\ stage[inFlight[a]] \in Live
                                           /\ owner[inFlight[a]] = a
  /\ \A d \in DepositId : stage[d] \in Live => inFlight[owner[d]] = d

\* A sweep that expire_transactions or an on-chain error drops did not move the
\* funds and never will: the account may be swept again.
DroppedNeverLands ==
  \A d \in In("dropped") : outcome[sweepOf[d]] # "ok" /\ ~CanLand(sweepOf[d])

Credited == {"pending", "unresolved", "minted"}

\* What Sweep::mints grants for the deposits in S.
Minted(S) == SumFunction([d \in S |-> MintAmount(recorded, Held(sweepOf[d]), d)])

\* What Sweep::mints grants, minted or still to be minted, is covered by the
\* balance that process_credited_sweep tracks, and that balance is on the main
\* address: the rest of it came with sweeps not credited.  Fees are not minted.
MintsAreBacked ==
  LET uncredited == {s \in Signature : /\ outcome[s] = "ok"
                                       /\ \A d \in Held(s) : stage[d] \notin Credited}
  IN  /\ Minted({d \in DepositId : stage[d] \in Credited}) <= balance
      /\ main = balance + SumFunction([s \in uncredited |->
                                         ExpectedReceived(recorded, Held(s))])

\* No account is minted more than left its deposit address, even when
\* deposit_sol queued a balance that was swept before: such a sweep fails.
MintedWasPaid ==
  \A a \in Account :
    Minted({d \in DepositId : owner[d] = a /\ stage[d] \in Credited})
      <= paid[a] - addr[a]

\* Every queued deposit leaves the sweeping for good: it becomes a pending mint,
\* is dropped so that its account may try again, or is quarantined.
QueuedIsSettled ==
  \A d \in DepositId :
    stage[d] = "queued" ~> stage[d] \in {"pending", "minted", "dropped",
                                        "unreadable", "unresolved"}

=============================================================================
