----------------------------- MODULE Withdrawals -----------------------------
(***************************************************************************)
(* The withdrawal side of the ckSOL minter: withdraw_sol, the timer        *)
(* process_pending_withdrawals, the withdrawal part of the timer           *)
(* finalize_transactions, the durable nonce pool and the upgrade, together *)
(* with what they drive: Solana's nonce accounts and main address, and the *)
(* ckSOL ledger's burns.                                                   *)
(*                                                                         *)
(* Every await of the code ends an action: the continuation of a call is   *)
(* an action of its own, so the two timers, the endpoint, Solana and an    *)
(* upgrade interleave as they do on the Internet Computer.  An assertion   *)
(* of a state transition (a panic marked BUG) is a conjunct of its action: *)
(* when it fails the canister traps and the step is rolled back.  That     *)
(* none ever fails is the invariant NoAssertionFails.                      *)
(*                                                                         *)
(* A nonce value is the number of times its account was advanced.  A       *)
(* message is the account and value it advances and the burn indices it    *)
(* serves, since each burn index stands for one destination and amount.    *)
(***************************************************************************)
EXTENDS WithdrawalBatches

CONSTANTS
  Account,      \* addresses of durable nonce accounts, ordered as numbers
  Burn,         \* burn block indices of the ledger, in ledger order
  Amounts,      \* amounts to transfer that a request may have
  SweepAmount,  \* lamports a deposit sweep brings to the main address
  MaxRpc,       \* MAX_CONCURRENT_RPC_CALLS
  MaxSign,      \* MAX_CONCURRENT_SIGNATURES
  MaxSweeps,    \* bound: deposit sweeps that land
  MaxUpgrades   \* bound: upgrades of the minter

ASSUME WithdrawalsAssumption ==
  /\ Account \subseteq Nat /\ IsFiniteSet(Account)
  /\ Burn \subseteq Nat /\ IsFiniteSet(Burn)
  /\ Amounts \subseteq Nat
  /\ SweepAmount \in Nat
  /\ MaxRpc \in Nat /\ MaxSign \in Nat \ {0} /\ MaxSign <= MaxRpc
  /\ MaxSweeps \in Nat /\ MaxUpgrades \in Nat

VARIABLES
  \* State of the minter that the event log restores after an upgrade.
  status,      \* where each burn index is in its life
  amount,      \* amount_to_transfer of each burn index
  balance,     \* tracked balance of the main address
  pool,        \* accounts in the nonce pool
  bound,       \* those that are Bound
  seen,        \* seen_nonce_values of each account
  created,     \* created_withdrawal_txs: bindings not yet signed
  submitted,   \* submitted_transactions: signed and not yet finalized
  \* Round of process_pending_withdrawals, lost by an upgrade.
  stage,       \* "idle", "create", "sign" or "send"
  reserved,    \* batches whose nonce read is in flight
  toSign,      \* bindings whose signature is in flight
  toSend,      \* signed transactions whose sendTransaction is in flight
  \* Round of finalize_transactions, lost by an upgrade.
  monitor,     \* "idle", "read", "resubmit" or "finalize"
  toRead,      \* withdrawals whose nonce read is in flight
  unchanged,   \* read with the bound value: to be broadcast again
  advanced,    \* read with a value never seen: outcome to be fetched
  \* Solana and the ledger.
  nonce,       \* finalized nonce value of each account
  network,     \* signed transactions that some RPC node received
  landed,      \* finalized transactions with their outcome
  main,        \* lamports of the main address
  uncredited,  \* swept to the main address, not yet credited by the minter
  \* History and bounds.
  requested,   \* every message whose threshold signature was requested
  signatures,  \* threshold signatures recorded so far
  sweeps, upgrades

ledgerVars  == <<status, amount>>
poolVars    == <<pool, bound, seen>>
txVars      == <<created, submitted>>
roundVars   == <<stage, reserved, toSign, toSend>>
monitorVars == <<monitor, toRead, unchanged, advanced>>
chainVars   == <<nonce, landed, main, uncredited, sweeps>>
vars == <<ledgerVars, balance, poolVars, txVars, roundVars, monitorVars,
          chainVars, network, requested, signatures, upgrades>>

Status == {"none", "burned", "lost", "pending", "created", "sent",
           "successful", "failed"}
Final  == {"successful", "failed"}

Message == [account : Account, nonce : Nat, burns : SUBSET Burn]
Transaction ==
  [account : Account, nonce : Nat, burns : SUBSET Burn, sig : Nat]

MessageOf(t) == [account |-> t.account, nonce |-> t.nonce, burns |-> t.burns]

Pending  == {b \in Burn : status[b] = "pending"}
Cost(t)  == Total(amount, t.burns) + Fee
Marked(burns, s) == [b \in Burn |-> IF b \in burns THEN s ELSE status[b]]

Init ==
  /\ status = [b \in Burn |-> "none"]
  /\ amount = [b \in Burn |-> 0]
  /\ balance = 0
  /\ pool \in SUBSET Account
  /\ bound = {}
  /\ seen = [a \in Account |-> {}]
  /\ created = {} /\ submitted = {}
  /\ stage = "idle" /\ reserved = {} /\ toSign = {} /\ toSend = {}
  /\ monitor = "idle" /\ toRead = {} /\ unchanged = {} /\ advanced = {}
  /\ nonce = [a \in Account |-> 0]
  /\ network = {} /\ landed = {}
  /\ main = 0 /\ uncredited = 0
  /\ requested = {} /\ signatures = 0 /\ sweeps = 0 /\ upgrades = 0

(***************************************************************************)
(* withdraw_sol                                                            *)
(***************************************************************************)

\* The burn of withdraw_sol executes at the ledger.  The endpoint has checked
\* the amount and destination and that the pool is not empty; the pool only
\* grows, so the check still holds here.
LedgerBurn(x) ==
  /\ pool # {}
  /\ \E b \in Burn :
       /\ status[b] = "none"
       /\ \A c \in Burn : c < b => status[c] # "none"
       /\ status' = [status EXCEPT ![b] = "burned"]
       /\ amount' = [amount EXCEPT ![b] = x]
  /\ UNCHANGED <<balance, poolVars, txVars, roundVars, monitorVars,
                 chainVars, network, requested, signatures, upgrades>>

\* The reply of the burn arrives and AcceptedWithdrawalRequest is recorded.
\* Replies may arrive in another order than the burns.
WithdrawAccepted(b) ==
  /\ status[b] = "burned"
  /\ status' = [status EXCEPT ![b] = "pending"]
  /\ UNCHANGED <<amount, balance, poolVars, txVars, roundVars, monitorVars,
                 chainVars, network, requested, signatures, upgrades>>

(***************************************************************************)
(* process_pending_withdrawals                                             *)
(***************************************************************************)

\* Mutant: a bound account is offered to the next batch.
FreeAccounts_Bound == pool

FreeAccounts == pool \ bound

\* create_transactions_batch: the k-th free account serves the k-th batch.
\* No more bindings are created than one round signs.
MaxBatches ==
  Min({MaxRpc, IF MaxSign > Cardinality(created)
                 THEN MaxSign - Cardinality(created) ELSE 0})

BatchFor(a) == Batch(Pending, amount, balance, Rank(FreeAccounts, a))

ReservedBatches ==
  {[account |-> a, burns |-> BatchFor(a)] :
     a \in {c \in FreeAccounts : /\ Rank(FreeAccounts, c) <= MaxBatches
                                /\ BatchFor(c) # {}}}

\* Mutant: an unsigned message is rebuilt with the requests pending by now.
BoundWithdrawals_Refilled(cs) ==
  {[c EXCEPT !.burns = @ \cup Pending] : c \in cs}

\* bound_withdrawals: the bindings signed in one round, lowest burn index
\* first.  Their messages are rebuilt from the bindings, not read again.
BoundWithdrawals(cs) ==
  {c \in cs : Cardinality({d \in cs : Min(d.burns) < Min(c.burns)}) < MaxSign}

\* Mutant: only the bindings of this round are signed.
EnterSign_NewOnly(cs) ==
  /\ toSign' = BoundWithdrawals(cs \ created)
  /\ stage' = IF toSign' = {} THEN "idle" ELSE "sign"
  /\ requested' = requested \cup toSign'

\* The creation stage is over and the signatures are requested, in the same
\* message execution as the last step of the creation stage.
EnterSign(cs) ==
  /\ toSign' = BoundWithdrawals(cs)
  /\ stage' = IF toSign' = {} THEN "idle" ELSE "sign"
  /\ requested' = requested \cup toSign'

\* The timer fires while no other round runs (TimerGuard) and reserves free
\* accounts and batches before its first await.  It may find nothing to do.
StartRound ==
  /\ stage = "idle"
  /\ reserved' = ReservedBatches
  /\ IF reserved' = {}
       THEN EnterSign(created)
       ELSE stage' = "create" /\ UNCHANGED <<toSign, requested>>
  /\ UNCHANGED <<ledgerVars, balance, poolVars, txVars, toSend, monitorVars,
                 chainVars, network, signatures, upgrades>>

FinishCreate ==
  IF reserved' = {} THEN EnterSign(created') ELSE UNCHANGED <<stage, toSign, requested>>

\* create_transaction gives up: the read fails, or returns a value already
\* bound to an earlier transaction of the account.
SkipBatch(r) ==
  /\ stage = "create" /\ r \in reserved
  /\ reserved' = reserved \ {r}
  /\ UNCHANGED created
  /\ FinishCreate
  /\ UNCHANGED <<ledgerVars, balance, poolVars, submitted, toSend,
                 monitorVars, chainVars, network, signatures, upgrades>>

\* The assertions of process_transaction_created and DurableNoncePool::bind.
CanCreate(r) ==
  /\ r.account \notin bound
  /\ \A c \in created : c.account # r.account
  /\ \A b \in r.burns : status[b] = "pending"
  /\ balance >= Cost(r)

\* create_transaction reads value v and binds it: the read is any value the
\* account ever had, since a lagging provider may answer with an old one.
CreateTransaction(r, v) ==
  /\ stage = "create" /\ r \in reserved
  /\ v \in 0..nonce[r.account]
  /\ v \notin seen[r.account]
  /\ CanCreate(r)
  /\ bound' = bound \cup {r.account}
  /\ seen' = [seen EXCEPT ![r.account] = @ \cup {v}]
  /\ status' = Marked(r.burns, "created")
  /\ balance' = balance - Cost(r)
  /\ created' = created \cup
       {[account |-> r.account, nonce |-> v, burns |-> r.burns]}
  /\ reserved' = reserved \ {r}
  /\ FinishCreate
  /\ UNCHANGED <<amount, pool, submitted, toSend, monitorVars,
                 chainVars, network, signatures, upgrades>>

\* After the last signature all signed transactions are sent; the round is
\* over when there is none.
FinishSign ==
  stage' = IF toSign' # {} THEN "sign" ELSE IF toSend' # {} THEN "send" ELSE "idle"

\* sign_transaction fails: the binding stays and is signed again next round.
SignFails(m) ==
  /\ stage = "sign" /\ m \in toSign
  /\ toSign' = toSign \ {m}
  /\ UNCHANGED toSend
  /\ FinishSign
  /\ UNCHANGED <<ledgerVars, balance, poolVars, txVars, reserved, monitorVars,
                 chainVars, network, requested, signatures, upgrades>>

\* The assertions of process_transaction_submitted and send_nonce_withdrawal:
\* the message is the one rebuilt from the binding of its account.
CanSubmit(m) ==
  /\ m \in created
  /\ \A b \in m.burns : status[b] = "created"

\* sign_transaction succeeds and records SubmittedTransaction before sending.
SignTransaction(m) ==
  /\ stage = "sign" /\ m \in toSign
  /\ CanSubmit(m)
  /\ signatures' = signatures + 1
  /\ LET t == [account |-> m.account, nonce |-> m.nonce,
               burns |-> m.burns, sig |-> signatures']
     IN /\ submitted' = submitted \cup {t}
        /\ toSend' = toSend \cup {t}
  /\ created' = created \ {m}
  /\ status' = Marked(m.burns, "sent")
  /\ toSign' = toSign \ {m}
  /\ FinishSign
  /\ UNCHANGED <<amount, balance, poolVars, reserved, monitorVars,
                 chainVars, network, requested, upgrades>>

\* send_transaction: the RPC nodes may or may not receive it, whatever the
\* reply says.
SendTransaction(t) ==
  /\ stage = "send" /\ t \in toSend
  /\ toSend' = toSend \ {t}
  /\ stage' = IF toSend' = {} THEN "idle" ELSE "send"
  /\ network' \in {network, network \cup {t}}
  /\ UNCHANGED <<ledgerVars, balance, poolVars, txVars, reserved, toSign,
                 monitorVars, chainVars, requested, signatures, upgrades>>

(***************************************************************************)
(* finalize_transactions, the part that settles withdrawals                *)
(***************************************************************************)

\* read_in_flight_nonces reads the account of every submitted withdrawal.
StartMonitor ==
  /\ monitor = "idle" /\ submitted # {}
  /\ monitor' = "read"
  /\ toRead' = submitted
  /\ UNCHANGED <<ledgerVars, balance, poolVars, txVars, roundVars, unchanged,
                 advanced, chainVars, network, requested, signatures,
                 upgrades>>

MonitorStage(resend, settle) ==
  IF resend # {} THEN "resubmit" ELSE IF settle # {} THEN "finalize" ELSE "idle"

FinishRead(same, moved) ==
  /\ unchanged' = same
  /\ advanced' = moved
  /\ monitor' = IF toRead' # {} THEN "read" ELSE MonitorStage(same, moved)

\* read_nonce fails: the withdrawal stays undecided in this round.
ReadFails(t) ==
  /\ monitor = "read" /\ t \in toRead
  /\ toRead' = toRead \ {t}
  /\ FinishRead(unchanged, advanced)
  /\ UNCHANGED <<ledgerVars, balance, poolVars, txVars, roundVars,
                 chainVars, network, requested, signatures, upgrades>>

\* DurableNoncePool::classify_read
ClassifyRead(a, boundValue, v) ==
  IF v = boundValue THEN "unchanged"
  ELSE IF v \in seen[a] THEN "stale" ELSE "advanced"

\* read_nonce returns v, which may be any value the account ever had.
ReadNonce(t, v) ==
  /\ monitor = "read" /\ t \in toRead
  /\ v \in 0..nonce[t.account]
  /\ toRead' = toRead \ {t}
  /\ LET read == ClassifyRead(t.account, t.nonce, v)
     IN FinishRead(unchanged \cup {u \in {t} : read = "unchanged"},
                   advanced \cup {u \in {t} : read = "advanced"})
  /\ UNCHANGED <<ledgerVars, balance, poolVars, txVars, roundVars,
                 chainVars, network, requested, signatures, upgrades>>

\* Mutant: a withdrawal that did not land is given up as expired, its requests
\* are queued again and its account is freed.
Rebroadcast_Expire(t) ==
  /\ monitor = "resubmit" /\ t \in unchanged
  /\ unchanged' = unchanged \ {t}
  /\ monitor' = MonitorStage(unchanged', advanced)
  /\ submitted' = submitted \ {t}
  /\ bound' = bound \ {t.account}
  /\ status' = Marked(t.burns, "pending")
  /\ balance' = balance + Cost(t)
  /\ UNCHANGED <<amount, pool, seen, created, roundVars, toRead, advanced,
                 chainVars, network, requested, signatures, upgrades>>

\* rebroadcast sends the recorded transaction again, unchanged.  It does not
\* reach the network when the call fails or the transaction is too young (its
\* age is not modelled).
Rebroadcast(t) ==
  /\ monitor = "resubmit" /\ t \in unchanged
  /\ unchanged' = unchanged \ {t}
  /\ monitor' = MonitorStage(unchanged', advanced)
  /\ network' \in {network, network \cup {t}}
  /\ UNCHANGED <<ledgerVars, balance, poolVars, txVars, roundVars, toRead,
                 advanced, chainVars, requested, signatures, upgrades>>

\* Mutant: a transaction that is not found counts as never landed, and its
\* requests are queued again.
OutcomeUnresolved_Requeue(t) ==
  /\ monitor = "finalize" /\ t \in advanced
  /\ advanced' = advanced \ {t}
  /\ monitor' = MonitorStage({}, advanced')
  /\ submitted' = submitted \ {t}
  /\ bound' = bound \ {t.account}
  /\ status' = Marked(t.burns, "pending")
  /\ UNCHANGED <<amount, balance, pool, seen, created, roundVars, toRead,
                 unchanged, chainVars, network, requested, signatures, upgrades>>

\* getTransaction finds nothing, fails or cannot be read: nothing is recorded.
OutcomeUnresolved(t) ==
  /\ monitor = "finalize" /\ t \in advanced
  /\ advanced' = advanced \ {t}
  /\ monitor' = MonitorStage({}, advanced')
  /\ UNCHANGED <<ledgerVars, balance, poolVars, txVars, roundVars, toRead,
                 unchanged, chainVars, network, requested, signatures,
                 upgrades>>

\* The assertions of process_transaction_succeeded and _failed and of
\* DurableNoncePool::free.
CanFinalize(t) == t \in submitted /\ t.account \in bound

\* Mutant: a landed transaction counts as paid whatever its error.
OutcomeStatus_Landed(ok) == "successful"

OutcomeStatus(ok) == IF ok THEN "successful" ELSE "failed"

\* finalize_landed_withdrawal finds the transaction by its signature and
\* records SucceededTransaction or FailedTransaction.
FinalizeLanded(t, ok) ==
  /\ monitor = "finalize" /\ t \in advanced
  /\ \E l \in landed : l.tx.sig = t.sig /\ l.ok = ok
  /\ CanFinalize(t)
  /\ submitted' = submitted \ {t}
  /\ bound' = bound \ {t.account}
  /\ status' = Marked(t.burns, OutcomeStatus(ok))
  /\ advanced' = advanced \ {t}
  /\ monitor' = MonitorStage({}, advanced')
  /\ UNCHANGED <<amount, balance, pool, seen, created, roundVars, toRead,
                 unchanged, chainVars, network, requested,
                 signatures, upgrades>>

(***************************************************************************)
(* Solana                                                                  *)
(***************************************************************************)

\* A received transaction lands while its nonce account stores its value.
\* The advance and the fee persist even when its transfers fail, which they
\* do when the main address cannot pay or would drop below the rent
\* exemption, and may do because of a destination.
Land(t, ok) ==
  /\ t \in network
  /\ t.nonce = nonce[t.account]
  /\ main >= Fee
  /\ ok => main >= Cost(t) + Rent
  /\ nonce' = [nonce EXCEPT ![t.account] = @ + 1]
  /\ landed' = landed \cup {[tx |-> t, ok |-> ok]}
  /\ main' = main - (IF ok THEN Cost(t) ELSE Fee)
  /\ UNCHANGED <<ledgerVars, balance, poolVars, txVars, roundVars, monitorVars,
                 uncredited, sweeps, network, requested, signatures,
                 upgrades>>

\* A deposit sweep lands on the main address.
SweepLands ==
  /\ sweeps < MaxSweeps
  /\ sweeps' = sweeps + 1
  /\ main' = main + SweepAmount
  /\ uncredited' = uncredited + SweepAmount
  /\ UNCHANGED <<ledgerVars, balance, poolVars, txVars, roundVars, monitorVars,
                 nonce, landed, network, requested, signatures,
                 upgrades>>

\* Mutant: a sweep stays eligible after it was credited.
CreditSweep_Twice ==
  /\ uncredited > 0
  /\ balance' = balance + SweepAmount
  /\ UNCHANGED <<ledgerVars, poolVars, txVars, roundVars, monitorVars,
                 chainVars, network, requested, signatures, upgrades>>

\* process_credited_sweep: the minter credits a finalized sweep.
CreditSweep ==
  /\ uncredited > 0
  /\ balance' = balance + SweepAmount
  /\ uncredited' = uncredited - SweepAmount
  /\ UNCHANGED <<ledgerVars, poolVars, txVars, roundVars, monitorVars,
                 nonce, landed, main, sweeps, network, requested, signatures,
                 upgrades>>

(***************************************************************************)
(* Upgrade                                                                 *)
(***************************************************************************)

\* DurableNoncePool::add_accounts: the pool only grows.
AddAccounts(added) == pool \cup added

\* Mutant: the replay drops the transactions in flight and queues their
\* requests again.
Upgrade_DropInFlight(added) ==
  /\ upgrades < MaxUpgrades
  /\ upgrades' = upgrades + 1
  /\ pool' = AddAccounts(added)
  /\ status' = [b \in Burn |-> IF status[b] = "burned" THEN "lost"
                               ELSE IF status[b] \in {"created", "sent"}
                                 THEN "pending" ELSE status[b]]
  /\ created' = {} /\ submitted' = {}
  /\ stage' = "idle" /\ reserved' = {} /\ toSign' = {} /\ toSend' = {}
  /\ monitor' = "idle" /\ toRead' = {} /\ unchanged' = {} /\ advanced' = {}
  /\ UNCHANGED <<amount, balance, bound, seen, chainVars, network, requested,
                 signatures>>

\* The state is replayed from the event log and the accounts in `added` join
\* the pool.  Running rounds and endpoint calls are lost; a transaction whose
\* sendTransaction was in flight may still reach the network.
Upgrade(added) ==
  /\ upgrades < MaxUpgrades
  /\ upgrades' = upgrades + 1
  /\ pool' = AddAccounts(added)
  /\ status' = [b \in Burn |-> IF status[b] = "burned" THEN "lost" ELSE status[b]]
  /\ stage' = "idle" /\ reserved' = {} /\ toSign' = {} /\ toSend' = {}
  /\ monitor' = "idle" /\ toRead' = {} /\ unchanged' = {} /\ advanced' = {}
  /\ \E sent \in SUBSET (toSend \cup {t \in unchanged : monitor = "resubmit"}) :
       network' = network \cup sent
  /\ UNCHANGED <<amount, balance, bound, seen, txVars, chainVars,
                 requested, signatures>>

Next ==
  \/ \E x \in Amounts : LedgerBurn(x)
  \/ \E b \in Burn : WithdrawAccepted(b)
  \/ StartRound
  \/ \E r \in reserved : SkipBatch(r)
  \/ \E r \in reserved : \E v \in 0..nonce[r.account] : CreateTransaction(r, v)
  \/ \E m \in toSign : SignFails(m) \/ SignTransaction(m)
  \/ \E t \in toSend : SendTransaction(t)
  \/ StartMonitor
  \/ \E t \in toRead : ReadFails(t)
  \/ \E t \in toRead : \E v \in 0..nonce[t.account] : ReadNonce(t, v)
  \/ \E t \in unchanged : Rebroadcast(t)
  \/ \E t \in advanced : OutcomeUnresolved(t)
  \/ \E t \in advanced, ok \in BOOLEAN : FinalizeLanded(t, ok)
  \/ \E t \in network, ok \in BOOLEAN : Land(t, ok)
  \/ SweepLands
  \/ CreditSweep
  \/ \E added \in SUBSET (Account \ pool) : Upgrade(added)

Spec == Init /\ [][Next]_vars

\* Fairness.  Timers fire again and again and a continuation is eventually
\* run (weak fairness); a call that is retried in every round eventually gets
\* through for each account (strong fairness: the rounds in between disable
\* it); Solana eventually includes a transaction that a node received; and
\* the deposits that back the supply are eventually swept and credited.
Fairness ==
  /\ \A b \in Burn : WF_vars(WithdrawAccepted(b))
  /\ WF_vars(StartRound)
  /\ WF_vars(\E r \in reserved : SkipBatch(r))
  /\ WF_vars(\E m \in toSign : SignFails(m))
  /\ WF_vars(\E t \in toSend : SendTransaction(t))
  /\ WF_vars(StartMonitor)
  /\ WF_vars(\E t \in toRead : ReadFails(t))
  /\ WF_vars(\E t \in unchanged : Rebroadcast(t))
  /\ WF_vars(\E t \in advanced : OutcomeUnresolved(t))
  /\ WF_vars(\E t \in network, ok \in BOOLEAN : Land(t, ok))
  /\ WF_vars(SweepLands)
  /\ WF_vars(CreditSweep)
  /\ \A a \in Account :
       /\ SF_vars(\E r \in reserved : r.account = a /\
                     \E v \in 0..nonce[a] : CreateTransaction(r, v))
       /\ SF_vars(\E m \in toSign : m.account = a /\ SignTransaction(m))
       /\ SF_vars(\E t \in toRead : t.account = a /\ ReadNonce(t, nonce[a]))
       /\ SF_vars(\E t \in unchanged : /\ t.account = a
                                       /\ Rebroadcast(t) /\ t \in network')
       /\ SF_vars(\E t \in advanced, ok \in BOOLEAN :
                     t.account = a /\ FinalizeLanded(t, ok))

FairSpec == Spec /\ Fairness

(***************************************************************************)
(* Properties                                                              *)
(***************************************************************************)

\* The variables have their types; a bound account is one of the pool, which
\* never shrinks (DurableNoncePool::add_accounts).
TypeOK ==
  /\ status \in [Burn -> Status]
  /\ amount \in [Burn -> Nat]
  /\ pool \subseteq Account /\ bound \subseteq pool
  /\ seen \in [Account -> SUBSET Nat]
  /\ created \subseteq Message /\ submitted \subseteq Transaction
  /\ stage \in {"idle", "create", "sign", "send"}
  /\ reserved \subseteq [account : Account, burns : SUBSET Burn]
  /\ toSign \subseteq Message /\ toSend \subseteq Transaction
  /\ monitor \in {"idle", "read", "resubmit", "finalize"}
  /\ toRead \subseteq Transaction /\ unchanged \subseteq Transaction
  /\ advanced \subseteq Transaction
  /\ nonce \in [Account -> Nat]
  /\ network \subseteq Transaction
  /\ landed \subseteq [tx : Transaction, ok : BOOLEAN]
  /\ requested \subseteq Message
  /\ signatures \in Nat /\ sweeps \in 0..MaxSweeps /\ upgrades \in 0..MaxUpgrades

\* No withdrawal request is paid twice on Solana, whatever reads are stale,
\* calls fail, transactions are re-signed or broadcast again, or upgrades
\* interrupt a round.
PaidAtMostOnce ==
  \A l, m \in landed :
    l.ok /\ m.ok /\ l.tx.burns \cap m.tx.burns # {} => l = m

\* Two different messages are never sent to threshold signing for the same
\* value of the same nonce account, also when signing failed or was
\* interrupted by an upgrade in between.
OneMessagePerNonceValue ==
  \A m, n \in requested :
    m.account = n.account /\ m.nonce = n.nonce => m = n

\* withdraw_sol_status tells the truth: a request reported as successful was
\* paid on Solana, and one reported as failed was refused there and is not
\* paid by any transaction.
OutcomeReported ==
  \A b \in Burn :
    /\ status[b] = "successful" => \E l \in landed : l.ok /\ b \in l.tx.burns
    /\ status[b] = "failed" =>
         /\ \E l \in landed : ~l.ok /\ b \in l.tx.burns
         /\ \A l \in landed : b \in l.tx.burns => ~l.ok

\* An account of the pool is Bound exactly when a transaction, created or
\* submitted, occupies it, and no account is occupied by two.
BoundToOneTransaction ==
  /\ bound = {c.account : c \in created \cup submitted}
  /\ \A c, d \in created \cup submitted : c.account = d.account => c = d

\* A transaction that can still land is one the minter is tracking as
\* submitted: a free account has no transaction left that could land on it.
OnlySubmittedCanLand ==
  \A t \in network : t.nonce = nonce[t.account] => t \in submitted

\* None of the assertions on the minter's state transitions can fail when the
\* continuation that makes the transition runs, whatever happened since the
\* round chose the batch, the binding or the transaction.
NoAssertionFails ==
  /\ \A r \in reserved : CanCreate(r)
  /\ \A m \in toSign : CanSubmit(m)
  /\ \A t \in advanced : CanFinalize(t)

LandedSigs == {l.tx.sig : l \in landed}
Unlanded   == {t \in submitted : t.sig \notin LandedSigs}
Failures   == {l \in landed : ~l.ok}

\* What a set of transactions spends when they land, and the transfers that
\* Solana refused.
Costs(txs)  == SumFunction([t \in txs |-> Cost(t)])
Refused(ls) == SumFunction([l \in ls |-> Total(amount, l.tx.burns)])

\* No lamport count is negative, and the lamports on the main address are
\* exactly the balance that process_transaction_created debits, plus sweeps
\* not yet credited, plus what unlanded transactions will spend, plus the
\* transfers of transactions that failed on Solana (never given back to
\* the tracked balance).
BalanceAccounted ==
  /\ {balance, uncredited, main} \subseteq Nat
  /\ main = balance + uncredited
            + Costs(created) + Costs(Unlanded) + Refused(Failures)

\* A transaction that can land finds a main address that pays for it and
\* keeps the rent exemption, so Solana never fails it for lack of funds.
LandingIsFunded ==
  \A t \in network : t.nonce = nonce[t.account] => main >= Cost(t) + Rent

\* Every accepted withdrawal request is eventually settled.
AcceptedIsSettled ==
  \A b \in Burn : status[b] = "pending" ~> status[b] \in Final

\* The refinement: what Solana did with each request, and what is reported.
Executions(b) == {l \in landed : b \in l.tx.burns}
PayoutPhase(b) ==
  CASE status[b] = "none"       -> "unrequested"
    [] status[b] = "burned"     -> "requested"
    [] status[b] = "lost"       -> "lost"
    [] status[b] = "successful" -> "reportedPaid"
    [] status[b] = "failed"     -> "reportedRefused"
    [] status[b] \in {"pending", "created", "sent"} ->
         IF Executions(b) = {} THEN "owed"
         ELSE IF \E l \in Executions(b) : l.ok THEN "paid" ELSE "refused"

PayoutsOf == INSTANCE Payouts WITH
  phase    <- [b \in Burn |-> PayoutPhase(b)],
  payments <- [b \in Burn |-> {l.tx.sig : l \in {e \in Executions(b) : e.ok}}]

\* The withdrawal side implements the promise of module Payouts.
ImplementsPayouts == PayoutsOf!Spec
=============================================================================
