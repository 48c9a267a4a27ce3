---------------------------- MODULE ProviderReads -----------------------------
(***************************************************************************)
(* What the minter concludes from Solana providers that lag or lie.  Every *)
(* read goes to four providers through the SOL RPC canister, which returns *)
(* an answer only if three of them gave it.  A provider that is not faulty *)
(* may be behind: it answers with any finalized state up to the present    *)
(* one.  A faulty one answers anything.  The module follows a withdrawal   *)
(* (read of its nonce account, then getTransaction), a sweep               *)
(* (getSignatureStatuses, then getTransaction) to the event that the       *)
(* minter records, or the balance read of deposit_sol: one of the three in *)
(* a behaviour, as they share nothing.  The providers are counted, not     *)
(* named.  The clock of the sweep's expiry is in DepositSweeps.            *)
(***************************************************************************)
EXTENDS Naturals, FiniteSets

CONSTANTS
  Providers,      \* number of providers asked
  Threshold,      \* equal answers needed
  MaxFaulty,      \* bound: number of faulty providers
  Deposits        \* balances that the deposit address may get, one after the other

VARIABLES
  faulty,     \* number of faulty providers
  flow,       \* "withdrawal", "sweep" or "deposit"
  chain,      \* finalized outcome of the transaction on Solana
  balance,    \* finalized balance of the deposit address
  read,       \* the read in progress, or NoRead
  recorded,   \* what the minter has recorded of the transaction
  nonceRead,  \* the last nonce read: "Unchanged", "Stale", "Advanced" or "Failed"
  queued,     \* balance with which a deposit was queued, or 0
  reason      \* last failed_credit_attempts reason, or "-"

vars == <<faulty, flow, chain, balance, read, recorded, nonceRead, queued, reason>>

Outcomes == {"ok", "err"}
NoRead == [method |-> "-"]

\* The values of the nonce account: one of an earlier transaction, the one bound
\* to the withdrawal, the one after it, and one that the account never has.
Seen == {0, 1}
Bound == 1
NonceValue == IF chain = "absent" THEN 1 ELSE 2

Init ==
  /\ faulty \in 0 .. MaxFaulty
  /\ flow \in {"withdrawal", "sweep", "deposit"}
  /\ chain = "absent"
  /\ balance = 0
  /\ read = NoRead
  /\ recorded = "Submitted"
  /\ nonceRead = "Failed" /\ queued = 0 /\ reason = "-"

-------------------------------------------------------------------------------
(* Solana. *)

Land(outcome) ==
  /\ flow # "deposit" /\ chain = "absent"
  /\ chain' = outcome
  /\ UNCHANGED <<faulty, flow, balance, read, recorded, nonceRead, queued, reason>>

Pay ==
  /\ flow = "deposit" /\ balance < Deposits
  /\ balance' = balance + 1
  /\ UNCHANGED <<faulty, flow, chain, read, recorded, nonceRead, queued, reason>>

-------------------------------------------------------------------------------
(* Answers.  Those of getAccountInfo and getTransaction tell apart what the *)
(* minter's checks tell apart.  A message that the signature does not sign   *)
(* cannot be made to verify.                                                 *)

NonceAccount(authority, nonce) == [kind |-> "nonce", authority |-> authority, nonce |-> nonce]
OtherAccount(kind) == [kind |-> kind]

\* first is the first signature, signs the message that it signs.  The metadata may be
\* missing, or be that of a success and list too few balances ("partial").
Fetched(first, signs, message, meta) ==
  [kind |-> "transaction", first |-> first, signs |-> signs, message |-> message, meta |-> meta]

Confirmed == [kind |-> "confirmed"]
FinalizedAs(outcome) == [kind |-> "finalized", meta |-> outcome]
Lamports(b) == [kind |-> "balance", lamports |-> b]

RpcError == [kind |-> "rpc error"]
NotFound == [kind |-> "none"]

\* The results of a call whose answers do not agree, and of one that fails.
Inconsistent == [kind |-> "inconsistent"]
IcError == [kind |-> "ic error"]

\* What a provider may answer that is not faulty, but behind.
HonestAnswers(method) ==
  {RpcError} \cup
  CASE method = "getAccountInfo" -> {NonceAccount("minter", v) : v \in 0 .. NonceValue}
    [] method = "getTransaction" ->
         {NotFound} \cup
         IF chain = "absent" THEN {}
         ELSE {Fetched("queried", "submitted", "submitted", m) :
                 m \in {chain, "missing"} \cup IF chain = "ok" THEN {"partial"} ELSE {}}
    [] method = "getSignatureStatuses" ->
         {NotFound, Confirmed} \cup IF chain = "absent" THEN {} ELSE {FinalizedAs(chain)}
    [] method = "getBalance" -> {Lamports(b) : b \in 0 .. balance}

\* What a faulty provider may answer.
FaultyAnswers(method) ==
  {RpcError, NotFound} \cup
  CASE method = "getAccountInfo" ->
         {NonceAccount(a, v) : a \in {"minter", "other"}, v \in 0 .. 3}
         \cup {OtherAccount(k) : k \in {"foreign", "undecodable", "legacy", "uninitialized"}}
    [] method = "getTransaction" ->
         {Fetched("queried", "submitted", "submitted", m) : m \in Outcomes \cup {"missing", "partial"}}
         \cup {Fetched("queried", "submitted", "other", "ok"), Fetched("other", "other", "other", "ok"),
               OtherAccount("undecodable")}
    [] method = "getSignatureStatuses" ->
         {Confirmed} \cup {FinalizedAs(o) : o \in Outcomes}
    [] method = "getBalance" -> {Lamports(b) : b \in 0 .. Deposits}

-------------------------------------------------------------------------------
(* Calls. *)

Ask(method) ==
  /\ read = NoRead
  /\ read' = [method |-> method, answers |-> [a \in {} |-> 0], honest |-> Providers - faulty,
              faulty |-> faulty]
  /\ UNCHANGED <<faulty, flow, chain, balance, recorded, nonceRead, queued, reason>>

\* read_nonce, for a withdrawal in flight.
AskNonce == flow = "withdrawal" /\ recorded = "Submitted" /\ Ask("getAccountInfo")

\* finalize_landed_withdrawal, once the nonce was seen advanced.
AskOutcome ==
  /\ flow = "withdrawal" /\ recorded = "Submitted" /\ nonceRead = "Advanced"
  /\ Ask("getTransaction")

\* check_transaction_statuses and credit_finalized_sweeps.
AskStatus == flow = "sweep" /\ recorded = "Submitted" /\ Ask("getSignatureStatuses")
AskSweep == flow = "sweep" /\ recorded = "Succeeded" /\ Ask("getTransaction")

\* deposit_sol.
AskBalance == flow = "deposit" /\ queued = 0 /\ Ask("getBalance")

Count(answers, a) == IF a \in DOMAIN answers THEN answers[a] ELSE 0

\* One provider answers.
Answer(kind, a) ==
  /\ read # NoRead
  /\ read[kind] > 0
  /\ read' = [read EXCEPT
       ![kind] = @ - 1,
       !.answers = [b \in DOMAIN @ \cup {a} |-> Count(@, b) + IF a = b THEN 1 ELSE 0]]
  /\ UNCHANGED <<faulty, flow, chain, balance, recorded, nonceRead, queued, reason>>

HonestAnswer == read # NoRead /\ \E a \in HonestAnswers(read.method) : Answer("honest", a)
FaultyAnswer == read # NoRead /\ \E a \in FaultyAnswers(read.method) : Answer("faulty", a)

\* The answers on which enough providers agree.
Agreed(answers) == {a \in DOMAIN answers : answers[a] >= Threshold}

-------------------------------------------------------------------------------
(* What the minter makes of an answer. *)

\* The result of the call: the agreed answer, or an error.
Result ==
  IF Agreed(read.answers) = {} THEN Inconsistent
  ELSE CHOOSE a \in Agreed(read.answers) : TRUE

RpcFailure == {"rpc error", "inconsistent", "ic error"}

\* NonceAccount::try_from and read_verified_nonce: the value, or none.
ReadVerifiedNonce(r) ==
  IF r.kind = "nonce" /\ r.authority = "minter" THEN {r.nonce} ELSE {}

\* classify_read; a failed read leaves the withdrawal undecided.
ClassifyRead(v) ==
  IF v = {} THEN "Failed"
  ELSE IF v = {Bound} THEN "Unchanged"
  ELSE IF v \subseteq Seen THEN "Stale"
  ELSE "Advanced"

\* Mutant: the signature of the fetched transaction is not verified.
EnsureSignedWith_First(r) == r.kind = "transaction" /\ r.first = "queried"

\* ensure_signed_with.
EnsureSignedWith(r) == r.kind = "transaction" /\ r.first = "queried" /\ r.signs = r.message

\* is_response_untrustworthy.
Untrustworthy(r) == r.kind \notin {"none"} \cup RpcFailure /\ ~EnsureSignedWith(r)

\* finalize_landed_withdrawal.
WithdrawalOutcome(r) ==
  IF ~EnsureSignedWith(r) THEN "Submitted"
  ELSE IF r.message # "submitted" \/ r.meta = "missing" THEN "Submitted"
  ELSE IF r.meta = "err" THEN "Failed"
  ELSE "Succeeded"

\* Mutant: a confirmed transaction is taken for a finalized one.
SweepOutcome_Confirmed(r) ==
  CASE r.kind = "finalized" -> IF r.meta = "ok" THEN "Succeeded" ELSE "Failed"
    [] r.kind = "confirmed" -> "Succeeded"
    [] OTHER -> "Submitted"

\* check_transaction_statuses.
SweepOutcome(r) ==
  IF r.kind = "finalized" THEN IF r.meta = "ok" THEN "Succeeded" ELSE "Failed"
  ELSE "Submitted"

\* credit_finalized_sweeps: the reason of a failed attempt, "-" for a credit.
CreditReason(r) ==
  IF r.kind = "none" THEN "NotFound"
  ELSE IF Untrustworthy(r) THEN "InvalidResponse"
  ELSE IF r.kind \in RpcFailure THEN "RpcError"
  ELSE IF r.meta = "missing" THEN "Unreadable"
  ELSE IF r.meta = "err" \/ r.message # "submitted" THEN "Mismatch"   \* amounts: see DepositSweeps
  ELSE IF r.meta = "partial" THEN "Unreadable"
  ELSE "-"

\* The continuation of the call.
Continue(r) ==
  /\ read' = NoRead
  /\ CASE read.method = "getAccountInfo" ->
            /\ nonceRead' = ClassifyRead(ReadVerifiedNonce(r))
            /\ UNCHANGED <<recorded, queued, reason>>
       [] read.method = "getTransaction" /\ flow = "withdrawal" ->
            /\ recorded' = WithdrawalOutcome(r)
            /\ nonceRead' = "Failed"     \* the round ends; the next one reads again
            /\ UNCHANGED <<queued, reason>>
       [] read.method = "getSignatureStatuses" ->
            /\ recorded' = SweepOutcome(r)
            /\ UNCHANGED <<nonceRead, queued, reason>>
       [] read.method = "getTransaction" /\ flow = "sweep" ->
            /\ reason' = CreditReason(r)
            /\ recorded' = CASE CreditReason(r) = "-" -> "Credited"
                           [] CreditReason(r) = "Mismatch" -> "Quarantined"
                           [] OTHER -> recorded
            /\ UNCHANGED <<nonceRead, queued>>
       [] read.method = "getBalance" ->
            /\ queued' = IF r.kind = "balance" THEN r.lamports ELSE 0
            /\ UNCHANGED <<recorded, nonceRead, reason>>
  /\ UNCHANGED <<faulty, flow, chain, balance>>

Reply == read # NoRead /\ read.honest = 0 /\ read.faulty = 0 /\ Continue(Result)

\* The call of the SOL RPC canister fails.
CallFails == read # NoRead /\ Continue(IcError)

Next ==
  \/ \E o \in Outcomes : Land(o)
  \/ Pay
  \/ AskNonce \/ AskOutcome \/ AskStatus \/ AskSweep \/ AskBalance
  \/ HonestAnswer \/ FaultyAnswer \/ Reply \/ CallFails

Spec == Init /\ [][Next]_vars

-------------------------------------------------------------------------------
\* While fewer providers are faulty than must agree, whatever the minter concludes is
\* so, although providers that are behind may agree on an earlier state: a withdrawal
\* or a sweep is reported by its finalized outcome, so that deposits are minted only if
\* their sweep moved the funds and dropped only if it did not; a nonce has advanced only
\* if its transaction landed; a deposit is queued with a balance its address has had;
\* and no response is called untrustworthy, as GetTransactionError says.
ConclusionsAreTrue ==
  faulty < Threshold =>
    /\ recorded \in {"Succeeded", "Credited"} => chain = "ok"
    /\ recorded = "Failed" => chain = "err"
    /\ recorded # "Quarantined"
    /\ nonceRead = "Advanced" => chain # "absent"
    /\ queued <= balance
    /\ reason # "InvalidResponse"

\* An outcome is recorded only from an agreed transaction that carries the signature of
\* the message submitted, however many providers are faulty: only the status of a fetched
\* transaction is taken on trust.
ForgeriesConcludeNothing ==
  [][read # NoRead /\ read.method = "getTransaction" /\ recorded' # recorded =>
       \E a \in Agreed(read.answers) :
         a.kind = "transaction" /\ a.signs = "submitted" /\ a.message = "submitted"]_vars

===============================================================================
