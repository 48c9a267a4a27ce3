-------------------------------- MODULE Signing --------------------------------
(***************************************************************************)
(* Building and signing one transaction of the minter: the                 *)
(* sweep of a batch of deposits, signed by every deposit address of the    *)
(* batch, or the durable-nonce transaction of a batch of withdrawals,      *)
(* signed by the main address.  The signatures are requested all at once   *)
(* and arrive in any order (sign_bytes); Solana wants them in the order of *)
(* the signer keys of the message, in which the fee payer comes first and  *)
(* the others are sorted by address.  A transaction is identified by its   *)
(* first signature.                                                        *)
(***************************************************************************)
EXTENDS SweepPlan, Sequences

CONSTANTS
  Deposit,       \* ids of queued deposits, each of an account of its own
  AddressOf,     \* the deposit address of each, a number: addresses are ordered
  Main,          \* the main address
  Low, High,     \* balances, to make any deposit of a batch the fee payer
  BatchSizes,    \* numbers of deposits or transfers tried
  MaxTransfers,  \* MAX_WITHDRAWALS_PER_NONCE_TX
  MaxTxSize, BytesPerSignature

VARIABLES
  batch,        \* ids of the deposits of the sweep; {} for withdrawals
  bal,          \* the balances they were queued with
  message,      \* the message under way
  paths,        \* the keys that are asked for a signature, by address
  answered,     \* the places of those that have answered
  short,        \* whether an answer does not have 64 bytes
  signatures,   \* of the transaction
  status

vars == <<batch, bal, message, paths, answered, short, signatures, status>>

NoMessage == [signers |-> <<>>, keys |-> 0, data |-> 0, transfers |-> <<>>]

Init ==
  /\ batch = {} /\ bal = <<>> /\ message = NoMessage
  /\ paths = <<>> /\ answered = {} /\ short = FALSE
  /\ signatures = <<>> /\ status = "idle"

-------------------------------------------------------------------------------
(* Messages.  keys counts the account keys, data the bytes of the compiled *)
(* instructions: 17 for a transfer, 10 to advance the nonce.               *)

Sorted(S, before(_, _)) ==
  [i \in 1 .. Cardinality(S) |->
     CHOOSE x \in S : Cardinality({y \in S : before(y, x)}) = i - 1]

\* The deposits in the order of their transfers: the fee payer first, then by
\* decreasing amount, the older of equal ones first.
TransferOrder(b, S) ==
  <<FeePayer(b, S)>> \o Sorted(S \ {FeePayer(b, S)},
    LAMBDA d, e : \/ SweepableAmount(b, d) > SweepableAmount(b, e)
                  \/ SweepableAmount(b, d) = SweepableAmount(b, e) /\ d < e)

\* Message::new: the fee payer, then the other signers by address.
SignerKeys(payer, others) == <<payer>> \o Sorted(others \ {payer}, <)

\* sweep_message.  Apart from the deposit addresses the keys are the main
\* address and the system program.
SweepMessage(b, S) ==
  LET order == TransferOrder(b, S)
  IN  [signers   |-> SignerKeys(AddressOf[order[1]], {AddressOf[d] : d \in S}),
       keys      |-> Cardinality(S) + 2,
       data      |-> 17 * Cardinality(S),
       transfers |-> [i \in DOMAIN order |-> [from   |-> AddressOf[order[i]],
                                              amount |-> TransferOf(b, S, order[i])]]]

\* build_batch_withdrawal_message for n transfers to m distinct addresses.  The
\* other keys are the main address, the nonce account, the sysvar of the recent
\* blockhashes and the system program.
BatchMessage(n, m) ==
  [signers |-> <<Main>>, keys |-> m + 4, data |-> 10 + 17 * n,
   transfers |-> [i \in 1 .. n |-> [from |-> Main, amount |-> 0]]]

\* ensure_within_transaction_size: the number of signatures, the serialized
\* message (header, keys, blockhash and instructions) and the signatures.
TransactionSize(m) ==
  1 + (3 + 1 + 32 * m.keys + 32 + 1 + m.data) + BytesPerSignature * Len(m.signers)

-------------------------------------------------------------------------------
(* sign_sweep_transaction, sign_batch_withdrawal_message, sign_bytes. *)

\* Mutant: the accounts sign in the order of the transfers.
SignersOf_Transfers(m) == [i \in DOMAIN m.transfers |-> m.transfers[i].from]

\* The accounts asked to sign, looked up by the signer keys of the message.
SignersOf(m) == m.signers

\* sign_transaction up to the await: the size is checked first.
RequestSignatures(m) ==
  /\ message' = m /\ UNCHANGED signatures
  /\ IF TransactionSize(m) > MaxTxSize
       THEN /\ status' = "TransactionTooLarge"
            /\ UNCHANGED paths
       ELSE /\ status' = "signing"
            /\ paths' = SignersOf(m)
  /\ UNCHANGED <<answered, short>>

\* submit_sweep_transaction plans the sweep of a batch that the timer took from
\* the queue.
SignSweep(S, rich) ==
  /\ status = "idle"
  /\ Cardinality(S) \in BatchSizes /\ Cardinality(S) <= MaxPerSweep
  /\ batch' = S
  /\ bal' = [d \in S |-> IF d = rich THEN High ELSE Low]
  /\ RequestSignatures(SweepMessage(bal', S))

SignWithdrawals(n, m) ==
  /\ status = "idle"
  /\ n \in BatchSizes /\ m \in 1 .. n /\ n <= MaxTransfers
  /\ RequestSignatures(BatchMessage(n, m))
  /\ UNCHANGED <<batch, bal>>

\* One signature arrives.  Once all have, they become the signatures of the
\* transaction in the order of the requests; sign_bytes panics if one of them
\* does not have 64 bytes.
SignatureArrives(i, tooShort) ==
  /\ status = "signing" /\ i \notin answered
  /\ answered' = answered \cup {i} /\ short' = (short \/ tooShort)
  /\ IF answered' # DOMAIN paths
       THEN UNCHANGED <<signatures, status>>
     ELSE IF short'
       THEN status' = "trapped" /\ UNCHANGED signatures
     ELSE /\ signatures' = [j \in DOMAIN paths |-> [by |-> paths[j], of |-> message]]
          /\ status' = "signed"
  /\ UNCHANGED <<batch, bal, message, paths>>

\* The first failure fails them all (try_join_all).
SignatureFails(i) ==
  /\ status = "signing" /\ i \notin answered
  /\ status' = "SigningFailed"
  /\ UNCHANGED <<batch, bal, message, paths, answered, short, signatures>>

Next ==
  \/ \E S \in SUBSET Deposit : \E rich \in S : SignSweep(S, rich)
  \/ \E n \in BatchSizes : \E m \in 1 .. n : SignWithdrawals(n, m)
  \/ \E i \in DOMAIN paths : \E tooShort \in BOOLEAN : SignatureArrives(i, tooShort)
  \/ \E i \in DOMAIN paths : SignatureFails(i)

Spec == Init /\ [][Next]_vars

-------------------------------------------------------------------------------
\* A transaction that leaves sign_transaction verifies: it carries one signature
\* of the message per signer key, in the order of the keys, whatever the order in
\* which they arrived, and its first one, which identifies it, is the fee payer's.
SignaturesVerify ==
  status = "signed" =>
    /\ Len(signatures) = Len(message.signers)
    /\ \A i \in DOMAIN signatures : signatures[i] = [by |-> message.signers[i], of |-> message]
    /\ signatures[1].by = message.transfers[1].from

\* MAX_SIGNATURES and MAX_WITHDRAWALS_PER_NONCE_TX are within what a Solana
\* transaction holds: no batch of the timers is refused for its size, which would
\* refuse it again in every round.  A full sweep fills the limit to the byte.
BatchesFit == status # "TransactionTooLarge"

===============================================================================
