---------------------------- MODULE BatchIterator ----------------------------
(***************************************************************************)
(* WithdrawalBatches of state/mod.rs as the code runs it: an iterator over *)
(* the pending requests that takes them one by one, and whose caller asks  *)
(* for one batch after the other until there is none.  Module              *)
(* WithdrawalBatches states the same grouping in closed form, which is     *)
(* what module Withdrawals uses.                                           *)
(***************************************************************************)
EXTENDS WithdrawalBatches, Sequences

CONSTANTS
  Burn,         \* burn block indices of the pending requests
  Amounts,      \* amounts to transfer that a request may have
  MaxBalance    \* bound: tracked balance of the minter

VARIABLES
  pending,    \* the requests the iterator was made for
  amount,     \* amount_to_transfer of each request
  balance,    \* tracked balance the iterator was made for
  rest,       \* pending_requests: those not yet taken
  available,  \* available_balance
  batch,      \* the batch that next() is filling
  batches,    \* batches yielded so far
  ended       \* next() returned None

vars == <<pending, amount, balance, rest, available, batch, batches, ended>>

Init ==
  /\ pending \in SUBSET Burn
  /\ amount \in [pending -> Amounts]
  /\ balance \in 0..MaxBalance
  /\ rest = pending
  /\ available = AvailableBalance(balance)
  /\ batch = {} /\ batches = <<>> /\ ended = FALSE

\* Mutant: every request pays the fee of a transaction of its own.
ReservedFee_Each == Fee

ReservedFee == IF batch = {} THEN Fee ELSE 0

Covered(b) == available >= amount[b] + ReservedFee

\* The loop takes the oldest request that is left.
TakeRequest ==
  /\ ~ended /\ rest # {}
  /\ Cardinality(batch) < MaxPerTx
  /\ LET b == Min(rest)
     IN /\ Covered(b)
        /\ available' = available - (amount[b] + ReservedFee)
        /\ batch' = batch \cup {b}
        /\ rest' = rest \ {b}
  /\ UNCHANGED <<pending, amount, balance, batches, ended>>

\* The loop ends: the batch is full, there is no request left, or the oldest
\* one is not covered.  An empty batch ends the iteration.
EndBatch ==
  /\ ~ended
  /\ \/ Cardinality(batch) >= MaxPerTx
     \/ rest = {}
     \/ rest # {} /\ ~Covered(Min(rest))
  /\ IF batch = {} THEN ended' = TRUE /\ UNCHANGED batches
                   ELSE batches' = Append(batches, batch) /\ UNCHANGED ended
  /\ batch' = {}
  /\ UNCHANGED <<pending, amount, balance, rest, available>>

Next == TakeRequest \/ EndBatch

Spec == Init /\ [][Next]_vars

\* When the iterator has ended, its batches are exactly those of the closed
\* form: the k-th batch is Batch(..., k), and there is no further one.
YieldsClosedForm ==
  ended =>
    /\ \A k \in 1..Len(batches) :
         batches[k] = Batch(pending, amount, balance, k)
    /\ Batch(pending, amount, balance, Len(batches) + 1) = {}
=============================================================================
