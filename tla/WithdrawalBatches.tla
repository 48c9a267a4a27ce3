-------------------------- MODULE WithdrawalBatches --------------------------
(***************************************************************************)
(* How pending withdrawal requests are grouped into batches the minter can *)
(* pay for (state/mod.rs, WithdrawalBatches).  A batch is one Solana       *)
(* transaction: it holds at most MaxPerTx requests and costs one           *)
(* transaction fee.  Requests are taken oldest first and the grouping      *)
(* stops at the first request that the balance left cannot cover.          *)
(*                                                                         *)
(* The iterator of the code is stated here in closed form, as sets:        *)
(* request b is served iff the requests up to b, plus one fee for every    *)
(* batch that they open, fit in the available balance.  BatchIterator is   *)
(* the loop of the code, checked against the closed form.                  *)
(***************************************************************************)
EXTENDS Integers, FiniteSets, FiniteSetsExt

CONSTANTS
  MaxPerTx,   \* MAX_WITHDRAWALS_PER_NONCE_TX
  Fee,        \* BATCH_WITHDRAWAL_TX_FEE, lamports
  Rent        \* RENT_EXEMPTION_THRESHOLD, lamports

ASSUME BatchAssumption ==
  /\ MaxPerTx \in Nat \ {0}
  /\ Fee \in Nat \ {0}
  /\ Rent \in Nat

\* Lamports transferred by a set of requests.
Total(amount, burns) == SumFunctionOnSet(amount, burns)

\* Mutant: the rent exemption is spent as well.
AvailableBalance_All(balance) == balance

\* The balance that batches may spend: the rent exemption is held back
\* (withdrawal_batches uses saturating_sub).
AvailableBalance(balance) == IF balance > Rent THEN balance - Rent ELSE 0

\* Position of element b in the finite set of numbers S, counting from 1.
Rank(S, b) == Cardinality({c \in S : c <= b})

\* Number of the batch that the request at position n falls into.
BatchNumber(n) == (n + MaxPerTx - 1) \div MaxPerTx

\* What serving the pending requests up to b costs, fees included.
CostUpTo(pending, amount, b) ==
  Total(amount, {c \in pending : c <= b}) + Fee * BatchNumber(Rank(pending, b))

\* The requests that WithdrawalBatches yields, in whatever batch.
Affordable(pending, amount, balance) ==
  {b \in pending : CostUpTo(pending, amount, b) <= AvailableBalance(balance)}

\* The k-th batch; empty when the iterator has ended before.
Batch(pending, amount, balance, k) ==
  {b \in Affordable(pending, amount, balance) :
     BatchNumber(Rank(pending, b)) = k}
=============================================================================
