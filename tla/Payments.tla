------------------------------- MODULE Payments --------------------------------
(***************************************************************************)
(* What the minter pays: the mints of ckSOL for credited deposits, and the *)
(* batches that pending withdrawals are paid in.  They share nothing.      *)
(***************************************************************************)
EXTENDS Mints

CONSTANTS Burn, Amounts, MaxBalance, MaxPerTx, Fee, Rent      \* BatchIterator

\* Requests are numbered by their burn, and a batch has room for at least one.
ASSUME BatchesAssumption ==
  /\ Burn \subseteq Nat /\ IsFiniteSet(Burn) /\ Amounts \subseteq Nat
  /\ MaxPerTx \in Nat \ {0} /\ Fee \in Nat /\ Rent \in Nat /\ MaxBalance \in Nat

VARIABLES pending, amount, balance, rest, available, batch, batches, ended

Batches == INSTANCE BatchIterator

\* The batches that the iterator yields are exactly those of the closed form that module
\* Withdrawals uses: the oldest requests first, as many as the balance pays for.
BatchesMatch == Batches!YieldsClosedForm

================================================================================
