------------------------------ MODULE SweepPlan ------------------------------
(***************************************************************************)
(* The arithmetic of a sweep: who pays the transaction fee, what each      *)
(* deposit address transfers, what the main address receives, and what is  *)
(* minted for each deposit.  bal maps deposit ids to the balance that the  *)
(* deposit address had when the deposit was queued, S is the set of        *)
(* deposits that the sweep holds.                                          *)
(***************************************************************************)
EXTENDS Naturals, FiniteSets, FiniteSetsExt, Functions

CONSTANTS
  FeePerSig,  \* FEE_PER_SIGNATURE
  Rent,       \* RENT_EXEMPTION_THRESHOLD
  MaxPerSweep, \* MAX_DEPOSITS_PER_SWEEP = MAX_SIGNATURES
  Minimum     \* minimum_deposit_amount

\* State::validate, for the minimum deposit amount.
ASSUME SweepPlanAssumption ==
  /\ FeePerSig \in Nat \ {0} /\ Rent \in Nat
  /\ MaxPerSweep \in Nat \ {0} /\ Minimum \in Nat
  /\ Minimum >= MaxPerSweep * FeePerSig + Rent
  /\ Minimum >= 2 * Rent + FeePerSig

SweepableAmount(bal, d) == bal[d] - Rent

PlannedFee(S) == FeePerSig * Cardinality(S)

\* The deposit with the largest sweepable amount, the oldest of those.
FeePayer(bal, S) ==
  CHOOSE d \in S : \A e \in S \ {d} :
    \/ SweepableAmount(bal, d) > SweepableAmount(bal, e)
    \/ SweepableAmount(bal, d) = SweepableAmount(bal, e) /\ d < e

TransferOf(bal, S, d) ==
  IF d = FeePayer(bal, S) THEN SweepableAmount(bal, d) - PlannedFee(S)
                          ELSE SweepableAmount(bal, d)

ExpectedReceived(bal, S) == SumFunction([d \in S |-> TransferOf(bal, S, d)])

\* Mutant: the main address bears the transaction fee.
FeeShare_Free(S) == 0

\* The share of the fee borne by each deposit, rounded up.
FeeShare(S) == (PlannedFee(S) + Cardinality(S) - 1) \div Cardinality(S)

\* Mutant: the rent left on the deposit address is minted as well.
MintAmount_Gross(bal, S, d) == bal[d] - FeeShare(S)

MintAmount(bal, S, d) == SweepableAmount(bal, d) - FeeShare(S)

=============================================================================
