----------------------------- MODULE MCFoundations -----------------------------
(***************************************************************************)
(* Model checking of what every flow of the minter is built on: the guards *)
(* of its calls and timers, its public key, the signatures of its          *)
(* transactions and its reads of Solana.  They share nothing, so that a    *)
(* behaviour is one of one of them.  The sizes of transactions are the     *)
(* real ones, and the addresses of the deposits are in another order than  *)
(* their ids.                                                              *)
(***************************************************************************)
EXTENDS Guards

CONSTANTS
  MaxSweeps, MaxUpgrades,                                     \* MinterKey
  FeePerSig, Rent, MaxPerSweep, Minimum,                      \* SweepPlan
  Deposit, Main, Low, High, BatchSizes, MaxTransfers,         \* Signing
  MaxTxSize, BytesPerSignature,
  Providers, Threshold, MaxFaulty, Deposits                   \* ProviderReads

\* The limits of the code, which only fit a transaction together, and the answers that
\* must agree.
ASSUME FoundationsAssumption ==
  /\ MaxTxSize = 1232 /\ BytesPerSignature = 64
  /\ MaxPerSweep = 10 /\ MaxTransfers = 10
  /\ IsFiniteSet(Deposit) /\ Deposit \subseteq Nat /\ BatchSizes \subseteq Nat \ {0}
  /\ Low \in Nat /\ High \in Nat /\ Rent \in Nat
  /\ Providers \in Nat /\ Threshold \in 1 .. Providers

VARIABLES
  subject,
  log, cached, timers, fetching, sweeping,
  batch, bal, message, paths, answered, short, signatures, status,
  faulty, flow, chain, balance, read, recorded, nonceRead, queued, reason

AddressOf == [d \in Deposit |-> (7 * d) % 11]

MinterKey == INSTANCE MinterKey
Signing == INSTANCE Signing
Reads == INSTANCE ProviderReads

keyVars == <<log, cached, timers, fetching, sweeping>>
signingVars == <<batch, bal, message, paths, answered, short, signatures, status>>
readVars == <<faulty, flow, chain, balance, read, recorded, nonceRead, queued, reason>>
allVars == <<subject, vars, keyVars, signingVars, readVars>>

MCInit ==
  /\ Init /\ MinterKey!Init /\ Signing!Init /\ Reads!Init
  /\ subject \in {"guards", "key", "signing", "reads"}
  /\ subject # "reads" => faulty = 0 /\ flow = "deposit"

\* A step of the key, with everything else as it was.
OfKey(A) == subject = "key" /\ A /\ UNCHANGED <<subject, vars, signingVars, readVars>>

MCNext ==
  \/ subject = "guards" /\ Next /\ UNCHANGED <<subject, keyVars, signingVars, readVars>>
  \/ OfKey(MinterKey!Next)
  \/ subject = "signing" /\ Signing!Next /\ UNCHANGED <<subject, vars, keyVars, readVars>>
  \/ subject = "reads" /\ Reads!Next /\ UNCHANGED <<subject, vars, keyVars, signingVars>>

\* Timers fire, calls are answered, and the management canister does not fail
\* every time.
MCSpec ==
  /\ MCInit /\ [][MCNext]_allVars
  /\ WF_allVars(OfKey(MinterKey!FireTimer))
  /\ WF_allVars(OfKey(MinterKey!SubmitSweep))
  /\ WF_allVars(OfKey(MinterKey!FetchFails \/ MinterKey!FetchSucceeds))
  /\ SF_allVars(OfKey(MinterKey!FetchSucceeds))

\* An upgrade at any moment finds the public key where the canister had it, and as long
\* as there is none, exactly one timer or fetch is under way that will bring it: neither
\* failures and traps of a fetch nor upgrades lose or double it.
KeyIsNeverLost == MinterKey!ReplayAgrees /\ MinterKey!FetchUnderWay

\* The public key becomes available, however often its fetch fails and the canister is
\* upgraded meanwhile.
KeyArrives == subject = "key" => MinterKey!KeyEventuallyAvailable

\* Solana accepts what sign_transaction makes of a full batch: the signatures are in the
\* order of the signer keys, whatever the order they arrived in, and the size is within
\* the limit.
TransactionsAreAcceptable == Signing!SignaturesVerify /\ Signing!BatchesFit

\* While fewer providers are faulty than must agree, whatever the minter concludes from
\* their answers is so, although providers that are behind may agree on an earlier state
\* (see module ProviderReads).
ConclusionsAreTrue == Reads!ConclusionsAreTrue

\* A transaction that does not carry the withdrawal's own signature never concludes it,
\* however many providers are faulty: only the status of a fetched transaction is taken
\* on trust.
ForgeriesConcludeNothing == Reads!ForgeriesConcludeNothing

================================================================================
