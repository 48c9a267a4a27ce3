------------------------------ MODULE MinterState ------------------------------
(***************************************************************************)
(* Parts that the state of the minter is made of: TimedSizedMap, which     *)
(* holds the watchlist, InsertionOrderedMap, which holds the submitted     *)
(* transactions, and the configuration, with the calls that rely on it.    *)
(* They share nothing.                                                     *)
(***************************************************************************)
EXTENDS TimedSizedMap

CONSTANTS
  Keys, Values, MaxSeq,                                       \* InsertionOrderedMap
  Word, Rent, FeePerSig, MaxSignatures, GetBalanceCycles,     \* Config
  Canister, Anonymous, MinimumDeposits, MinimumWithdrawals, WithdrawalFees,
  RequiredCycles, DepositFees, AutomaticFees, Address, Reserved, Main,
  Malformed, None, NonceLists, Amounts, Attached, Withdrawal, MaxGiven

\* Amounts of lamports are words; amounts of cycles do not overflow.
ASSUME ConfigAssumption ==
  /\ Word \in Nat /\ Rent \in Nat \ {0} /\ FeePerSig \in Nat \ {0}
  /\ MaxSignatures \in Nat \ {0} /\ GetBalanceCycles \in Nat
  /\ \A S \in {Amounts, MinimumDeposits, MinimumWithdrawals, WithdrawalFees} :
       S \subseteq 0 .. Word - 1
  /\ RequiredCycles \subseteq Nat /\ DepositFees \subseteq Nat /\ Attached \subseteq Nat
  /\ Reserved \subseteq Address /\ Main \in Address \ Reserved

VARIABLES
  entries, order, nextSeq,
  config, pool, keyKnown, withdrawal, reading, queued, charge

Transactions == INSTANCE InsertionOrderedMap
Settings == INSTANCE Config

\* What is seen of the map when expired entries are left out.
LiveMap == INSTANCE TtlMap WITH
  clock <- now,
  live  <- Restrict(map.entries, {k \in DOMAIN map.entries : HasLive(map, now, k)})

\* To a user who looks at live entries only, the map is a TtlMap: a live entry
\* is never evicted nor its lifetime extended, and eviction is not visible.
ImplementsTtlMap == LiveMap!Spec

\* Iterating over the submitted transactions behaves as module OrderedMap says: no round
\* of the monitor misses one or sees one twice, and the oldest comes first.
TransactionsAreOrdered == Transactions!RefinesOrderedMap

\* A withdrawal that is not complete has a destination that can be paid and a nonce
\* account to be paid with: not a key that Solana reserves, not the main address, and not
\* a nonce account of the pool, though upgrades extend the pool after
\* validate_destination has looked.
DestinationsArePayable == Settings!DestinationsArePayable

\* An accepted withdrawal pays at least what keeps a new Solana account alive, though
\* the minimum is read before the burn and the fee after it.
WithdrawalsPayRent == Settings!WithdrawalsPayRent

\* A queued deposit can pay for a full sweep and leaves something to mint, whatever the
\* minimum was when it was queued.
DepositsPayTheirSweep == Settings!DepositsPayTheirSweep

\* charge_caller_cycles asserts that the caller can pay; it holds because validate
\* relates the cycles that are checked to those that are charged.
ChargeIsCovered == Settings!ChargeIsCovered

\* withdraw expects of an accepted withdrawal: "burned amount must be >=
\* withdrawal fee".
BurnedCoversFee == Settings!BurnedCoversFee

================================================================================
