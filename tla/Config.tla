-------------------------------- MODULE Config --------------------------------
(***************************************************************************)
(* The configuration of the minter: the arguments of init and of the       *)
(* upgrades, State::validate, the pool of nonce accounts that upgrades     *)
(* extend, and the calls that rely on the configuration being valid:       *)
(* withdraw_sol, which reads part of it before and part of it after the    *)
(* burn, and deposit_sol, which promises to charge no more cycles than it  *)
(* checked for.  Amounts of lamports are u64: they wrap at Word, as the    *)
(* release build has no overflow checks.  Cycles are u128 and do not.      *)
(***************************************************************************)
EXTENDS Naturals, Sequences, FiniteSets

CONSTANTS
  Word,                       \* 2^64
  Rent, FeePerSig, MaxSignatures, GetBalanceCycles,
  Canister, Anonymous,        \* principals; the anonymous one among them
  MinimumDeposits, MinimumWithdrawals, WithdrawalFees,
  RequiredCycles, DepositFees, AutomaticFees,   \* values an argument may give
  Address,                    \* Solana addresses
  Reserved, Main,             \* those of the Solana runtime; the main address
  Malformed, None,            \* model values: no address; an option that is not set
  NonceLists,                 \* lists of nonce accounts an upgrade may add
  Amounts,                    \* amounts burned, balances of deposit addresses
  Attached,                   \* cycles a caller may attach
  Withdrawal,                 \* ids of withdrawals
  MaxGiven                    \* bound: fields that one upgrade changes

VARIABLES
  config,      \* the fields of State that the arguments set
  pool,        \* nonce_pool
  keyKnown,    \* whether the minter public key has been recorded
  withdrawal,  \* each withdrawal, from the burn on
  reading,     \* the call of deposit_sol that awaits the balance, or None
  queued,      \* balances of the deposits queued so far
  charge       \* the last charge to a caller

vars == <<config, pool, keyKnown, withdrawal, reading, queued, charge>>

NoWithdrawal == [stage |-> "none"]
Incomplete == {"pending", "created", "sent"}

Plus(a, b) == (a + b) % Word
SaturatingSub(a, b) == IF a < b THEN 0 ELSE a - b

-------------------------------------------------------------------------------
(* State::validate, init and upgrade. *)

\* max_automatic_deposit_fee.
MaxAutomaticDepositFee(c) ==
  SaturatingSub(SaturatingSub(SaturatingSub(c.minimumDeposit, Rent), FeePerSig), 1)

\* Mutant: the fee for a deposit is left out of the cycles required.
Validate_NoDepositFee(c) ==
  /\ Anonymous \notin {c.solRpc, c.ledger} /\ c.solRpc # c.ledger
  /\ c.minimumDeposit >= MaxSignatures * FeePerSig + Rent
  /\ c.minimumDeposit >= 2 * Rent + FeePerSig
  /\ c.minimumWithdrawal >= Plus(c.withdrawalFee, Rent)
  /\ c.requiredCycles >= GetBalanceCycles
  /\ c.automaticFee # None => c.automaticFee <= MaxAutomaticDepositFee(c)

\* Mutant: the fee alone bounds the minimum withdrawal amount.
Validate_NoRent(c) ==
  /\ Anonymous \notin {c.solRpc, c.ledger} /\ c.solRpc # c.ledger
  /\ c.minimumDeposit >= MaxSignatures * FeePerSig + Rent
  /\ c.minimumDeposit >= 2 * Rent + FeePerSig
  /\ c.minimumWithdrawal >= c.withdrawalFee
  /\ c.requiredCycles >= GetBalanceCycles + c.depositFee
  /\ c.automaticFee # None => c.automaticFee <= MaxAutomaticDepositFee(c)

Validate(c) ==
  /\ Anonymous \notin {c.solRpc, c.ledger} /\ c.solRpc # c.ledger
  /\ c.minimumDeposit >= MaxSignatures * FeePerSig + Rent
  /\ c.minimumDeposit >= 2 * Rent + FeePerSig
  /\ c.minimumWithdrawal >= Plus(c.withdrawalFee, Rent)
  /\ c.requiredCycles >= GetBalanceCycles + c.depositFee
  /\ c.automaticFee # None => c.automaticFee <= MaxAutomaticDepositFee(c)

\* The fields that an upgrade may change, and the values it may give.  The ledger
\* cannot be changed, nor a fee be unset.
Fields == {"solRpc", "minimumDeposit", "minimumWithdrawal", "withdrawalFee", "requiredCycles",
           "depositFee", "automaticFee"}

FieldValues(f) ==
  CASE f = "solRpc" -> Canister
    [] f = "minimumDeposit" -> MinimumDeposits
    [] f = "minimumWithdrawal" -> MinimumWithdrawals
    [] f = "withdrawalFee" -> WithdrawalFees
    [] f = "requiredCycles" -> RequiredCycles
    [] f = "depositFee" -> DepositFees
    [] f = "automaticFee" -> AutomaticFees

\* InitArgs, apart from the nonce accounts.
Configs ==
  [solRpc : Canister, ledger : Canister, minimumDeposit : MinimumDeposits,
   minimumWithdrawal : MinimumWithdrawals, withdrawalFee : WithdrawalFees,
   requiredCycles : RequiredCycles, depositFee : DepositFees,
   automaticFee : AutomaticFees \cup {None}]

\* UpgradeArgs, apart from the nonce accounts: values for some of the fields.
UpgradeArgs ==
  {args \in UNION {[S -> UNION {FieldValues(f) : f \in S}] :
                    S \in {T \in SUBSET Fields : Cardinality(T) <= MaxGiven}} :
     \A f \in DOMAIN args : args[f] \in FieldValues(f)}

\* The value given for the field, or the one it has.
Given(args, f, old) == IF f \in DOMAIN args THEN args[f] ELSE old

Upgraded(args) ==
  [solRpc            |-> Given(args, "solRpc", config.solRpc),
   ledger            |-> config.ledger,
   minimumDeposit    |-> Given(args, "minimumDeposit", config.minimumDeposit),
   minimumWithdrawal |-> Given(args, "minimumWithdrawal", config.minimumWithdrawal),
   withdrawalFee     |-> Given(args, "withdrawalFee", config.withdrawalFee),
   requiredCycles    |-> Given(args, "requiredCycles", config.requiredCycles),
   depositFee        |-> Given(args, "depositFee", config.depositFee),
   automaticFee      |-> Given(args, "automaticFee", config.automaticFee)]

\* parse_nonce_accounts and add_accounts succeed, and the accounts of the list
\* are new.
Addable(list) ==
  /\ \A i \in DOMAIN list : list[i] # Malformed /\ list[i] \notin pool
  /\ \A i, j \in DOMAIN list : list[i] = list[j] => i = j

\* Mutant: only requests not yet in a transaction are looked at.
NoIncompleteWithdrawalTo_Pending(list) ==
  \A w \in Withdrawal : withdrawal[w].stage = "pending" =>
    \A i \in DOMAIN list : list[i] # withdrawal[w].to

\* ensure_no_incomplete_withdrawal_to.
NoIncompleteWithdrawalTo(list) ==
  \A w \in Withdrawal : withdrawal[w].stage \in Incomplete =>
    \A i \in DOMAIN list : list[i] # withdrawal[w].to

\* Calls under way are lost with the old instance.
DropCalls ==
  /\ withdrawal' = [w \in Withdrawal |->
       IF withdrawal[w].stage = "burning" THEN NoWithdrawal ELSE withdrawal[w]]
  /\ reading' = None

\* post_upgrade with arguments.  When the arguments are refused the upgrade traps
\* and the old instance goes on as it was.
Upgrade(args, list) ==
  /\ Addable(list) /\ NoIncompleteWithdrawalTo(list)
  /\ Validate(Upgraded(args))
  /\ config' = Upgraded(args)
  /\ pool' = pool \cup {list[i] : i \in DOMAIN list}
  /\ DropCalls
  /\ UNCHANGED <<keyKnown, queued, charge>>

KeyRecorded ==
  /\ ~keyKnown /\ keyKnown' = TRUE
  /\ UNCHANGED <<config, pool, withdrawal, reading, queued, charge>>

-------------------------------------------------------------------------------
(* withdraw_sol. *)

\* validate_destination.
ValidateDestination(to) ==
  /\ to \notin Reserved /\ to \notin pool
  /\ keyKnown /\ to # Main

\* withdraw_sol up to the burn, if none of its checks fails.
StartWithdrawal(w, burned, to) ==
  /\ withdrawal[w].stage = "none"
  /\ burned >= config.minimumWithdrawal
  /\ ValidateDestination(to)
  /\ pool # {}
  /\ withdrawal' = [withdrawal EXCEPT ![w] = [stage |-> "burning", to |-> to, burned |-> burned]]
  /\ UNCHANGED <<config, pool, keyKnown, reading, queued, charge>>

BurnFails(w) ==
  /\ withdrawal[w].stage = "burning"
  /\ withdrawal' = [withdrawal EXCEPT ![w] = NoWithdrawal]
  /\ UNCHANGED <<config, pool, keyKnown, reading, queued, charge>>

\* The tokens are burned.  The fee is read now; if the burned amount does not
\* cover it the call panics, and the burn is not recorded.
AcceptWithdrawal(w) ==
  /\ withdrawal[w].stage = "burning"
  /\ LET burned == withdrawal[w].burned
     IN  withdrawal' = [withdrawal EXCEPT ![w] =
           IF burned < config.withdrawalFee
             THEN [stage |-> "panicked", burned |-> burned]
             ELSE [stage |-> "pending", to |-> withdrawal[w].to, burned |-> burned,
                   amount |-> burned - config.withdrawalFee]]
  /\ UNCHANGED <<config, pool, keyKnown, reading, queued, charge>>

\* The timers and Solana carry it on: modelled in Withdrawals.
Advance(w) ==
  /\ \E step \in {<<"pending", "created">>, <<"created", "sent">>, <<"sent", "done">>} :
       /\ withdrawal[w].stage = step[1]
       /\ withdrawal' = [withdrawal EXCEPT ![w] =
            [stage |-> step[2], to |-> withdrawal[w].to, burned |-> withdrawal[w].burned,
             amount |-> withdrawal[w].amount]]
  /\ UNCHANGED <<config, pool, keyKnown, reading, queued, charge>>

-------------------------------------------------------------------------------
(* deposit_sol and its cycles. *)

\* deposit_sol reads the configuration, checks the cycles of the caller and asks
\* for the balance.
StartDeposit(attached) ==
  /\ reading = None
  /\ attached >= config.requiredCycles
  /\ keyKnown
  /\ reading' = [attached |-> attached, fee |-> config.depositFee,
                 minimum |-> config.minimumDeposit]
  /\ UNCHANGED <<config, pool, keyKnown, withdrawal, queued, charge>>

\* The cost of the call to the SOL RPC canister, of charge_rpc_call.
RpcCost(refunded) == SaturatingSub(GetBalanceCycles, refunded)

\* Mutant: the balance is compared with the rent alone.
EndDeposit_RentOnly(refunded, balance) ==
  /\ reading # None
  /\ charge' = [asked     |-> RpcCost(refunded) + (IF balance # None /\ balance >= Rent
                                                    THEN reading.fee ELSE 0),
                available |-> reading.attached]
  /\ queued' = IF balance # None /\ balance >= Rent THEN queued \cup {balance} ELSE queued
  /\ reading' = None
  /\ UNCHANGED <<config, pool, keyKnown, withdrawal>>

\* The balance arrives, or None when the call fails.  The caller is charged for
\* the call, and the fee too when the deposit is queued.
EndDeposit(refunded, balance) ==
  /\ reading # None
  /\ LET success == balance # None /\ balance >= reading.minimum
     IN  /\ charge' = [asked     |-> RpcCost(refunded) + (IF success THEN reading.fee ELSE 0),
                       available |-> reading.attached]
         /\ queued' = IF success THEN queued \cup {balance} ELSE queued
  /\ reading' = None
  /\ UNCHANGED <<config, pool, keyKnown, withdrawal>>

-------------------------------------------------------------------------------
\* init traps on arguments that are not valid.
Init ==
  /\ config \in {c \in Configs : Validate(c)}
  /\ pool \in {{list[i] : i \in DOMAIN list} : list \in {l \in NonceLists :
       /\ \A i \in DOMAIN l : l[i] # Malformed
       /\ \A i, j \in DOMAIN l : l[i] = l[j] => i = j}}
  /\ keyKnown = FALSE
  /\ withdrawal = [w \in Withdrawal |-> NoWithdrawal]
  /\ reading = None /\ queued = {} /\ charge = None

Next ==
  \/ \E args \in UpgradeArgs, list \in NonceLists : Upgrade(args, list)
  \/ KeyRecorded
  \/ \E w \in Withdrawal, burned \in Amounts, to \in Address : StartWithdrawal(w, burned, to)
  \/ \E w \in Withdrawal : BurnFails(w) \/ AcceptWithdrawal(w) \/ Advance(w)
  \/ \E attached \in Attached : StartDeposit(attached)
  \/ \E refunded \in 0 .. GetBalanceCycles, balance \in Amounts \cup {None} :
       EndDeposit(refunded, balance)

Spec == Init /\ [][Next]_vars

-------------------------------------------------------------------------------
\* A withdrawal that is not complete has a destination that can be paid and a
\* nonce account to be paid with: not a key that Solana reserves, not the main
\* address, and not a nonce account of the pool, though upgrades extend the pool
\* after validate_destination has looked.
DestinationsArePayable ==
  \A w \in Withdrawal : withdrawal[w].stage \in Incomplete =>
    withdrawal[w].to \notin Reserved \cup pool \cup {Main} /\ pool # {}

\* An accepted withdrawal pays at least what keeps a new Solana account alive,
\* though the minimum is read before the burn and the fee after it.
WithdrawalsPayRent ==
  \A w \in Withdrawal : withdrawal[w].stage \in Incomplete \cup {"done"} =>
    withdrawal[w].amount >= Rent

\* A queued deposit can pay for a full sweep and leaves something to mint,
\* whatever the minimum was when it was queued.
DepositsPayTheirSweep ==
  \A b \in queued : b - Rent >= MaxSignatures * FeePerSig /\ b - Rent - FeePerSig >= 1

\* charge_caller_cycles asserts that the caller can pay; it holds because
\* validate relates the cycles that are checked to those that are charged.
ChargeIsCovered == charge # None => charge.asked <= charge.available

\* withdraw expects of an accepted withdrawal: "burned amount must be >=
\* withdrawal fee".
BurnedCoversFee == \A w \in Withdrawal : withdrawal[w].stage # "panicked"

===============================================================================
