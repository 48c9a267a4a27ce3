-------------------------------- MODULE Mints --------------------------------
(***************************************************************************)
(* Minting ckSOL for the deposits of credited sweeps: the timer            *)
(* process_pending_mints, the pending mints of the state, and the ckSOL    *)
(* ledger's icrc1_transfer with its deduplication of transfers.            *)
(*                                                                         *)
(* The timer sends one transfer after the other and awaits each.  While it *)
(* waits, sweeps are credited, both clocks advance, the call may fail with *)
(* an unknown outcome, the continuation may trap, and an upgrade may drop  *)
(* the round while its transfer is still on the way to the ledger.  A      *)
(* transfer whose caller is gone may therefore be executed late; since     *)
(* several such transfers of one deposit carry equal arguments, one member *)
(* of late stands for all of them and may be executed repeatedly.          *)
(***************************************************************************)
EXTENDS Naturals, Sequences, FiniteSets

CONSTANTS
  Deposit,      \* deposit ids, ordered as numbers
  Window,       \* LEDGER_DEDUPLICATION_WINDOW
  Drift,        \* clock drift the ledger permits for created_at_time
  MaxSkew,      \* how far the clocks of the two canisters are apart at most
  MaxPerRound,  \* MAX_PENDING_MINTS_PER_ROUND
  MaxCredit,    \* bound: the time after which no sweep is credited
  MaxTime,      \* bound: the time at which the clocks stop
  MaxUpgrades   \* bound: upgrades of the minter

ASSUME MintsAssumption ==
  /\ Deposit \subseteq Nat \ {0} /\ IsFiniteSet(Deposit)
  /\ Window \in Nat /\ Drift \in Nat /\ MaxSkew \in Nat
  /\ MaxPerRound \in Nat \ {0}
  /\ MaxCredit \in Nat /\ MaxTime \in Nat /\ MaxUpgrades \in Nat

VARIABLES
  \* State of the minter that the event log restores after an upgrade.
  stage,      \* where each deposit is, as far as minting is concerned
  createdAt,  \* created_at_time of each pending mint
  \* Round of process_pending_mints, lost by an upgrade.
  round,      \* deposits of the round still to be sent, in order
  call,       \* the transfer awaited, or NoCall
  reply,      \* the ledger's answer to it, "none" until there is one
  \* The ledger and time.
  late,       \* transfers on their way whose caller stopped waiting
  blocks,     \* mint blocks of the ledger
  now,        \* time of the minter
  ledgerNow,  \* time of the ledger
  upgrades

minterVars == <<stage, createdAt>>
roundVars  == <<round, call, reply>>
clockVars  == <<now, ledgerNow>>
vars == <<minterVars, roundVars, late, blocks, clockVars, upgrades>>

Transfer == [id : Deposit, createdAt : Nat]
NoCall == [id |-> 0, createdAt |-> 0]

Init ==
  /\ stage = [d \in Deposit |-> "uncredited"]
  /\ createdAt = [d \in Deposit |-> 0]
  /\ round = <<>> /\ call = NoCall /\ reply = "none"
  /\ late = {} /\ blocks = <<>>
  /\ now = 0 /\ ledgerNow = 0
  /\ upgrades = 0

Pending == {d \in Deposit : stage[d] = "pending"}

-----------------------------------------------------------------------------
(* Crediting a sweep: its deposits become pending mints. *)

\* The created_at_time is the time of the CreditedSweep event.
CreditSweep(d) ==
  /\ stage[d] = "uncredited"
  /\ now <= MaxCredit
  /\ stage' = [stage EXCEPT ![d] = "pending"]
  /\ createdAt' = [createdAt EXCEPT ![d] = now]
  /\ UNCHANGED <<roundVars, late, blocks, clockVars, upgrades>>

-----------------------------------------------------------------------------
(* The timer. *)

\* Mutant: a pending mint is retried however old it is.
IsBeyondDeduplicationWindow_Never(d) == FALSE

IsBeyondDeduplicationWindow(d) == now > createdAt[d] + Window

\* Mutant: every attempt carries the current time.
MintTransferArg_Now(d) == [id |-> d, createdAt |-> now]

\* Every attempt sends the created_at_time recorded with the pending mint.
MintTransferArg(d) == [id |-> d, createdAt |-> createdAt[d]]

\* Continues with the deposits queue when the stages are st: quarantines those
\* beyond the window, up to the first that is not, and sends that one.
Proceed(queue, st) ==
  LET young == {i \in DOMAIN queue : ~IsBeyondDeduplicationWindow(queue[i])}
      first(i) == i \in young /\ \A j \in young : i <= j
      skipped(i) == \A j \in young : i < j
  IN  /\ stage' = [d \in Deposit |->
                     IF \E i \in DOMAIN queue : skipped(i) /\ queue[i] = d
                     THEN "quarantined" ELSE st[d]]
      /\ reply' = "none"
      /\ \/ /\ young = {}
            /\ round' = <<>> /\ call' = NoCall
         \/ \E i \in young :
              /\ first(i)
              /\ round' = SubSeq(queue, i + 1, Len(queue))
              /\ call' = MintTransferArg(queue[i])

\* Mutant: a settled mint is not removed from the pending mints.
Selected_Credited ==
  LET candidates == {d \in Deposit : stage[d] # "uncredited"}
  IN  {d \in candidates : Cardinality({e \in candidates : e < d}) < MaxPerRound}

\* The first pending mints by deposit id, at most MaxPerRound of them.
Selected == {d \in Pending : Cardinality({e \in Pending : e < d}) < MaxPerRound}

InOrder(queue) == \A i, j \in DOMAIN queue : i < j => queue[i] < queue[j]

\* The timer fires while no other round runs (TimerGuard); it may find nothing.
StartRound ==
  /\ call = NoCall
  /\ \E queue \in [1 .. Cardinality(Selected) -> Selected] :
       /\ InOrder(queue)
       /\ Proceed(queue, stage)
  /\ UNCHANGED <<createdAt, late, blocks, clockVars, upgrades>>

\* Mutant: a transfer refused as too old counts as a duplicate.
Outcome_TooOldIsMinted(r) ==
  IF r \in {"Ok", "Duplicate", "TooOld"} THEN "minted"
  ELSE IF r = "Rejected" THEN "quarantined"
  ELSE "pending"

\* The stage of a deposit once its transfer was answered: "Rejected" stands for
\* BadFee, BadBurn and InsufficientFunds, "Error" for TemporarilyUnavailable,
\* GenericError, CreatedInFuture and a failed call.
Outcome(r) ==
  IF r \in {"Ok", "Duplicate"} THEN "minted"
  ELSE IF r \in {"TooOld", "Rejected"} THEN "quarantined"
  ELSE "pending"

\* The assertions of Deposits::mint and Deposits::quarantine_pending_mint: the
\* deposits that the round still holds have a pending mint.
CanRecord ==
  /\ call # NoCall => call.id \in Pending
  /\ \A i \in DOMAIN round : round[i] \in Pending

HandleReply ==
  /\ reply # "none"
  /\ CanRecord
  /\ Proceed(round, [stage EXCEPT ![call.id] = Outcome(reply)])
  /\ UNCHANGED <<createdAt, late, blocks, clockVars, upgrades>>

\* The continuation traps: its changes are rolled back, then the drop of the
\* round's future runs the scope guard that quarantines the awaited deposit.
TrapOnReply ==
  /\ reply # "none"
  /\ CanRecord
  /\ stage' = [stage EXCEPT ![call.id] = "quarantined"]
  /\ round' = <<>> /\ call' = NoCall /\ reply' = "none"
  /\ UNCHANGED <<createdAt, late, blocks, clockVars, upgrades>>

-----------------------------------------------------------------------------
(* The ckSOL ledger. *)

\* The ledger remembers the transfers of blocks younger than Window + Drift.
Remembered(t) ==
  \E i \in DOMAIN blocks : /\ blocks[i].id = t.id
                           /\ blocks[i].createdAt = t.createdAt
                           /\ ledgerNow <= blocks[i].at + Window + Drift

\* What icrc1_transfer answers to t.
Answer(t) ==
  IF ledgerNow > t.createdAt + Window THEN "TooOld"
  ELSE IF t.createdAt > ledgerNow + Drift THEN "Error"
  ELSE IF Remembered(t) THEN "Duplicate"
  ELSE "Ok"

Execute(t) ==
  blocks' = IF Answer(t) = "Ok"
            THEN Append(blocks, [id |-> t.id, createdAt |-> t.createdAt,
                                 at |-> ledgerNow])
            ELSE blocks

\* The ledger executes the awaited transfer; the call may fail all the same.
LedgerExecutes ==
  /\ call # NoCall /\ reply = "none"
  /\ Execute(call)
  /\ reply' \in {Answer(call), "Error"}
  /\ UNCHANGED <<minterVars, round, call, late, clockVars, upgrades>>

\* The ledger refuses the awaited transfer, for good or for now.
LedgerRefuses ==
  /\ call # NoCall /\ reply = "none"
  /\ reply' \in {"Rejected", "Error"}
  /\ UNCHANGED <<minterVars, round, call, late, blocks, clockVars, upgrades>>

\* The call fails while the transfer is still on its way.
CallAbandoned ==
  /\ call # NoCall /\ reply = "none"
  /\ reply' = "Error"
  /\ late' = late \cup {call}
  /\ UNCHANGED <<minterVars, round, call, blocks, clockVars, upgrades>>

LateExecution(t) ==
  /\ t \in late
  /\ Execute(t)
  /\ UNCHANGED <<minterVars, roundVars, late, clockVars, upgrades>>

-----------------------------------------------------------------------------
(* Upgrades and time. *)

\* An upgrade replays the events: the round and its guard are gone, and the
\* answer to the awaited transfer reaches nobody.
Upgrade ==
  /\ upgrades < MaxUpgrades
  /\ late' = IF call # NoCall /\ reply = "none" THEN late \cup {call} ELSE late
  /\ round' = <<>> /\ call' = NoCall /\ reply' = "none"
  /\ upgrades' = upgrades + 1
  /\ UNCHANGED <<minterVars, blocks, clockVars>>

Tick ==
  /\ now < MaxTime /\ now < ledgerNow + MaxSkew
  /\ now' = now + 1
  /\ UNCHANGED <<minterVars, roundVars, late, blocks, ledgerNow, upgrades>>

LedgerTick ==
  /\ ledgerNow < MaxTime /\ ledgerNow < now + MaxSkew
  /\ ledgerNow' = ledgerNow + 1
  /\ UNCHANGED <<minterVars, roundVars, late, blocks, now, upgrades>>

Next ==
  \/ \E d \in Deposit : CreditSweep(d)
  \/ StartRound
  \/ HandleReply
  \/ TrapOnReply
  \/ LedgerExecutes
  \/ LedgerRefuses
  \/ CallAbandoned
  \/ \E t \in late : LateExecution(t)
  \/ Upgrade
  \/ Tick
  \/ LedgerTick

Spec == Init /\ [][Next]_vars

\* The timer fires every minute, a call is answered in the end (the system
\* rejects it when the callee cannot), and time passes.
Fairness ==
  /\ WF_vars(StartRound)
  /\ WF_vars(HandleReply)
  /\ WF_vars(LedgerExecutes \/ LedgerRefuses \/ CallAbandoned)
  /\ WF_vars(Tick)
  /\ WF_vars(LedgerTick)

FairSpec == Spec /\ Fairness

-----------------------------------------------------------------------------
(* Properties. *)

\* The variables have their types, and a round holds deposits to send only
\* while it awaits a transfer (the future of process_pending_mints).
TypeOK ==
  /\ stage \in [Deposit -> {"uncredited", "pending", "minted", "quarantined"}]
  /\ createdAt \in [Deposit -> Nat]
  /\ round \in Seq(Deposit)
  /\ call \in Transfer \cup {NoCall}
  /\ reply \in {"none", "Ok", "Duplicate", "TooOld", "Rejected", "Error"}
  /\ call = NoCall => round = <<>> /\ reply = "none"
  /\ late \subseteq Transfer
  /\ blocks \in Seq([id : Deposit, createdAt : Nat, at : Nat])
  /\ now \in Nat /\ ledgerNow \in Nat /\ upgrades \in Nat

\* No deposit is minted twice, however often process_pending_mint retries its
\* transfer after an error, a trap or an upgrade, and however late a transfer
\* that was given up is executed.
MintedAtMostOnce ==
  \A i, j \in DOMAIN blocks : blocks[i].id = blocks[j].id => i = j

\* A deposit that the minter reports as minted has its block on the ledger: no
\* answer other than a block index makes process_pending_mint record a mint.
MintedIsOnLedger ==
  \A d \in Deposit :
    stage[d] = "minted" => \E i \in DOMAIN blocks : blocks[i].id = d

\* No assertion of Deposits::mint or Deposits::quarantine_pending_mint fails:
\* the pending mints that a round copied at its start are still pending when it
\* comes to them, although it awaits the ledger in between.
NoAssertionFails == CanRecord

\* Every pending mint is minted or quarantined in the end, even when the ledger
\* is never available: process_pending_mint does not retry forever.
PendingIsResolved ==
  \A d \in Deposit :
    stage[d] = "pending" ~> stage[d] \in {"minted", "quarantined"}

=============================================================================
