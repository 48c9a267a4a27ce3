---------------------------- MODULE PaymentsProofs -----------------------------
(***************************************************************************)
(* Proofs about the parts of module Payments, for any instance of them.    *)
(*                                                                         *)
(* Mints: no deposit is minted twice, a deposit reported as minted is on   *)
(* the ledger, and no assertion of the state transitions fails, for any    *)
(* window, drift and skew and any number of upgrades.                      *)
(*                                                                         *)
(* BatchIterator: its batches are those of the closed form, for any        *)
(* requests, amounts, balance, fee and rent.  The invariant relates the    *)
(* requests taken so far to their ranks, and what is left of the balance   *)
(* to the costs of the ranks taken.                                        *)
(***************************************************************************)
EXTENDS Payments, DataTheorems

--------------------------------------------------------------------------------
(* Mints. *)

Stage == {"uncredited", "pending", "minted", "quarantined"}

\* The awaited transfer carries the recorded creation time of a pending mint.
CallOK ==
  call # NoCall => /\ call.createdAt = createdAt[call.id]
                   /\ stage[call.id] = "pending"

\* The deposits still to send are pending, distinct, and follow the awaited one.
RoundOK ==
  /\ InOrder(round)
  /\ \A i \in DOMAIN round : stage[round[i]] = "pending" /\ call.id < round[i]

\* So does every transfer whose caller is gone, for a deposit credited once.
LateOK ==
  \A t \in late : t.createdAt = createdAt[t.id] /\ stage[t.id] # "uncredited"

\* A block carries the recorded creation time, and the ledger did not accept it
\* from the future: it stays in the ledger's memory until created_at_time + Window.
BlocksOK ==
  \A i \in DOMAIN blocks :
    /\ blocks[i].createdAt = createdAt[blocks[i].id]
    /\ stage[blocks[i].id] # "uncredited"
    /\ blocks[i].createdAt <= blocks[i].at + Drift

\* An answer with a block index was given for a block.
ReplyOK ==
  reply \in {"Ok", "Duplicate"} => \E i \in DOMAIN blocks : blocks[i].id = call.id

IInv ==
  /\ TypeOK /\ CallOK /\ RoundOK /\ LateOK /\ BlocksOK /\ ReplyOK
  /\ MintedAtMostOnce /\ MintedIsOnLedger

USE DEF minterVars, roundVars, clockVars

-----------------------------------------------------------------------------
\* The inductive invariant holds initially.
LEMMA InvInit == Init => IInv
BY MintsAssumption
DEF Init, IInv, TypeOK, CallOK, RoundOK, LateOK, BlocksOK, ReplyOK,
    MintedAtMostOnce, MintedIsOnLedger, InOrder, Transfer, NoCall

\* Selected is a finite set of deposits, so its cardinality is a number.
LEMMA SelectedType ==
  Selected \subseteq Pending /\ Selected \subseteq Deposit
  /\ Cardinality(Selected) \in Nat
<1>1. Selected \subseteq Pending /\ Selected \subseteq Deposit
  BY Zenon DEF Selected, Pending
<1>2. IsFiniteSet(Selected)
  BY <1>1, MintsAssumption, FS_Subset, Zenon
<1> QED BY <1>1, <1>2, FS_CardinalityType, Zenon

\* Proceed moves pending deposits to quarantine at most, and awaits a transfer
\* of a pending deposit that precedes those it leaves for later.
LEMMA ProceedFacts ==
  ASSUME TypeOK,
         NEW queue \in Seq(Deposit), InOrder(queue),
         NEW st \in [Deposit -> Stage],
         \A i \in DOMAIN queue : st[queue[i]] = "pending",
         Proceed(queue, st), createdAt' = createdAt
  PROVE  /\ stage' \in [Deposit -> Stage]
         /\ \A d \in Deposit : \/ stage'[d] = st[d]
                               \/ st[d] = "pending" /\ stage'[d] = "quarantined"
         /\ round' \in Seq(Deposit) /\ reply' = "none"
         /\ call' \in Transfer \cup {NoCall}
         /\ call' = NoCall => round' = <<>>
         /\ CallOK' /\ RoundOK'
<1> DEFINE young == {i \in DOMAIN queue : ~IsBeyondDeduplicationWindow(queue[i])}
<1> DEFINE skipped(i) == \A j \in young : i < j
<1>1. stage' = [d \in Deposit |->
                  IF \E i \in DOMAIN queue : skipped(i) /\ queue[i] = d
                  THEN "quarantined" ELSE st[d]]
  BY Zenon DEF Proceed
<1>2. /\ stage' \in [Deposit -> Stage]
      /\ \A d \in Deposit : \/ stage'[d] = st[d]
                            \/ st[d] = "pending" /\ stage'[d] = "quarantined"
  BY <1>1, Zenon DEF Stage
<1>3. reply' = "none"
  BY Zenon DEF Proceed
<1>4. CASE young = {} /\ round' = <<>> /\ call' = NoCall
  BY <1>2, <1>3, <1>4 DEF CallOK, RoundOK, InOrder
<1>5. ASSUME NEW i \in young, \A j \in young : i <= j,
             round' = SubSeq(queue, i + 1, Len(queue)),
             call' = MintTransferArg(queue[i])
      PROVE  /\ round' \in Seq(Deposit) /\ call' \in Transfer
             /\ CallOK' /\ RoundOK'
  <2>1. i \in 1 .. Len(queue) /\ queue[i] \in Deposit
    OBVIOUS
  <2>2. call' \in Transfer /\ call'.id = queue[i]
        /\ call'.createdAt = createdAt[queue[i]]
    BY <1>5, <2>1, Zenon DEF MintTransferArg, Transfer, TypeOK
  <2>3. /\ round' \in Seq(Deposit)
        /\ Len(round') = Len(queue) - i
        /\ \A k \in 1 .. Len(round') : round'[k] = queue[i + k] /\ i + k \in DOMAIN queue
    BY <1>5, <2>1
  <2>4. \A k \in DOMAIN queue : k >= i => stage'[queue[k]] = "pending"
    <3> SUFFICES ASSUME NEW k \in DOMAIN queue, k >= i
                 PROVE  stage'[queue[k]] = "pending"
      BY Zenon
    <3>1. queue[k] \in Deposit /\ queue[k] \in Nat
      <4>1. queue[k] \in Deposit
        OBVIOUS
      <4> QED BY <4>1, MintsAssumption, Zenon
    <3>2. ~ \E m \in DOMAIN queue : skipped(m) /\ queue[m] = queue[k]
      BY <3>1, <2>1 DEF InOrder
    <3> HIDE DEF skipped
    <3> QED BY <1>1, <3>1, <3>2, Zenon
  <2>5. RoundOK'
    <3>1. \A k \in DOMAIN round' : stage'[round'[k]] = "pending" /\ call'.id < round'[k]
      BY <2>1, <2>2, <2>3, <2>4 DEF InOrder
    <3>2. InOrder(round)'
      BY <2>3, <2>1 DEF InOrder
    <3> QED BY <3>1, <3>2, Zenon DEF RoundOK
  <2> QED BY <2>2, <2>3, <2>5, <2>1, <2>4, <1>5, Zenon DEF CallOK
<1>6. \/ young = {} /\ round' = <<>> /\ call' = NoCall
      \/ \E i \in young : /\ \A j \in young : i <= j
                          /\ round' = SubSeq(queue, i + 1, Len(queue))
                          /\ call' = MintTransferArg(queue[i])
  BY Zenon DEF Proceed
<1>7. NoCall \notin Transfer
  BY MintsAssumption, Zenon DEF NoCall, Transfer
<1> HIDE DEF young, skipped
<1> QED BY <1>2, <1>3, <1>4, <1>5, <1>6, <1>7, Zenon

\* The blocks of the ledger have the fields of a block.
LEMMA BlockFields ==
  ASSUME TypeOK, NEW i \in DOMAIN blocks
  PROVE  blocks[i].id \in Deposit /\ blocks[i].createdAt \in Nat
         /\ blocks[i].at \in Nat
<1> DEFINE Block == [id : Deposit, createdAt : Nat, at : Nat]
<1>1. blocks \in Seq(Block)
  BY Zenon DEF TypeOK
<1> HIDE DEF Block
<1>2. blocks[i] \in Block
  BY <1>1
<1> QED BY <1>2, Zenon DEF Block

\* A round that starts or continues keeps the invariant, given stages st in
\* which no deposit left "uncredited" and every minted one has its block.
LEMMA ProceedStep ==
  ASSUME IInv,
         NEW queue \in Seq(Deposit), InOrder(queue),
         NEW st \in [Deposit -> Stage],
         \A i \in DOMAIN queue : st[queue[i]] = "pending",
         \A d \in Deposit : st[d] = "uncredited" <=> stage[d] = "uncredited",
         \A d \in Deposit :
           st[d] = "minted" => \E i \in DOMAIN blocks : blocks[i].id = d,
         Proceed(queue, st),
         UNCHANGED <<createdAt, late, blocks, clockVars, upgrades>>
  PROVE  IInv'
<1>1. TypeOK /\ createdAt' = createdAt /\ late' = late /\ blocks' = blocks
  BY Zenon DEF IInv
<1>2. /\ stage' \in [Deposit -> Stage]
      /\ \A d \in Deposit : \/ stage'[d] = st[d]
                            \/ st[d] = "pending" /\ stage'[d] = "quarantined"
      /\ round' \in Seq(Deposit) /\ reply' = "none"
      /\ call' \in Transfer \cup {NoCall}
      /\ call' = NoCall => round' = <<>>
      /\ CallOK' /\ RoundOK'
  BY <1>1, ProceedFacts, Zenon
<1>3. TypeOK'
  BY <1>1, <1>2 DEF TypeOK, Stage
<1>4. \A d \in Deposit : stage[d] # "uncredited" => stage'[d] # "uncredited"
  BY <1>2, Zenon
<1>5. LateOK'
  BY <1>1, <1>4, Zenon DEF LateOK, IInv, TypeOK, Transfer
<1>6. BlocksOK'
  <2>1. \A i \in DOMAIN blocks : blocks[i].id \in Deposit
    BY <1>1, BlockFields, Zenon
  <2> QED BY <1>1, <1>4, <2>1, Zenon DEF BlocksOK, IInv
<1>7. ReplyOK' /\ MintedAtMostOnce'
  BY <1>1, <1>2 DEF ReplyOK, MintedAtMostOnce, IInv
<1>8. MintedIsOnLedger'
  BY <1>1, <1>2 DEF MintedIsOnLedger
<1> QED BY <1>2, <1>3, <1>5, <1>6, <1>7, <1>8, Zenon DEF IInv

\* The ledger executes a transfer that carries the recorded creation time of a
\* credited deposit: it adds a block only when the deposit has none.  A block
\* it forgot would make the transfer too old.
LEMMA ExecuteStep ==
  ASSUME IInv, NEW t \in Transfer, Execute(t),
         t.createdAt = createdAt[t.id], stage[t.id] # "uncredited",
         UNCHANGED minterVars
  PROVE  /\ blocks' \in Seq([id : Deposit, createdAt : Nat, at : Nat])
         /\ BlocksOK' /\ MintedAtMostOnce'
         /\ \A d \in Deposit : (\E i \in DOMAIN blocks : blocks[i].id = d)
                                 => \E i \in DOMAIN blocks' : blocks'[i].id = d
         /\ Answer(t) \in {"Ok", "Duplicate"}
              => \E i \in DOMAIN blocks' : blocks'[i].id = t.id
<1> DEFINE new == [id |-> t.id, createdAt |-> t.createdAt, at |-> ledgerNow]
<1>1. TypeOK /\ BlocksOK /\ MintedAtMostOnce
  BY Zenon DEF IInv
<1>2. CASE Answer(t) # "Ok"
  BY <1>2, <1>1, Zenon DEF Execute, Answer, Remembered, BlocksOK, MintedAtMostOnce, TypeOK
<1>3. CASE Answer(t) = "Ok"
  <2>1. /\ ledgerNow <= t.createdAt + Window
        /\ t.createdAt <= ledgerNow + Drift
        /\ ~Remembered(t)
    BY <1>1, <1>3, MintsAssumption DEF Transfer, TypeOK, Answer
  <2>2. new \in [id : Deposit, createdAt : Nat, at : Nat]
    BY <1>1, Zenon DEF TypeOK, Transfer
  <2>3. /\ blocks' = Append(blocks, new)
        /\ blocks \in Seq([id : Deposit, createdAt : Nat, at : Nat])
    BY <1>1, <1>3, Zenon DEF Execute, TypeOK
  <2>4. \A i \in DOMAIN blocks : blocks[i].id # t.id
    <3> SUFFICES ASSUME NEW i \in DOMAIN blocks, blocks[i].id = t.id PROVE FALSE
      BY Zenon
    <3>1. /\ blocks[i].createdAt = t.createdAt
          /\ blocks[i].createdAt <= blocks[i].at + Drift
      BY <1>1, Zenon DEF BlocksOK
    <3>2. blocks[i].createdAt \in Nat /\ blocks[i].at \in Nat
      BY <1>1, BlockFields, Zenon
    <3>3. ledgerNow \in Nat
      BY <1>1, Zenon DEF TypeOK
    <3>4. ledgerNow <= blocks[i].at + Window + Drift
      BY <2>1, <3>1, <3>2, <3>3, MintsAssumption
    <3> QED BY <2>1, <3>1, <3>4, Zenon DEF Remembered
  <2>5. /\ blocks' \in Seq([id : Deposit, createdAt : Nat, at : Nat])
        /\ Len(blocks') = Len(blocks) + 1
        /\ \A i \in 1 .. Len(blocks) : blocks'[i] = blocks[i]
        /\ blocks'[Len(blocks) + 1] = new
    <3> HIDE DEF new
    <3> QED BY <2>2, <2>3
  <2>6. new.id = t.id /\ new.createdAt = t.createdAt /\ new.at = ledgerNow
    BY Zenon
  <2> HIDE DEF new
  <2>7. DOMAIN blocks = 1 .. Len(blocks) /\ DOMAIN blocks' = 1 .. Len(blocks) + 1
        /\ Len(blocks) \in Nat
    BY <2>3, <2>5
  <2>8. BlocksOK'
    <3> SUFFICES ASSUME NEW i \in DOMAIN blocks'
                 PROVE  /\ blocks'[i].createdAt = createdAt'[blocks'[i].id]
                        /\ stage'[blocks'[i].id] # "uncredited"
                        /\ blocks'[i].createdAt <= blocks'[i].at + Drift
      BY Zenon DEF BlocksOK
    <3>1. CASE i \in 1 .. Len(blocks)
      BY <1>1, <2>1, <2>5, <2>7, <3>1, Zenon DEF BlocksOK
    <3>2. CASE i = Len(blocks) + 1
      BY <1>1, <2>1, <2>5, <2>6, <3>2, Zenon
    <3> QED BY <2>7, <3>1, <3>2
  <2>9. MintedAtMostOnce'
    <3> SUFFICES ASSUME NEW i \in DOMAIN blocks', NEW j \in DOMAIN blocks',
                        blocks'[i].id = blocks'[j].id
                 PROVE  i = j
      BY Zenon DEF MintedAtMostOnce
    <3>1. CASE i \in DOMAIN blocks /\ j \in DOMAIN blocks
      BY <1>1, <2>5, <2>7, <3>1, Zenon DEF MintedAtMostOnce
    <3>2. CASE i = Len(blocks) + 1 /\ j \in DOMAIN blocks
      BY <2>4, <2>5, <2>6, <2>7, <3>2, Zenon
    <3>3. CASE i \in DOMAIN blocks /\ j = Len(blocks) + 1
      BY <2>4, <2>5, <2>6, <2>7, <3>3, Zenon
    <3> QED BY <2>7, <3>1, <3>2, <3>3
  <2> QED BY <2>5, <2>6, <2>7, <2>8, <2>9
<1> QED BY <1>2, <1>3, Zenon

\* Every step keeps the inductive invariant.
LEMMA InvStep == IInv /\ [Next]_vars => IInv'
<1> SUFFICES ASSUME IInv, [Next]_vars PROVE IInv'
  BY Zenon
<1>t. TypeOK /\ CallOK /\ RoundOK /\ LateOK /\ BlocksOK /\ ReplyOK
      /\ MintedAtMostOnce /\ MintedIsOnLedger
  BY Zenon DEF IInv
<1>n. NoCall \notin Transfer
  BY MintsAssumption, Zenon DEF NoCall, Transfer
<1>1. ASSUME NEW d \in Deposit, CreditSweep(d) PROVE IInv'
  <2>1. TypeOK'
    BY <1>t, <1>1, Zenon DEF CreditSweep, TypeOK
  <2>2. CallOK' /\ LateOK'
    BY <1>t, <1>1, Zenon DEF CreditSweep, CallOK, LateOK, TypeOK, Transfer
  <2>3. RoundOK'
    BY <1>t, <1>1 DEF TypeOK, CreditSweep, RoundOK
  <2>4. BlocksOK'
    <3>1. \A i \in DOMAIN blocks : blocks[i].id \in Deposit /\ blocks[i].id # d
      BY <1>t, <1>1, BlockFields, Zenon DEF BlocksOK, CreditSweep
    <3> QED BY <1>t, <1>1, <3>1, Zenon DEF CreditSweep, BlocksOK, TypeOK
  <2> QED BY <2>1, <2>2, <2>3, <2>4, <1>t, <1>1, Zenon DEF IInv, CreditSweep, ReplyOK,
     MintedAtMostOnce, MintedIsOnLedger, TypeOK
<1>2. CASE StartRound
  <2>1. PICK queue \in [1 .. Cardinality(Selected) -> Selected] :
               InOrder(queue) /\ Proceed(queue, stage)
    BY <1>2, Zenon DEF StartRound
  <2>2. queue \in Seq(Deposit)
    BY <2>1, SelectedType
  <2>3. \A i \in DOMAIN queue : stage[queue[i]] = "pending"
    BY <2>1, SelectedType, Zenon DEF Pending
  <2>4. PICK st : st = stage
    BY Zenon
  <2>5. st \in [Deposit -> Stage] /\ Proceed(queue, st)
    BY <1>t, <2>1, <2>4, Zenon DEF TypeOK, Stage
  <2>6. \A d \in Deposit :
           st[d] = "minted" => \E i \in DOMAIN blocks : blocks[i].id = d
    BY <1>t, <2>4, Zenon DEF MintedIsOnLedger
  <2> QED BY <1>2, <2>1, <2>2, <2>3, <2>4, <2>5, <2>6, ProceedStep, Zenon DEF StartRound
<1>3. CASE HandleReply
  <2>1. PICK queue, st : queue = round
                         /\ st = [stage EXCEPT ![call.id] = Outcome(reply)]
    BY Zenon
  <2>2. call \in Transfer /\ call.id \in Deposit /\ stage[call.id] = "pending"
    BY <1>t, <1>3, Zenon DEF HandleReply, TypeOK, CallOK, Transfer
  <2>3. /\ queue \in Seq(Deposit) /\ InOrder(queue) /\ st \in [Deposit -> Stage]
        /\ Proceed(queue, st)
    BY <1>t, <1>3, <2>1, <2>2, Zenon DEF HandleReply, TypeOK, Stage, RoundOK, Outcome
  <2>4. \A i \in DOMAIN queue : st[queue[i]] = "pending"
    <3>1. \A i \in DOMAIN queue : queue[i] \in Deposit
      BY <2>3
    <3>2. \A i \in DOMAIN queue : queue[i] # call.id /\ stage[queue[i]] = "pending"
      <4> SUFFICES ASSUME NEW i \in DOMAIN queue
                   PROVE queue[i] # call.id /\ stage[queue[i]] = "pending"
        BY Zenon
      <4>1. call.id < queue[i] /\ stage[queue[i]] = "pending"
        BY <1>t, <2>1, Zenon DEF RoundOK
      <4>2. call.id \in Nat /\ queue[i] \in Nat
        BY <2>2, <3>1, MintsAssumption, Zenon
      <4> QED BY <4>1, <4>2
    <3> QED BY <1>t, <2>1, <3>1, <3>2, Zenon DEF TypeOK
  <2>5. \A d \in Deposit : st[d] = "uncredited" <=> stage[d] = "uncredited"
    BY <1>t, <2>1, <2>2, Zenon DEF TypeOK, Outcome
  <2>6. \A d \in Deposit :
           st[d] = "minted" => \E i \in DOMAIN blocks : blocks[i].id = d
    <3>1. Outcome(reply) = "minted" => reply \in {"Ok", "Duplicate"}
      BY Zenon DEF Outcome
    <3> QED BY <1>t, <2>1, <2>2, <3>1, Zenon DEF MintedIsOnLedger, ReplyOK, TypeOK
  <2> QED BY <1>3, <2>3, <2>4, <2>5, <2>6, ProceedStep, Zenon DEF HandleReply
<1>4. CASE TrapOnReply
  <2>1. call \in Transfer /\ call.id \in Deposit /\ stage[call.id] = "pending"
    BY <1>t, <1>4, Zenon DEF TrapOnReply, TypeOK, CallOK, Transfer
  <2>2. BlocksOK'
    BY <1>t, <1>4, <2>1, BlockFields, Zenon DEF TrapOnReply, BlocksOK, TypeOK
  <2>3. CallOK' /\ RoundOK' /\ LateOK' /\ ReplyOK'
    BY <1>t, <1>4, <2>1
    DEF TrapOnReply, CallOK, RoundOK, InOrder, LateOK, ReplyOK, TypeOK, Transfer
  <2> QED BY <2>2, <2>3, <1>t, <1>4, <2>1 DEF IInv, TrapOnReply, TypeOK, MintedAtMostOnce,
     MintedIsOnLedger
<1>5. CASE LedgerExecutes
  <2>1. call \in Transfer /\ call.id \in Deposit
        /\ call.createdAt = createdAt[call.id] /\ stage[call.id] = "pending"
    BY <1>t, <1>5, Zenon DEF LedgerExecutes, TypeOK, CallOK, Transfer
  <2>2. PICK t \in Transfer : t = call
    BY <2>1, Zenon
  <2>3. /\ blocks' \in Seq([id : Deposit, createdAt : Nat, at : Nat])
        /\ BlocksOK' /\ MintedAtMostOnce'
        /\ \A d \in Deposit : (\E i \in DOMAIN blocks : blocks[i].id = d)
                                 => \E i \in DOMAIN blocks' : blocks'[i].id = d
        /\ Answer(t) \in {"Ok", "Duplicate"}
              => \E i \in DOMAIN blocks' : blocks'[i].id = t.id
    BY <1>5, <2>1, <2>2, ExecuteStep, Zenon DEF LedgerExecutes
  <2>4. Answer(t) \in {"Ok", "Duplicate", "TooOld", "Error"}
    BY Zenon DEF Answer
  <2>5. TypeOK'
    BY <1>t, <1>5, <2>1, <2>2, <2>3, <2>4, <1>n, ZenonT(60) DEF LedgerExecutes, TypeOK
  <2>6. CallOK' /\ RoundOK' /\ LateOK'
    BY <1>t, <1>5, Zenon DEF LedgerExecutes, CallOK, RoundOK, LateOK, InOrder
  <2> QED BY <2>3, <2>5, <2>6, <1>5, <2>2, <1>t, Zenon DEF IInv, LedgerExecutes, ReplyOK,
     MintedIsOnLedger
<1>6. CASE LedgerRefuses
  <2>1. /\ call # NoCall /\ reply' \in {"Rejected", "Error"}
        /\ UNCHANGED <<minterVars, round, call, late, blocks, clockVars, upgrades>>
    BY <1>6, Zenon DEF LedgerRefuses
  <2>2. TypeOK' /\ ReplyOK'
    BY <1>t, <2>1, Zenon DEF TypeOK, ReplyOK
  <2> QED BY <2>2, <1>t, <2>1, Zenon DEF IInv, CallOK, RoundOK, LateOK, InOrder, BlocksOK,
     MintedAtMostOnce, MintedIsOnLedger
<1>7. CASE CallAbandoned
  BY <1>t, <1>7 DEF CallAbandoned, TypeOK, CallOK, ReplyOK, RoundOK, LateOK, InOrder,
     BlocksOK, MintedAtMostOnce, MintedIsOnLedger, IInv
<1>8. ASSUME NEW t \in late, LateExecution(t) PROVE IInv'
  <2>1. t \in Transfer /\ t.createdAt = createdAt[t.id] /\ stage[t.id] # "uncredited"
    BY <1>t, <1>8, Zenon DEF TypeOK, LateOK
  <2>2. /\ blocks' \in Seq([id : Deposit, createdAt : Nat, at : Nat])
        /\ BlocksOK' /\ MintedAtMostOnce'
        /\ \A d \in Deposit : (\E i \in DOMAIN blocks : blocks[i].id = d)
                                 => \E i \in DOMAIN blocks' : blocks'[i].id = d
    BY <1>8, <2>1, ExecuteStep, Zenon DEF LateExecution
  <2>3. TypeOK'
    BY <1>t, <1>8, <2>2, Zenon DEF LateExecution, TypeOK
  <2>4. CallOK' /\ RoundOK' /\ LateOK'
    BY <1>t, <1>8, Zenon DEF LateExecution, CallOK, RoundOK, LateOK, InOrder
  <2>5. ReplyOK'
    <3>1. reply \in {"Ok", "Duplicate"} => call.id \in Deposit
      BY <1>t, Zenon DEF TypeOK, Transfer
    <3> QED BY <1>t, <1>8, <2>2, <3>1, Zenon DEF LateExecution, ReplyOK
  <2>6. MintedIsOnLedger'
    BY <1>t, <1>8, <2>2, Zenon DEF LateExecution, MintedIsOnLedger
  <2> QED BY <2>2, <2>3, <2>4, <2>5, <2>6, Zenon DEF IInv
<1>9. CASE Upgrade
  BY <1>t, <1>9 DEF TypeOK, CallOK, Upgrade, LateOK, BlocksOK, MintedAtMostOnce,
     MintedIsOnLedger, RoundOK, ReplyOK, InOrder, IInv
<1>10. CASE Tick \/ LedgerTick \/ UNCHANGED vars
  <2>1. UNCHANGED <<minterVars, roundVars, late, blocks, upgrades>>
    BY <1>10, Zenon DEF Tick, LedgerTick, vars
  <2>2. now' \in Nat /\ ledgerNow' \in Nat
    BY <1>t, <1>10 DEF Tick, LedgerTick, vars, TypeOK
  <2>3. TypeOK'
    BY <1>t, <2>1, <2>2, Zenon DEF TypeOK
  <2> QED
    BY <1>t, <2>1, <2>3, Zenon
    DEF IInv, CallOK, RoundOK, LateOK, BlocksOK, ReplyOK, MintedAtMostOnce,
        MintedIsOnLedger, InOrder
<1> QED
  BY <1>1, <1>2, <1>3, <1>4, <1>5, <1>6, <1>7, <1>8, <1>9, <1>10, Zenon DEF Next

\* The inductive invariant holds in every reachable state.
LEMMA Invariance == Spec => []IInv
BY InvInit, InvStep, PTL DEF Spec

-----------------------------------------------------------------------------
\* The state of the minting timer is well typed at every step of
\* process_pending_mints.
THEOREM MintsTypeCorrect == Spec => []TypeOK
<1>1. IInv => TypeOK
  BY Zenon DEF IInv
<1> QED BY Invariance, <1>1, PTL

\* Retries of process_pending_mint never mint a deposit twice: every attempt
\* carries the created_at_time recorded when the sweep was credited, and a block
\* that the ledger forgot is old enough for the ledger to refuse the attempt.
THEOREM NoDoubleMint == Spec => []MintedAtMostOnce
<1>1. IInv => MintedAtMostOnce
  BY Zenon DEF IInv
<1> QED BY Invariance, <1>1, PTL

\* A deposit recorded as minted by process_pending_mint is on the ledger.
THEOREM MintedIsTruthful == Spec => []MintedIsOnLedger
<1>1. IInv => MintedIsOnLedger
  BY Zenon DEF IInv
<1> QED BY Invariance, <1>1, PTL

\* The assertions of Deposits::mint and Deposits::quarantine_pending_mint never
\* fail: a round only holds deposits that are still pending.
THEOREM MintAssertionsHold == Spec => []NoAssertionFails
<1>1. IInv => NoAssertionFails
  BY DEF NoAssertionFails, IInv, TypeOK, CallOK, Transfer, Pending, RoundOK, CanRecord
<1> QED BY Invariance, <1>1, PTL

--------------------------------------------------------------------------------
(* The iterator over the pending requests. *)

\* The operators of the iterator are those of this module.
LEMMA SameOperators ==
  /\ \A f, S : Batches!Total(f, S) = SumFunctionOnSet(f, S)
  /\ \A S : Batches!Cardinality(S) = Cardinality(S)
<1>. QED  BY Zenon DEF Batches!Total, Batches!SumFunctionOnSet, Batches!FoldFunctionOnSet,
   Batches!MapThenFoldSet, SumFunctionOnSet, FoldFunctionOnSet, MapThenFoldSet,
   Batches!Cardinality, Cardinality

\* The oldest of some requests.
LEMMA OldestIs ==
  ASSUME NEW S, S \subseteq Nat, S # {}
  PROVE  Batches!Min(S) \in S /\ \A y \in S : Batches!Min(S) <= y
BY NatMin, Zenon DEF Batches!Min

\* The number of the batch that the n-th request is in.
BatchNo(n) == (n + MaxPerTx - 1) \div MaxPerTx

\* The n-th request is in batch k + 1 if k full batches come before it.
LEMMA BatchNoIs ==
  ASSUME NEW n \in Nat, NEW k \in Nat, k * MaxPerTx < n, n <= k * MaxPerTx + MaxPerTx
  PROVE  BatchNo(n) = k + 1
<1>. DEFINE m == MaxPerTx
            x == n + m - 1
            q == x \div m
<1>1. m \in Nat /\ m >= 1 /\ k * m \in Nat
  BY BatchesAssumption
<1>2. x \in Nat
  BY <1>1
<1>3. q \in Nat /\ q * m <= x /\ x < q * m + m
  <2>. HIDE DEF x, m
  <2>. QED  BY <1>1, <1>2
<1>4. (k + 1) * m = k * m + m /\ (q + 1) * m = q * m + m /\ q * m \in Nat
  <2>. HIDE DEF m, q
  <2>. QED  BY <1>1, <1>3
<1>5. (k + 1) * m <= x /\ x < (k + 1) * m + m
  <2>. HIDE DEF m
  <2>. QED  BY <1>1, <1>4 DEF m
<1>6. ~(q < k + 1)
  <2>. SUFFICES ASSUME q + 1 <= k + 1 PROVE FALSE
    BY <1>3
  <2>1. (q + 1) * m <= (k + 1) * m
    <3>. HIDE DEF q, m
    <3>. QED  BY <1>1, <1>3
  <2>. HIDE DEF q, m, x
  <2>. QED  BY <1>1, <1>2, <1>3, <1>4, <1>5, <2>1
<1>7. ~(k + 1 < q)
  <2>. SUFFICES ASSUME k + 1 + 1 <= q PROVE FALSE
    BY <1>3
  <2>1. (k + 1 + 1) * m <= q * m /\ (k + 1 + 1) * m = (k + 1) * m + m
    <3>. HIDE DEF q, m
    <3>. QED  BY <1>1, <1>3
  <2>. HIDE DEF q, m, x
  <2>. QED  BY <1>1, <1>2, <1>3, <1>4, <1>5, <2>1
<1>8. q = k + 1
  <2>. HIDE DEF q
  <2>. QED  BY <1>3, <1>6, <1>7
<1>. QED  BY <1>8, Zenon DEF BatchNo

\* Later requests are in later batches, if not in the same.
LEMMA BatchNoGrows ==
  ASSUME NEW a \in Nat, NEW b \in Nat, a <= b
  PROVE  BatchNo(a) \in Nat /\ BatchNo(b) \in Nat /\ BatchNo(a) <= BatchNo(b)
<1>. DEFINE m == MaxPerTx
            x == a + m - 1
            y == b + m - 1
            q == x \div m
            r == y \div m
<1>1. m \in Nat /\ m >= 1
  BY BatchesAssumption
<1>2. x \in Nat /\ y \in Nat /\ x <= y
  BY <1>1
<1>3. /\ q \in Nat /\ q * m <= x /\ x < q * m + m
      /\ r \in Nat /\ r * m <= y /\ y < r * m + m
  <2>. HIDE DEF x, y, m
  <2>. QED  BY <1>1, <1>2
<1>4. q <= r
  <2>. SUFFICES ASSUME r + 1 <= q PROVE FALSE
    BY <1>3
  <2>1. (r + 1) * m <= q * m /\ (r + 1) * m = r * m + m /\ r * m \in Nat /\ q * m \in Nat
    <3>. HIDE DEF q, r, m
    <3>. QED  BY <1>1, <1>3
  <2>. HIDE DEF q, r, m, x, y
  <2>. QED  BY <1>1, <1>2, <1>3, <2>1
<1>. QED  BY <1>3, <1>4, Zenon DEF BatchNo

\* The requests taken so far, and those up to b with their number and their cost.
Taken == pending \ rest
UpTo(b) == {c \in pending : c <= b}
RankOf(b) == Cardinality(UpTo(b))
Costs(b) == SumFunctionOnSet(amount, UpTo(b)) + Fee * BatchNo(RankOf(b))
Budget == Batches!AvailableBalance(balance)
Oldest == Batches!Min(rest)

\* The requests taken that belong into batch k.
InBatch(k) == {b \in Taken : BatchNo(RankOf(b)) = k}

\* Requests are taken oldest first.
TakenInOrder ==
  /\ pending \subseteq Nat /\ IsFiniteSet(pending)
  /\ \A b \in pending : amount[b] \in Nat
  /\ Budget \in Nat /\ available \in Nat /\ ended \in BOOLEAN
  /\ rest \subseteq pending
  /\ \A t \in Taken, r \in rest : t < r
  /\ batches \in Seq(SUBSET Nat)

\* What is left is the balance without what the requests taken cost.
Spent ==
  /\ available = Budget - SumFunctionOnSet(amount, Taken) - Fee * BatchNo(Cardinality(Taken))
  /\ BatchNo(Cardinality(Taken)) = IF batch = {} THEN Len(batches) ELSE Len(batches) + 1

\* Every request is in its batch.
Grouped ==
  /\ \A k \in 1 .. Len(batches) : batches[k] = InBatch(k)
  /\ batch = InBatch(Len(batches) + 1)

\* No batch is short, except the last one.
Filled ==
  IF batch = {}
  THEN \/ Cardinality(Taken) = Len(batches) * MaxPerTx
       \/ rest = {}
       \/ available < amount[Oldest]
  ELSE /\ Cardinality(Taken) = Len(batches) * MaxPerTx + Cardinality(batch)
       /\ Cardinality(batch) <= MaxPerTx

\* The iteration ends at a request that is not affordable.
EndsRight == ended => batch = {} /\ (rest = {} \/ Costs(Oldest) > Budget)

IterInv == TakenInOrder /\ Spent /\ Grouped /\ Filled /\ EndsRight

\* The requests taken come first, and the oldest one left comes next.
LEMMA RanksOfTaken ==
  ASSUME TakenInOrder
  PROVE  /\ IsFiniteSet(Taken) /\ Cardinality(Taken) \in Nat
         /\ SumFunctionOnSet(amount, Taken) \in Nat
         /\ \A b \in pending : IsFiniteSet(UpTo(b)) /\ RankOf(b) \in Nat
         /\ \A b \in Taken : UpTo(b) \subseteq Taken /\ RankOf(b) <= Cardinality(Taken)
<1>1. /\ IsFiniteSet(Taken) /\ Cardinality(Taken) \in Nat
      /\ SumFunctionOnSet(amount, Taken) \in Nat
  <2>1. IsFiniteSet(Taken) /\ \A b \in Taken : amount[b] \in Nat
    BY FS_Subset, Zenon DEF TakenInOrder, Taken
  <2>. QED  BY <2>1, FS_CardinalityType, SumNat, Zenon
<1>2. ASSUME NEW b \in pending PROVE IsFiniteSet(UpTo(b)) /\ RankOf(b) \in Nat
  BY FS_Subset, FS_CardinalityType, Zenon DEF UpTo, TakenInOrder, RankOf
<1>3. ASSUME NEW b \in Taken PROVE UpTo(b) \subseteq Taken /\ RankOf(b) <= Cardinality(Taken)
  <2>1. ASSUME NEW c \in UpTo(b) PROVE c \in Taken
    BY DEF UpTo, TakenInOrder, Taken
  <2>. QED  BY <1>1, <2>1, FS_Subset, Zenon DEF RankOf
<1>. QED  BY <1>1, <1>2, <1>3, Zenon

\* The oldest request left comes next, and the others after it.
LEMMA RankOfOldest ==
  ASSUME TakenInOrder, rest # {}
  PROVE  /\ Oldest \in rest /\ Oldest \notin Taken /\ amount[Oldest] \in Nat
         /\ \A b \in rest : Oldest <= b
         /\ UpTo(Oldest) = Taken \cup {Oldest}
         /\ RankOf(Oldest) = Cardinality(Taken) + 1
         /\ SumFunctionOnSet(amount, UpTo(Oldest)) = SumFunctionOnSet(amount, Taken) + amount[Oldest]
<1>1. rest \subseteq Nat
  BY Zenon DEF TakenInOrder
<1>2. Oldest \in rest /\ \A b \in rest : Oldest <= b
  BY <1>1, OldestIs, Zenon DEF Oldest
<1>3. Oldest \notin Taken /\ amount[Oldest] \in Nat
  BY <1>2, Zenon DEF Taken, TakenInOrder
<1>4. UpTo(Oldest) = Taken \cup {Oldest}
  <2>. DEFINE m == Oldest
  <2>1. ASSUME NEW c \in pending PROVE c <= m <=> c \in Taken \/ c = m
    <3>1. c \in Nat /\ m \in Nat
      BY <1>1, <1>2, Zenon DEF TakenInOrder
    <3>2. c \in Taken => c < m
      BY <1>2, Zenon DEF TakenInOrder
    <3>3. c \notin Taken => m <= c
      BY <1>2, Zenon DEF Taken
    <3>. HIDE DEF m
    <3>. QED  BY <3>1, <3>2, <3>3
  <2>2. m \in pending /\ Taken \subseteq pending
    BY <1>2, Zenon DEF TakenInOrder, Taken
  <2>. HIDE DEF m
  <2>. QED  BY <2>1, <2>2, Zenon DEF UpTo, m
<1>5. IsFiniteSet(Taken) /\ \A b \in Taken : amount[b] \in Int
  BY RanksOfTaken DEF TakenInOrder, Taken
<1>6. RankOf(Oldest) = Cardinality(Taken) + 1
  BY <1>3, <1>4, <1>5, FS_AddElement, Zenon DEF RankOf
<1>7. SumFunctionOnSet(amount, Taken \cup {Oldest}) = SumFunctionOnSet(amount, Taken) + amount[Oldest]
  <2>1. amount[Oldest] \in Int
    BY <1>3
  <2>. QED  BY <1>3, <1>5, <2>1, SumAdd, ZenonT(60)
<1>. QED  BY <1>2, <1>3, <1>4, <1>6, <1>7, Zenon

\* A product grows with a factor.
LEMMA FeesGrow ==
  ASSUME NEW a \in Nat, NEW b \in Nat, a <= b
  PROVE  Fee * a <= Fee * b /\ Fee * a \in Nat /\ Fee * b \in Nat /\ Fee * (a + 1) = Fee * a + Fee
BY BatchesAssumption

\* What a request costs grows with its number.
LEMMA CostsGrow ==
  ASSUME TakenInOrder, NEW b \in pending, NEW S, UpTo(b) \subseteq S, S \subseteq pending
  PROVE  /\ Costs(b) \in Nat
         /\ Costs(b) <= SumFunctionOnSet(amount, S) + Fee * BatchNo(Cardinality(S))
<1>1. IsFiniteSet(S) /\ \A x \in S : amount[x] \in Nat
  BY FS_Subset, Zenon DEF TakenInOrder
<1>2. RankOf(b) <= Cardinality(S) /\ Cardinality(S) \in Nat
  BY <1>1, FS_Subset, FS_CardinalityType, Zenon DEF RankOf
<1>3. /\ BatchNo(RankOf(b)) <= BatchNo(Cardinality(S))
      /\ BatchNo(RankOf(b)) \in Nat /\ BatchNo(Cardinality(S)) \in Nat
  BY <1>2, BatchNoGrows, <1>1, RanksOfTaken, Zenon
<1>4. /\ Fee * BatchNo(RankOf(b)) <= Fee * BatchNo(Cardinality(S))
      /\ Fee * BatchNo(RankOf(b)) \in Nat /\ Fee * BatchNo(Cardinality(S)) \in Nat
  BY <1>3, FeesGrow, Zenon
<1>. QED  BY <1>4, <1>1, SumSubset, SumNat, RanksOfTaken DEF Costs

\* Taking a request: it is the next one, and it belongs into the batch that is being filled.
LEMMA TakeKeeps ==
  ASSUME IterInv, Batches!TakeRequest
  PROVE  IterInv'
<1>. DEFINE b == Oldest
            n == Cardinality(Taken)
            q == Len(batches)
            fee == IF batch = {} THEN Fee ELSE 0
<1>1. /\ rest # {} /\ ended = FALSE /\ Cardinality(batch) < MaxPerTx
      /\ available >= amount[b] + fee
      /\ available' = available - (amount[b] + fee)
      /\ batch' = batch \cup {b} /\ rest' = rest \ {b}
      /\ pending' = pending /\ amount' = amount /\ balance' = balance
      /\ batches' = batches /\ ended' = ended
  BY SameOperators DEF Batches!TakeRequest, Batches!Covered, Batches!ReservedFee, Oldest
<1>2. TakenInOrder /\ Spent /\ Grouped /\ Filled
  BY Zenon DEF IterInv
<1>3. q \in Nat /\ pending \subseteq Nat
  BY <1>2 DEF TakenInOrder
<1>4. /\ IsFiniteSet(Taken) /\ n \in Nat /\ SumFunctionOnSet(amount, Taken) \in Nat
  BY <1>2, RanksOfTaken, Zenon
<1>5. /\ b \in rest /\ b \notin Taken /\ amount[b] \in Nat
      /\ \A c \in rest : b <= c
      /\ UpTo(b) = Taken \cup {b}
      /\ RankOf(b) = n + 1
      /\ SumFunctionOnSet(amount, UpTo(b)) = SumFunctionOnSet(amount, Taken) + amount[b]
  BY <1>1, <1>2, RankOfOldest, Zenon
<1>6. /\ MaxPerTx \in Nat /\ MaxPerTx >= 1 /\ Fee \in Nat /\ fee \in Nat
      /\ available \in Nat /\ Budget \in Nat
  BY <1>2, BatchesAssumption DEF TakenInOrder
<1>7. IsFiniteSet(batch) /\ Cardinality(batch) \in Nat /\ b \notin batch
  <2>1. batch \subseteq Taken
    BY <1>2, Zenon DEF Grouped, InBatch
  <2>. QED  BY <1>4, <1>5, <2>1, FS_Subset, FS_CardinalityType, Zenon
<1>8. n = q * MaxPerTx + Cardinality(batch)
  <2>1. CASE batch = {}
    <3>1. Cardinality(batch) = 0
      BY <2>1, FS_EmptySet, Zenon
    <3>2. ~(available < amount[b])
      BY <1>1, <1>5, <1>6
    <3>3. n = q * MaxPerTx
      BY <1>1, <1>2, <2>1, <3>2, Zenon DEF Filled
    <3>. QED  BY <1>4, <3>1, <3>3
  <2>2. CASE batch # {}
    BY <1>2, <2>2, Zenon DEF Filled
  <2>. QED  BY <2>1, <2>2, Zenon
<1>9. BatchNo(n + 1) = q + 1
  <2>1. q * MaxPerTx \in Nat
    BY <1>3, <1>6
  <2>2. q * MaxPerTx < n + 1 /\ n + 1 <= q * MaxPerTx + MaxPerTx /\ n + 1 \in Nat
    BY <1>1, <1>4, <1>6, <1>7, <1>8, <2>1
  <2>. HIDE DEF q, n
  <2>. QED  BY <1>3, <2>2, BatchNoIs, Zenon
<1>. HIDE DEF b
<1>10. Taken' = Taken \cup {b}
  BY <1>1, <1>5, Zenon DEF Taken, TakenInOrder, IterInv
<1>11. Cardinality(Taken') = n + 1 /\ SumFunctionOnSet(amount, Taken') = SumFunctionOnSet(amount, Taken) + amount[b]
  BY <1>5, <1>10, Zenon DEF RankOf
<1>12. Budget' = Budget
  BY <1>1, Zenon DEF Budget, Batches!AvailableBalance
<1>13. TakenInOrder'
  <2>1. available' \in Nat
    BY <1>1, <1>5, <1>6
  <2>2. rest' \subseteq pending
    BY <1>1, <1>2, Zenon DEF TakenInOrder
  <2>3. ASSUME NEW t \in Taken', NEW r \in rest' PROVE t < r
    BY <1>1, <1>2, <1>5, <1>10 DEF TakenInOrder
  <2>. QED  BY <1>1, <1>2, <1>12, <2>1, <2>2, <2>3, Zenon DEF TakenInOrder
<1>14. batch' # {} /\ Len(batches') = q
  BY <1>1, Zenon
<1>15. Spent'
  <2>1. BatchNo(n) = IF batch = {} THEN q ELSE q + 1
    BY <1>2, Zenon DEF Spent
  <2>2. available = Budget - SumFunctionOnSet(amount, Taken) - Fee * BatchNo(n)
    BY <1>2, Zenon DEF Spent
  <2>3. Fee * (q + 1) = Fee * q + Fee /\ Fee * q \in Nat
    BY <1>3, FeesGrow
  <2>4. Fee * BatchNo(n) + fee = Fee * (q + 1)
    BY <2>1, <2>3, <1>6
  <2>5. available' = Budget - (SumFunctionOnSet(amount, Taken) + amount[b]) - Fee * (q + 1)
    <3>. DEFINE s == SumFunctionOnSet(amount, Taken)
                f == Fee * BatchNo(n)
                g == Fee * (q + 1)
    <3>1. f \in Nat /\ g \in Nat /\ s \in Nat
      BY <1>4, <1>6, <2>1, <2>3
    <3>. HIDE DEF s, f, g, fee
    <3>2. f + fee = g
      BY <2>4, Zenon DEF f, g
    <3>3. available = Budget - s - f
      BY <2>2, Zenon DEF s, f
    <3>4. available' = Budget - (s + amount[b]) - g
      BY <1>1, <1>5, <1>6, <3>1, <3>2, <3>3
    <3>. QED  BY <3>4, Zenon DEF s, g
  <2>. QED  BY <1>1, <1>11, <1>12, <1>14, <2>5, <1>9, Zenon DEF Spent
<1>16. Grouped'
  <2>1. ASSUME NEW k
        PROVE  InBatch(k)' = IF k = q + 1 THEN InBatch(k) \cup {b} ELSE InBatch(k)
    <3>1. InBatch(k)' = {c \in Taken \cup {b} : BatchNo(RankOf(c)) = k}
      BY <1>10, <1>1, Zenon DEF InBatch, RankOf, UpTo
    <3>. HIDE DEF q
    <3>. QED  BY <3>1, <1>5, <1>9, Zenon DEF InBatch
  <2>2. ASSUME NEW k \in 1 .. q PROVE batches'[k] = InBatch(k)'
    <3>1. k # q + 1
      BY <1>3
    <3>. QED  BY <1>1, <1>2, <2>1, <3>1, Zenon DEF Grouped
  <2>. QED  BY <1>14, <2>2, <1>1, <1>2, <2>1, Zenon DEF Grouped
<1>17. Filled'
  <2>1. Cardinality(batch') = Cardinality(batch) + 1
    BY <1>1, <1>7, FS_AddElement, Zenon
  <2>2. q * MaxPerTx \in Nat
    BY <1>3, <1>6
  <2>. QED  BY <1>1, <1>6, <1>7, <1>8, <1>11, <1>14, <2>1, <2>2 DEF Filled
<1>18. EndsRight'
  BY <1>1, Zenon DEF EndsRight
<1>. QED  BY <1>13, <1>15, <1>16, <1>17, <1>18, Zenon DEF IterInv

\* Ending a batch: it is full, or nothing more is covered, and then nothing ever will be.
LEMMA EndKeeps ==
  ASSUME IterInv, Batches!EndBatch
  PROVE  IterInv'
<1>. DEFINE b == Oldest
            n == Cardinality(Taken)
            q == Len(batches)
            fee == IF batch = {} THEN Fee ELSE 0
<1>1. /\ ended = FALSE
      /\ \/ Cardinality(batch) >= MaxPerTx
         \/ rest = {}
         \/ rest # {} /\ ~(available >= amount[b] + fee)
      /\ IF batch = {} THEN ended' = TRUE /\ batches' = batches
                       ELSE batches' = Append(batches, batch) /\ ended' = ended
      /\ batch' = {} /\ rest' = rest /\ available' = available
      /\ pending' = pending /\ amount' = amount /\ balance' = balance
  BY SameOperators DEF Batches!EndBatch, Batches!Covered, Batches!ReservedFee, Oldest
<1>2. TakenInOrder /\ Spent /\ Grouped /\ Filled
  BY Zenon DEF IterInv
<1>3. q \in Nat /\ batches \in Seq(SUBSET Nat)
  BY <1>2 DEF TakenInOrder
<1>4. /\ IsFiniteSet(Taken) /\ n \in Nat /\ SumFunctionOnSet(amount, Taken) \in Nat
  BY <1>2, RanksOfTaken, Zenon
<1>5. /\ MaxPerTx \in Nat /\ MaxPerTx >= 1 /\ Fee \in Nat
      /\ available \in Nat /\ Budget \in Nat
  BY <1>2, BatchesAssumption DEF TakenInOrder
<1>6. /\ Taken' = Taken /\ Oldest' = Oldest /\ Budget' = Budget
      /\ \A k : InBatch(k)' = InBatch(k)
      /\ Costs(Oldest)' = Costs(Oldest)
  BY <1>1, Zenon DEF Taken, Oldest, Budget, Batches!AvailableBalance, Batches!Min, UpTo, RankOf,
     Costs, InBatch
<1>7. CASE batch = {}
  <2>1. /\ ended' = TRUE /\ batches' = batches /\ batch' = batch
        /\ Cardinality(batch) = 0 /\ fee = Fee
    BY <1>1, <1>7, FS_EmptySet, Zenon
  <2>2. TakenInOrder' /\ Spent' /\ Grouped' /\ Filled'
    BY <1>1, <1>2, <1>6, <2>1, Zenon DEF TakenInOrder, Spent, Grouped, Filled
  <2>3. rest = {} \/ Costs(Oldest) > Budget
    <3>. SUFFICES ASSUME rest # {} PROVE Costs(Oldest) > Budget
      BY Zenon
    <3>1. ~(available >= amount[b] + Fee)
      BY <1>1, <1>5, <2>1
    <3>2. /\ amount[b] \in Nat /\ RankOf(b) = n + 1
          /\ SumFunctionOnSet(amount, UpTo(b)) = SumFunctionOnSet(amount, Taken) + amount[b]
      BY <1>2, RankOfOldest, Zenon
    <3>3. Costs(b) = SumFunctionOnSet(amount, Taken) + amount[b] + Fee * BatchNo(n + 1)
      BY <3>2, Zenon DEF Costs
    <3>. HIDE DEF b
    <3>4. Fee * q \in Nat /\ Fee * (q + 1) = Fee * q + Fee
      BY <1>3, FeesGrow
    <3>5. CASE n = q * MaxPerTx
      <4>1. q * MaxPerTx < n + 1 /\ n + 1 <= q * MaxPerTx + MaxPerTx /\ n + 1 \in Nat
        BY <1>4, <1>5, <3>5, <1>3
      <4>2. BatchNo(n + 1) = q + 1
        <5>. HIDE DEF q, n
        <5>. QED  BY <1>3, <4>1, BatchNoIs, Zenon
      <4>. DEFINE s == SumFunctionOnSet(amount, Taken)
                  f == Fee * q
      <4>3. Costs(b) = s + amount[b] + (f + Fee) /\ available = Budget - s - f
        BY <3>3, <3>4, <4>2, <1>2, <1>7, Zenon DEF Spent
      <4>4. s \in Nat /\ f \in Nat
        BY <1>4, <3>4, Zenon
      <4>. HIDE DEF s, f
      <4>. QED  BY <1>5, <3>1, <3>2, <4>3, <4>4 DEF b
    <3>6. CASE n # q * MaxPerTx
      <4>1. available < amount[b]
        BY <1>2, <1>7, <3>6, Zenon DEF Filled, b
      <4>2. BatchNo(n) <= BatchNo(n + 1) /\ BatchNo(n) \in Nat /\ BatchNo(n + 1) \in Nat
        BY <1>4, BatchNoGrows
      <4>3. Fee * BatchNo(n) <= Fee * BatchNo(n + 1) /\ Fee * BatchNo(n) \in Nat /\ Fee * BatchNo(n + 1) \in Nat
        BY <4>2, FeesGrow, Zenon
      <4>. DEFINE s == SumFunctionOnSet(amount, Taken)
                  f == Fee * BatchNo(n)
                  g == Fee * BatchNo(n + 1)
      <4>4. Costs(b) = s + amount[b] + g /\ available = Budget - s - f
        BY <3>3, <1>2, <1>7, Zenon DEF Spent
      <4>5. s \in Nat /\ f \in Nat /\ g \in Nat /\ f <= g
        BY <1>4, <4>3, Zenon
      <4>. HIDE DEF s, f, g
      <4>. QED  BY <1>5, <3>2, <4>1, <4>4, <4>5 DEF b
    <3>. QED  BY <3>5, <3>6, Zenon
  <2>4. EndsRight'
    BY <1>1, <1>6, <2>3, Zenon DEF EndsRight
  <2>. QED  BY <2>2, <2>4, Zenon DEF IterInv
<1>8. CASE batch # {}
  <2>1. batches' = Append(batches, batch) /\ ended' = FALSE /\ fee = 0
    BY <1>1, <1>8, Zenon
  <2>2. /\ batches' \in Seq(SUBSET Nat) /\ Len(batches') = q + 1
        /\ batches'[q + 1] = batch
        /\ \A k \in 1 .. q : batches'[k] = batches[k]
    BY <1>3, <2>1, <1>2 DEF Grouped, InBatch, TakenInOrder, Taken
  <2>3. TakenInOrder'
    BY <1>1, <1>2, <1>6, <2>1, <2>2, Zenon DEF TakenInOrder
  <2>4. Spent'
    BY <1>1, <1>2, <1>6, <1>8, <2>2, Zenon DEF Spent
  <2>5. Grouped'
    <3>1. \A k \in 1 .. q + 1 : batches'[k] = InBatch(k)
      <4>. SUFFICES ASSUME NEW k \in 1 .. q + 1 PROVE batches'[k] = InBatch(k)
        BY Zenon
      <4>1. CASE k = q + 1
        BY <1>2, <2>2, <4>1, Zenon DEF Grouped
      <4>2. CASE k # q + 1
        <5>1. k \in 1 .. q
          BY <1>3, <4>2
        <5>. QED  BY <1>2, <2>2, <5>1, Zenon DEF Grouped
      <4>. QED  BY <4>1, <4>2, Zenon
    <3>2. InBatch(q + 1 + 1) = {}
      <4>. SUFFICES ASSUME NEW c \in Taken, BatchNo(RankOf(c)) = q + 1 + 1 PROVE FALSE
        BY Zenon DEF InBatch
      <4>1. RankOf(c) <= n /\ RankOf(c) \in Nat
        BY <1>2, RanksOfTaken, Zenon DEF Taken
      <4>2. BatchNo(RankOf(c)) <= BatchNo(n)
        BY <1>4, <4>1, BatchNoGrows, Zenon
      <4>3. BatchNo(n) = q + 1
        BY <1>2, <1>8, Zenon DEF Spent
      <4>. QED  BY <1>3, <4>2, <4>3
    <3>. QED  BY <1>1, <1>6, <2>2, <3>1, <3>2, Zenon DEF Grouped
  <2>6. Filled'
    <3>1. n = q * MaxPerTx + Cardinality(batch) /\ Cardinality(batch) <= MaxPerTx
      BY <1>2, <1>8, Zenon DEF Filled
    <3>2. Cardinality(batch) \in Nat
      BY <1>4, FS_Subset, FS_CardinalityType, <1>2, Zenon DEF Grouped, InBatch, TakenInOrder, Taken
    <3>3. (q + 1) * MaxPerTx = q * MaxPerTx + MaxPerTx /\ q * MaxPerTx \in Nat
      BY <1>3, <1>5
    <3>4. \/ n = (q + 1) * MaxPerTx
          \/ rest = {}
          \/ available < amount[b]
      <4>1. CASE Cardinality(batch) >= MaxPerTx
        BY <1>5, <3>1, <3>2, <3>3, <4>1
      <4>2. CASE rest # {} /\ ~(available >= amount[b] + fee)
        BY <1>2, <4>2, RankOfOldest, <1>5, <2>1
      <4>. QED  BY <1>1, <4>1, <4>2, Zenon
    <3>. QED  BY <1>1, <1>6, <2>2, <3>4, Zenon DEF Filled
  <2>. QED  BY <2>3, <2>4, <2>5, <2>6, <2>1, Zenon DEF IterInv, EndsRight
<1>. QED  BY <1>7, <1>8, Zenon

\* Initially no request is taken.
LEMMA IterInit == Batches!Init => IterInv
<1>. SUFFICES ASSUME Batches!Init PROVE IterInv
  BY Zenon
<1>1. /\ pending \in SUBSET Burn /\ amount \in [pending -> Amounts] /\ balance \in 0 .. MaxBalance
      /\ rest = pending /\ available = Budget
      /\ batch = {} /\ batches = << >> /\ ended = FALSE
  BY Zenon DEF Batches!Init, Budget
<1>2. Budget \in Nat
  BY <1>1, BatchesAssumption DEF Budget, Batches!AvailableBalance
<1>3. Taken = {} /\ Cardinality(Taken) = 0 /\ SumFunctionOnSet(amount, Taken) = 0
  BY <1>1, FS_EmptySet, SumEmpty, Zenon DEF Taken
<1>4. BatchNo(0) = 0
  <2>. DEFINE m == MaxPerTx
              q == (0 + m - 1) \div m
  <2>1. m \in Nat /\ m >= 1 /\ m - 1 \in Nat /\ 0 + m - 1 = m - 1
    BY BatchesAssumption
  <2>2. q \in Nat /\ q * m <= m - 1
    <3>. HIDE DEF m
    <3>. QED  BY <2>1
  <2>3. q >= 1 => q * m >= m
    <3>. HIDE DEF m, q
    <3>. QED  BY <2>1, <2>2
  <2>4. q = 0
    <3>. HIDE DEF m, q
    <3>. QED  BY <2>1, <2>2, <2>3
  <2>. QED  BY <2>4, Zenon DEF BatchNo
<1>5. TakenInOrder
  <2>1. pending \subseteq Nat /\ IsFiniteSet(pending) /\ \A b \in pending : amount[b] \in Nat
    BY <1>1, BatchesAssumption, FS_Subset, Zenon
  <2>2. available \in Nat /\ ended \in BOOLEAN /\ rest \subseteq pending
    BY <1>1, <1>2, Zenon
  <2>3. batches \in Seq(SUBSET Nat)
    BY <1>1
  <2>. QED  BY <1>2, <2>1, <2>2, <2>3, <1>3, Zenon DEF TakenInOrder
<1>6. Spent
  BY BatchesAssumption, <1>1, <1>2, <1>3, <1>4 DEF Spent
<1>7. Grouped /\ EndsRight
  BY <1>1, <1>3 DEF Grouped, InBatch, EndsRight
<1>8. Filled
  BY BatchesAssumption, <1>1, <1>3 DEF Filled
<1>. QED  BY <1>5, <1>6, <1>7, <1>8, Zenon DEF IterInv

\* When the iteration has ended, the requests taken are the affordable ones.
LEMMA TakenIsAffordable ==
  ASSUME IterInv, ended = TRUE
  PROVE  \A b \in pending : Costs(b) <= Budget <=> b \in Taken
<1>1. TakenInOrder /\ Spent /\ (rest = {} \/ Costs(Oldest) > Budget)
  BY Zenon DEF IterInv, EndsRight
<1>2. ASSUME NEW b \in Taken PROVE Costs(b) <= Budget
  <2>. DEFINE s == SumFunctionOnSet(amount, Taken)
              f == Fee * BatchNo(Cardinality(Taken))
  <2>1. Costs(b) \in Nat /\ Costs(b) <= s + f
    BY <1>1, CostsGrow, RanksOfTaken, Zenon DEF Taken
  <2>2. available = Budget - s - f /\ available \in Nat /\ Budget \in Nat
    BY <1>1, Zenon DEF Spent, TakenInOrder
  <2>3. s \in Nat /\ f \in Nat
    BY <1>1, RanksOfTaken, BatchNoGrows, FeesGrow
  <2>. HIDE DEF s, f
  <2>. QED  BY <2>1, <2>2, <2>3
<1>3. ASSUME NEW b \in rest PROVE ~(Costs(b) <= Budget)
  <2>1. /\ Costs(Oldest) > Budget /\ Oldest \in rest /\ Oldest <= b
        /\ Oldest \in pending /\ b \in pending
    BY <1>1, RankOfOldest, Zenon DEF TakenInOrder
  <2>2. UpTo(Oldest) \subseteq UpTo(b) /\ UpTo(b) \subseteq pending
    <3>1. \A c \in pending : c <= Oldest => c <= b
      BY <1>1, <2>1 DEF TakenInOrder
    <3>. QED  BY <3>1, Zenon DEF UpTo
  <2>. QED  BY <2>1, <1>1, <2>2, CostsGrow DEF Costs, RankOf, TakenInOrder
<1>. QED  BY <1>2, <1>3, Zenon DEF Taken

\* The batches of the closed form.
LEMMA ClosedForm ==
  ASSUME NEW k
  PROVE  Batches!Batch(pending, amount, balance, k)
           = {b \in pending : Costs(b) <= Budget /\ BatchNo(RankOf(b)) = k}
<1>1. \A b : Batches!Rank(pending, b) = RankOf(b)
  BY SameOperators, Zenon DEF Batches!Rank, RankOf, UpTo
<1>2. \A b : Batches!CostUpTo(pending, amount, b) = Costs(b)
  BY <1>1, SameOperators, Zenon DEF Batches!CostUpTo, Costs, UpTo, Batches!BatchNumber, BatchNo
<1>. QED  BY <1>1, <1>2 DEF Batches!Batch, Batches!Affordable, Budget,
   Batches!BatchNumber, BatchNo

\* The batches that the iterator yields are those of the closed form that module Withdrawals
\* uses, for any requests, amounts, balance, fee and size of a batch.
THEOREM IteratorMatches == Batches!Spec => []BatchesMatch
<1>1. IterInv /\ [Batches!Next]_(Batches!vars) => IterInv'
  <2>. SUFFICES ASSUME IterInv, [Batches!Next]_(Batches!vars) PROVE IterInv'
    BY Zenon
  <2>1. CASE UNCHANGED Batches!vars
    <3>1. /\ pending' = pending /\ amount' = amount /\ balance' = balance /\ rest' = rest
          /\ available' = available /\ batch' = batch /\ batches' = batches /\ ended' = ended
      BY <2>1, Zenon DEF Batches!vars
    <3>2. Taken' = Taken /\ Oldest' = Oldest /\ Budget' = Budget
      BY <3>1, Zenon DEF Taken, Oldest, Budget, Batches!AvailableBalance, Batches!Min
    <3>3. \A c : Costs(c)' = Costs(c)
      BY <3>1, Zenon DEF Costs, UpTo, RankOf
    <3>4. \A k : InBatch(k)' = InBatch(k)
      BY <3>2, <3>1, Zenon DEF InBatch, RankOf, UpTo
    <3>. QED  BY <3>1, <3>2, <3>3, <3>4, Zenon
              DEF IterInv, TakenInOrder, Spent, Grouped, Filled, EndsRight
  <2>. QED  BY <2>1, TakeKeeps, EndKeeps, Zenon DEF Batches!Next
<1>2. IterInv => BatchesMatch
  <2>. SUFFICES ASSUME IterInv, ended = TRUE
                PROVE  /\ \A k \in 1 .. Len(batches) :
                            batches[k] = Batches!Batch(pending, amount, balance, k)
                       /\ Batches!Batch(pending, amount, balance, Len(batches) + 1) = {}
    BY Zenon DEF BatchesMatch, Batches!YieldsClosedForm, IterInv, TakenInOrder
  <2>1. \A k : Batches!Batch(pending, amount, balance, k) = InBatch(k)
    BY ClosedForm, TakenIsAffordable, Zenon DEF InBatch, Taken
  <2>. QED  BY <2>1, Zenon DEF Grouped, IterInv, EndsRight
<1>. QED  BY <1>1, <1>2, IterInit, PTL DEF Batches!Spec

================================================================================
