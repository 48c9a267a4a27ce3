--------------------------- MODULE WithdrawalsProofs ---------------------------
(***************************************************************************)
(* Proofs about module Withdrawals, for every set of accounts and burn     *)
(* indices, every fee, rent and amount, and every bound. The first two     *)
(* parts find an inductive invariant of the types and of what the tables,  *)
(* the rounds and Solana say of each other (IInv), from which the safety   *)
(* properties follow that have no sums in them. The last maps each state to*)
(* one of module Payouts and each step to a step of it or to none. Where   *)
(* the lamports are is the subject of module WithdrawalFundsProofs.        *)
(***************************************************************************)
EXTENDS Withdrawals, TLAPS

\* A reserved batch is on an account of the pool.
ReservedOK == \A r \in reserved : r.account \in pool

TypeInv == TypeOK /\ ReservedOK

\* The batches of a round are typed and on free accounts of the pool.
LEMMA ReservedBatchesType ==
  ASSUME TypeOK
  PROVE  /\ ReservedBatches \subseteq [account : Account, burns : SUBSET Burn]
         /\ \A r \in ReservedBatches : r.account \in pool \ bound
<1>1. \A a : BatchFor(a) \in SUBSET Burn
  BY Zenon DEF BatchFor, Batch, Affordable, Pending
<1>2. FreeAccounts = pool \ bound /\ pool \subseteq Account
  BY Zenon DEF FreeAccounts, TypeOK
<1>. QED  BY <1>1, <1>2 DEF ReservedBatches

\* A round signs bindings that exist, unchanged.
LEMMA BoundWithdrawalsSubset ==
  ASSUME NEW cs
  PROVE  BoundWithdrawals(cs) \subseteq cs
BY Zenon DEF BoundWithdrawals

\* Init and every step keep the types of the state of the withdrawal side.
LEMMA TypeInit == Init => TypeInv
BY WithdrawalsAssumption
   DEF Init, TypeInv, TypeOK, ReservedOK, Status

\* Every step keeps the types.
LEMMA TypeStep == TypeInv /\ [Next]_vars => TypeInv'
<1>. SUFFICES ASSUME TypeInv, [Next]_vars PROVE TypeInv'
  BY Zenon
<1>. USE WithdrawalsAssumption
<1>. USE DEF TypeInv, TypeOK, ReservedOK, ledgerVars, poolVars, txVars,
             roundVars, monitorVars, chainVars
<1>1. ASSUME NEW x \in Amounts, LedgerBurn(x) PROVE TypeInv'
  BY <1>1, Zenon DEF LedgerBurn, Status
<1>2. ASSUME NEW b \in Burn, WithdrawAccepted(b) PROVE TypeInv'
  BY <1>2, Zenon DEF WithdrawAccepted, Status
<1>3. CASE StartRound
  <2>1. reserved' = ReservedBatches /\ pool' = pool
    BY <1>3, Zenon DEF StartRound
  <2>2. toSign' \subseteq Message /\ requested' \subseteq Message
        /\ stage' \in {"idle", "create", "sign", "send"}
    BY <1>3, BoundWithdrawalsSubset DEF StartRound, EnterSign
  <2>. QED  BY <1>3, <2>1, <2>2, ReservedBatchesType, Zenon DEF StartRound
<1>4. ASSUME NEW r \in reserved, SkipBatch(r) PROVE TypeInv'
  <2>1. toSign' \subseteq Message /\ requested' \subseteq Message
        /\ stage' \in {"idle", "create", "sign", "send"}
    BY <1>4, BoundWithdrawalsSubset DEF SkipBatch, FinishCreate, EnterSign
  <2>. QED  BY <1>4, <2>1, Zenon DEF SkipBatch
<1>5. ASSUME NEW r \in reserved, NEW v \in 0..nonce[r.account],
             CreateTransaction(r, v)
      PROVE  TypeInv'
  <2>1. created' \subseteq Message
    BY <1>5 DEF CreateTransaction, Message
  <2>2. toSign' \subseteq Message /\ requested' \subseteq Message
        /\ stage' \in {"idle", "create", "sign", "send"}
    BY <1>5, <2>1, BoundWithdrawalsSubset
       DEF CreateTransaction, FinishCreate, EnterSign
  <2>3. status' \in [Burn -> Status] /\ bound' \subseteq pool
    BY <1>5, Zenon DEF CreateTransaction, Marked, Status
  <2>4. seen' \in [Account -> SUBSET Nat]
    <3>1. r.account \in Account /\ v \in Nat
      BY <1>5
    <3>2. seen[r.account] \cup {v} \in SUBSET Nat
      BY <3>1, Zenon
    <3>. QED  BY <1>5, <3>1, <3>2, Zenon DEF CreateTransaction
  <2>. QED  BY <1>5, <2>1, <2>2, <2>3, <2>4, Zenon DEF CreateTransaction
<1>6. ASSUME NEW m \in toSign, SignFails(m) PROVE TypeInv'
  BY <1>6, Zenon DEF SignFails, FinishSign
<1>7. ASSUME NEW m \in toSign, SignTransaction(m) PROVE TypeInv'
  <2>1. submitted' \subseteq Transaction /\ toSend' \subseteq Transaction
        /\ signatures' \in Nat
    BY <1>7 DEF SignTransaction, Transaction, Message
  <2>2. status' \in [Burn -> Status]
        /\ stage' \in {"idle", "create", "sign", "send"}
    BY <1>7, Zenon DEF SignTransaction, Marked, Status, FinishSign
  <2>. QED  BY <1>7, <2>1, <2>2, Zenon DEF SignTransaction
<1>8. ASSUME NEW t \in toSend, SendTransaction(t) PROVE TypeInv'
  BY <1>8, Zenon DEF SendTransaction
<1>9. CASE StartMonitor
  BY <1>9, Zenon DEF StartMonitor
<1>10. ASSUME NEW t \in toRead, ReadFails(t) PROVE TypeInv'
  BY <1>10, Zenon DEF ReadFails, FinishRead, MonitorStage
<1>11. ASSUME NEW t \in toRead, NEW v \in 0..nonce[t.account], ReadNonce(t, v)
       PROVE  TypeInv'
  BY <1>11, Zenon DEF ReadNonce, FinishRead, MonitorStage
<1>20. ASSUME NEW t \in unchanged, Rebroadcast(t) PROVE TypeInv'
  BY <1>20, Zenon DEF Rebroadcast, MonitorStage
<1>13. ASSUME NEW t \in advanced, OutcomeUnresolved(t) PROVE TypeInv'
  BY <1>13, Zenon DEF OutcomeUnresolved, MonitorStage
<1>14. ASSUME NEW t \in advanced, NEW ok \in BOOLEAN, FinalizeLanded(t, ok)
       PROVE  TypeInv'
  BY <1>14, Zenon DEF FinalizeLanded, MonitorStage, Marked, OutcomeStatus, Status
<1>15. ASSUME NEW t \in network, NEW ok \in BOOLEAN, Land(t, ok)
       PROVE  TypeInv'
  BY <1>15 DEF Land, Transaction
<1>16. CASE SweepLands
  BY <1>16 DEF SweepLands
<1>17. CASE CreditSweep
  BY <1>17, Zenon DEF CreditSweep
<1>18. ASSUME NEW added \in SUBSET (Account \ pool), Upgrade(added)
       PROVE  TypeInv'
  BY <1>18 DEF Upgrade, AddAccounts, Status
<1>19. CASE UNCHANGED vars
  BY <1>19, Zenon DEF vars
<1>. QED
  BY <1>1, <1>2, <1>3, <1>4, <1>5, <1>6, <1>7, <1>8, <1>9, <1>10, <1>11,
     <1>20, <1>13, <1>14, <1>15, <1>16, <1>17, <1>18, <1>19, Zenon DEF Next

\* In every reachable state the minter's maps, the rounds of its two timers
\* and the chain have the types that the code declares.
THEOREM TypeCorrect == Spec => []TypeOK
<1>1. Spec => []TypeInv
  BY TypeInit, TypeStep, PTL DEF Spec
<1>. QED  BY <1>1, PTL DEF TypeInv

(***************************************************************************)
(* The inductive invariant                                                 *)
(***************************************************************************)

\* The seen values tell a fresh nonce from a stale one: a free account has
\* seen every value below its nonce, a bound one also the bound value.
SeenOK ==
  /\ \A a \in Account : a \notin bound => seen[a] = 0..(nonce[a] - 1)
  /\ \A c \in created :
       /\ c.account \in bound
       /\ nonce[c.account] = c.nonce
       /\ seen[c.account] = 0..c.nonce
  /\ \A t \in submitted :
       /\ t.account \in bound
       /\ nonce[t.account] \in {t.nonce, t.nonce + 1}
       /\ seen[t.account] = 0..t.nonce

\* A bound account has exactly one occupant.
OccupancyOK ==
  /\ \A a \in bound : \/ \E c \in created : c.account = a
                      \/ \E t \in submitted : t.account = a
  /\ \A c, d \in created : c.account = d.account => c = d
  /\ \A t, u \in submitted : t.account = u.account => t = u
  /\ \A c \in created, t \in submitted : c.account # t.account

\* A request is in at most one transaction, in the bucket of its status.
BurnsOK ==
  /\ \A c \in created : \A b \in c.burns : status[b] = "created"
  /\ \A t \in submitted : \A b \in t.burns : status[b] = "sent"
  /\ \A c, d \in created : \A b \in c.burns : b \in d.burns => c = d
  /\ \A t, u \in submitted : \A b \in t.burns : b \in u.burns => t = u

\* A signature identifies its transaction.
SignaturesOK ==
  /\ \A t \in submitted : t.sig <= signatures
  /\ \A l \in landed : l.tx.sig <= signatures
  /\ \A t, u \in submitted : t.sig = u.sig => t = u
  /\ \A t \in submitted, l \in landed : l.tx.sig = t.sig => l.tx = t

\* What Solana may still execute, and what it has executed.
ChainOK ==
  /\ \A t \in network \cup toSend : t \in submitted \/ t.nonce < nonce[t.account]
  /\ \A l \in landed : l.tx.nonce < nonce[l.tx.account]
  /\ \A l \in landed : \/ l.tx \in submitted
                       \/ \A b \in l.tx.burns : status[b] = OutcomeStatus(l.ok)
  /\ \A l, m \in landed : \A b \in l.tx.burns : b \in m.tx.burns => l = m
  /\ \A b \in Burn : status[b] \in Final =>
       \E l \in landed : b \in l.tx.burns /\ status[b] = OutcomeStatus(l.ok)

\* A message sent to signing is bound, submitted or out of date.
RequestedOK ==
  /\ \A m \in requested : \/ m \in created
                          \/ \E t \in submitted : MessageOf(t) = m
                          \/ m.nonce < nonce[m.account]
  /\ OneMessagePerNonceValue

\* The rounds in flight hold bindings and transactions that still exist.
RoundsOK ==
  /\ toSign \subseteq created
  /\ toRead \subseteq submitted /\ unchanged \subseteq submitted
  /\ advanced \subseteq submitted
  /\ monitor \in {"resubmit", "finalize"} => toRead = {}
  /\ monitor = "finalize" => unchanged = {}

IInv ==
  /\ TypeInv /\ SeenOK /\ OccupancyOK /\ BurnsOK /\ SignaturesOK /\ ChainOK
  /\ RequestedOK /\ RoundsOK

\* The inductive invariant holds initially.
LEMMA InvInit == Init => IInv
<1>. SUFFICES ASSUME Init PROVE IInv
  BY Zenon
<1>1. TypeInv
  BY TypeInit, Zenon
<1>2. SeenOK
  BY DEF Init, SeenOK
<1>3. OccupancyOK /\ BurnsOK /\ SignaturesOK /\ RoundsOK
  BY Zenon DEF Init, OccupancyOK, BurnsOK, SignaturesOK, RoundsOK
<1>4. ChainOK /\ RequestedOK
  BY Zenon DEF Init, ChainOK, RequestedOK, OneMessagePerNonceValue, Final
<1>. QED  BY <1>1, <1>2, <1>3, <1>4, Zenon DEF IInv

(***************************************************************************)
(* Most steps bind, sign, execute and settle nothing.  They may move a     *)
(* request that is in no transaction yet, and hand a transaction that is   *)
(* submitted to the network.                                               *)
(***************************************************************************)
Quiet ==
  /\ UNCHANGED <<bound, seen, created, submitted, signatures, landed, nonce>>
  /\ \A b \in Burn :
       \/ status'[b] = status[b]
       \/ status[b] \notin {"created", "sent"} \cup Final /\ status'[b] \notin Final
  /\ network' \cup toSend' \subseteq network \cup toSend \cup submitted

ChainPart == SeenOK /\ OccupancyOK /\ BurnsOK /\ SignaturesOK /\ ChainOK

\* A quiet step, one that leaves bindings, signatures and the chain alone, keeps
\* the inductive invariant.
LEMMA QuietStep ==
  ASSUME IInv, TypeInv', Quiet
  PROVE  ChainPart'
<1>. USE DEF IInv, TypeInv, TypeOK, Quiet
<1>1. SeenOK'
  BY Zenon DEF SeenOK
<1>2. OccupancyOK' /\ SignaturesOK'
  BY Zenon DEF OccupancyOK, SignaturesOK
<1>3. BurnsOK'
  BY Zenon DEF BurnsOK, Message, Transaction
<1>4. ChainOK'
  <2>1. \A t \in network' \cup toSend' :
          t \in submitted' \/ t.nonce < nonce'[t.account]
    BY Zenon DEF ChainOK
  <2>2. ASSUME NEW l \in landed', l.tx \notin submitted', NEW b \in l.tx.burns
        PROVE  status'[b] = OutcomeStatus(l.ok)
    BY <2>2 DEF ChainOK, OutcomeStatus, Final, Transaction
  <2>3. ASSUME NEW b \in Burn, status'[b] \in Final
        PROVE  \E l \in landed' : b \in l.tx.burns /\ status'[b] = OutcomeStatus(l.ok)
    BY <2>3, Zenon DEF ChainOK
  <2>. QED  BY <2>1, <2>2, <2>3, Zenon DEF ChainOK
<1>. QED  BY <1>1, <1>2, <1>3, <1>4, Zenon DEF ChainPart

\* What is sent to signing in a step is bound after it, and the binding is the
\* only one of its account and at the account's current value.
LEMMA RequestedStep ==
  ASSUME IInv, TypeInv', SeenOK', OccupancyOK',
         requested' \subseteq requested \cup created',
         \A m \in requested : \/ m \in created'
                              \/ \E t \in submitted' : MessageOf(t) = m
                              \/ m.nonce < nonce'[m.account]
  PROVE  RequestedOK'
<1>. USE DEF IInv, TypeInv, TypeOK
<1>1. ASSUME NEW m \in created', NEW n \in requested',
             m.account = n.account, m.nonce = n.nonce
      PROVE  m = n
  <2>1. CASE n \in created'
    BY <1>1, <2>1, Zenon DEF OccupancyOK
  <2>2. ASSUME NEW t \in submitted', MessageOf(t) = n PROVE m = n
    BY <1>1, <2>2 DEF OccupancyOK, MessageOf
  <2>3. CASE n.nonce < nonce'[n.account]
    BY <1>1, <2>3 DEF SeenOK, Message
  <2>. QED  BY <2>1, <2>2, <2>3, Zenon
<1>2. OneMessagePerNonceValue'
  BY <1>1, Zenon DEF RequestedOK, OneMessagePerNonceValue
<1>. QED  BY <1>2, Zenon DEF RequestedOK

(***************************************************************************)
(* The steps that bind, sign, execute and settle                           *)
(***************************************************************************)

\* What these steps need to know of the state before them.
Known ==
  /\ nonce \in [Account -> Nat] /\ seen \in [Account -> SUBSET Nat]
  /\ created \subseteq Message /\ submitted \subseteq Transaction
  /\ network \subseteq Transaction /\ toSend \subseteq Transaction
  /\ landed \subseteq [tx : Transaction, ok : BOOLEAN]
  /\ requested \subseteq Message /\ signatures \in Nat
  /\ ChainPart /\ RequestedOK

\* The inductive invariant implies it.
LEMMA KnownHolds == IInv => Known
BY Zenon DEF IInv, TypeInv, TypeOK, Known, ChainPart

\* The value that create_transaction binds is the current one of its account.
LEMMA CreateStep ==
  ASSUME IInv, TypeInv', NEW r \in reserved, NEW v \in 0..nonce[r.account],
         CreateTransaction(r, v)
  PROVE  ChainPart' /\ RequestedOK'
<1>. DEFINE c == [account |-> r.account, nonce |-> v, burns |-> r.burns]
<1>. USE KnownHolds DEF Known, ChainPart
<1>1. /\ r.account \in Account \ bound /\ r.burns \subseteq Burn
      /\ \A b \in r.burns : status[b] = "pending"
      /\ v \notin seen[r.account]
  BY Zenon DEF CreateTransaction, CanCreate, IInv, TypeInv, TypeOK
<1>2. /\ bound' = bound \cup {r.account}
      /\ seen' = [seen EXCEPT ![r.account] = seen[r.account] \cup {v}]
      /\ status' = [b \in Burn |-> IF b \in r.burns THEN "created" ELSE status[b]]
      /\ created' = created \cup {c}
      /\ UNCHANGED <<submitted, toSend, nonce, landed, network, signatures>>
  BY Zenon DEF CreateTransaction, Marked, chainVars
<1>3. requested' \subseteq requested \cup created'
  BY BoundWithdrawalsSubset, Zenon DEF CreateTransaction, FinishCreate, EnterSign
<1>4. v = nonce[r.account] /\ seen'[r.account] = 0..v
  <2>1. seen[r.account] = 0..(nonce[r.account] - 1) /\ nonce[r.account] \in Nat
    BY <1>1, Zenon DEF SeenOK
  <2>2. v = nonce[r.account]
    BY <1>1, <2>1
  <2>3. seen'[r.account] = (0..(v - 1)) \cup {v}
    BY <1>1, <1>2, <2>1, <2>2, Zenon
  <2>. QED  BY <2>1, <2>2, <2>3
<1>5. /\ \A d \in created : d.account # r.account
      /\ \A t \in submitted : t.account # r.account
  BY <1>1, Zenon DEF SeenOK
<1>6. c.account = r.account /\ c.nonce = v /\ c.burns = r.burns
  BY Zenon
<1>. HIDE DEF c
<1>7. SeenOK'
  <2>1. \A a \in Account \ bound' : seen'[a] = 0..(nonce'[a] - 1)
    BY <1>1, <1>2, Zenon DEF SeenOK
  <2>2. \A d \in created' : /\ d.account \in bound'
                            /\ nonce'[d.account] = d.nonce
                            /\ seen'[d.account] = 0..d.nonce
    BY <1>1, <1>2, <1>4, <1>5, <1>6, Zenon DEF SeenOK, Message
  <2>3. \A t \in submitted' : /\ t.account \in bound'
                              /\ nonce'[t.account] \in {t.nonce, t.nonce + 1}
                              /\ seen'[t.account] = 0..t.nonce
    BY <1>1, <1>2, <1>5, Zenon DEF SeenOK, Transaction
  <2>. QED  BY <2>1, <2>2, <2>3, Zenon DEF SeenOK
<1>8. OccupancyOK'
  <2>1. \A a \in bound' : \/ \E d \in created' : d.account = a
                          \/ \E u \in submitted' : u.account = a
    BY <1>2, <1>6, Zenon DEF OccupancyOK
  <2>2. \A d, e \in created' : d.account = e.account => d = e
    BY <1>2, <1>5, <1>6 DEF OccupancyOK
  <2>3. \A d \in created', u \in submitted' : d.account # u.account
    BY <1>2, <1>5, <1>6, Zenon DEF OccupancyOK
  <2>4. \A u, w \in submitted' : u.account = w.account => u = w
    BY <1>2, Zenon DEF OccupancyOK
  <2>. QED  BY <2>1, <2>2, <2>3, <2>4, Zenon DEF OccupancyOK
<1>9. BurnsOK'
  BY <1>1, <1>2, <1>6 DEF BurnsOK, Message, Transaction
<1>10. SignaturesOK'
  BY <1>2, Zenon DEF SignaturesOK
<1>11. ChainOK'
  <2>1. \A l \in landed : l.tx \in submitted'
          \/ \A b \in l.tx.burns : status'[b] = OutcomeStatus(l.ok)
    BY <1>1, <1>2, Zenon DEF ChainOK, OutcomeStatus, Transaction
  <2>2. \A b \in Burn : status'[b] \in Final =>
          \E l \in landed : b \in l.tx.burns /\ status'[b] = OutcomeStatus(l.ok)
    BY <1>2, Zenon DEF ChainOK, Final
  <2>. QED  BY <1>2, <2>1, <2>2, Zenon DEF ChainOK
<1>12. RequestedOK'
  BY <1>2, <1>3, <1>7, <1>8, RequestedStep, Zenon DEF RequestedOK
<1>. QED  BY <1>7, <1>8, <1>9, <1>10, <1>11, <1>12, Zenon DEF ChainPart

\* A signed message leaves its binding's account, value and requests as they
\* are, under a signature that no other transaction has.
LEMMA SignStep ==
  ASSUME IInv, TypeInv', NEW m \in toSign, SignTransaction(m)
  PROVE  ChainPart' /\ RequestedOK'
<1>. DEFINE t == [account |-> m.account, nonce |-> m.nonce,
                  burns |-> m.burns, sig |-> signatures + 1]
<1>. USE KnownHolds DEF Known, ChainPart
<1>1. m \in created /\ m \in Message
  BY Zenon DEF SignTransaction, CanSubmit
<1>2. /\ submitted' = submitted \cup {t}
      /\ toSend' = toSend \cup {t}
      /\ created' = created \ {m}
      /\ signatures' = signatures + 1
      /\ status' = [b \in Burn |-> IF b \in m.burns THEN "sent" ELSE status[b]]
      /\ UNCHANGED <<bound, seen, nonce, landed, network, requested>>
  BY Zenon DEF SignTransaction, Marked, poolVars, chainVars
<1>3. /\ t.account = m.account /\ t.nonce = m.nonce /\ t.burns = m.burns
      /\ t.sig = signatures + 1 /\ MessageOf(t) = m
  BY <1>1, Zenon DEF Message, MessageOf
<1>. HIDE DEF t
<1>4. SeenOK'
  <2>1. /\ t.account \in bound /\ seen[t.account] = 0..t.nonce
        /\ nonce[t.account] \in {t.nonce, t.nonce + 1}
    BY <1>1, <1>3, Zenon DEF SeenOK
  <2>. QED  BY <1>2, <2>1, Zenon DEF SeenOK
<1>5. OccupancyOK'
  <2>1. \A a \in bound' : \/ \E d \in created' : d.account = a
                          \/ \E u \in submitted' : u.account = a
    BY <1>2, <1>3 DEF OccupancyOK
  <2>2. /\ \A d \in created' : d.account # t.account
        /\ \A u \in submitted : u.account # t.account
    BY <1>1, <1>2, <1>3 DEF OccupancyOK
  <2>3. \A d, e \in created' : d.account = e.account => d = e
    BY <1>2, Zenon DEF OccupancyOK
  <2>4. \A d \in created', u \in submitted' : d.account # u.account
    BY <1>2, <2>2, Zenon DEF OccupancyOK
  <2>5. \A u, w \in submitted' : u.account = w.account => u = w
    BY <1>2, <2>2, Zenon DEF OccupancyOK
  <2>. QED  BY <2>1, <2>3, <2>4, <2>5, Zenon DEF OccupancyOK
<1>6. BurnsOK'
  <2>1. \A d \in created' : \A b \in d.burns : status'[b] = "created"
    BY <1>1, <1>2 DEF BurnsOK, Message
  <2>2. \A u \in submitted' : \A b \in u.burns : status'[b] = "sent"
    BY <1>1, <1>2, <1>3, Zenon DEF BurnsOK, Message, Transaction
  <2>3. \A u \in submitted : \A b \in u.burns : b \notin t.burns
    BY <1>1, <1>3, Zenon DEF BurnsOK
  <2>. QED  BY <1>2, <2>1, <2>2, <2>3, Zenon DEF BurnsOK
<1>7. SignaturesOK'
  <2>1. \A u \in submitted : u.sig \in Nat /\ u.sig <= signatures
    BY Zenon DEF SignaturesOK, Transaction
  <2>2. \A l \in landed : l.tx.sig \in Nat /\ l.tx.sig <= signatures
    BY Zenon DEF SignaturesOK, Transaction
  <2>3. /\ \A u \in submitted : u.sig # t.sig /\ u.sig <= signatures'
        /\ \A l \in landed : l.tx.sig # t.sig /\ l.tx.sig <= signatures'
        /\ t.sig <= signatures'
    <3>1. \A n \in Nat : n <= signatures => n # t.sig /\ n <= signatures'
      BY <1>2, <1>3
    <3>. QED  BY <1>2, <1>3, <2>1, <2>2, <3>1
  <2>4. \A u, w \in submitted' : u.sig = w.sig => u = w
    BY <1>2, <2>3, Zenon DEF SignaturesOK
  <2>5. \A u \in submitted', l \in landed' : l.tx.sig = u.sig => l.tx = u
    BY <1>2, <2>3, Zenon DEF SignaturesOK
  <2>. QED  BY <1>2, <2>3, <2>4, <2>5, Zenon DEF SignaturesOK
<1>8. ChainOK'
  <2>1. \A l \in landed : l.tx \in submitted'
          \/ \A b \in l.tx.burns : status'[b] = OutcomeStatus(l.ok)
    BY <1>1, <1>2, Zenon DEF ChainOK, BurnsOK, OutcomeStatus, Transaction
  <2>2. \A b \in Burn : status'[b] \in Final =>
          \E l \in landed : b \in l.tx.burns /\ status'[b] = OutcomeStatus(l.ok)
    BY <1>2, Zenon DEF ChainOK, Final
  <2>. QED  BY <1>2, <2>1, <2>2, Zenon DEF ChainOK
<1>9. RequestedOK'
  BY <1>2, <1>3, <1>4, <1>5, RequestedStep, Zenon DEF RequestedOK
<1>. QED  BY <1>4, <1>5, <1>6, <1>7, <1>8, <1>9, Zenon DEF ChainPart

\* A transaction that lands is submitted, and none of its requests was
\* executed before.
LEMMA LandStep ==
  ASSUME IInv, TypeInv', NEW t \in network, NEW ok \in BOOLEAN, Land(t, ok)
  PROVE  ChainPart' /\ RequestedOK'
<1>. DEFINE e == [tx |-> t, ok |-> ok]
<1>. USE KnownHolds DEF Known, ChainPart
<1>1. /\ t.nonce = nonce[t.account]
      /\ nonce' = [nonce EXCEPT ![t.account] = nonce[t.account] + 1]
      /\ landed' = landed \cup {e}
      /\ UNCHANGED <<status, bound, seen, created, submitted, toSend, network,
                     requested, signatures>>
  BY Zenon DEF Land, ledgerVars, poolVars, txVars, roundVars
<1>2. t \in submitted /\ t \in Transaction
  BY <1>1 DEF ChainOK, Transaction
<1>3. e.tx = t /\ e.ok = ok
  BY Zenon
<1>. HIDE DEF e
<1>4. \A a \in Account, n \in Nat : n < nonce[a] => n < nonce'[a]
  <2>1. t.account \in Account
    BY <1>2, Zenon DEF Transaction
  <2>. QED  BY <1>1, <2>1
<1>5. SeenOK'
  <2>1. \A a \in Account \ bound : nonce'[a] = nonce[a]
    BY <1>1, <1>2, Zenon DEF SeenOK
  <2>2. ASSUME NEW c \in created PROVE nonce'[c.account] = nonce[c.account]
    <3>1. c.account \in Account /\ c.account # t.account
      BY <1>2, Zenon DEF OccupancyOK, Message
    <3>. QED  BY <1>1, <3>1, Zenon
  <2>3. \A u \in submitted : nonce'[u.account] \in {u.nonce, u.nonce + 1}
    BY <1>1, <1>2, Zenon DEF SeenOK, OccupancyOK, Transaction
  <2>. QED  BY <1>1, <2>1, <2>2, <2>3, Zenon DEF SeenOK
<1>6. OccupancyOK' /\ BurnsOK'
  BY <1>1 DEF OccupancyOK, BurnsOK
<1>7. SignaturesOK'
  BY <1>1, <1>2, <1>3, Zenon DEF SignaturesOK
<1>8. ASSUME NEW l \in landed, NEW b \in l.tx.burns
      PROVE  b \notin t.burns
  <2>1. CASE l.tx \in submitted
    <3>1. l.tx # t
      BY <1>1, <1>2 DEF ChainOK, Transaction
    <3>. QED  BY <1>2, <2>1, <3>1, Zenon DEF BurnsOK
  <2>2. CASE l.tx \notin submitted
    BY <1>2, <2>2, Zenon DEF ChainOK, BurnsOK, OutcomeStatus
  <2>. QED  BY <2>1, <2>2, Zenon
<1>9. ChainOK'
  <2>1. ASSUME NEW u \in network' \cup toSend'
        PROVE  u \in submitted' \/ u.nonce < nonce'[u.account]
    <3>1. u \in network \cup toSend /\ u \in Transaction
      BY <1>1, Zenon
    <3>2. u.account \in Account /\ u.nonce \in Nat
      BY <3>1, Zenon DEF Transaction
    <3>. QED  BY <1>1, <1>4, <3>1, <3>2, Zenon DEF ChainOK
  <2>2. \A l \in landed' : l.tx.nonce < nonce'[l.tx.account]
    <3>1. ASSUME NEW l \in landed PROVE l.tx.nonce < nonce'[l.tx.account]
      <4>1. l.tx.account \in Account /\ l.tx.nonce \in Nat
        BY Zenon DEF Transaction
      <4>. QED  BY <1>4, <4>1, Zenon DEF ChainOK
    <3>2. e.tx.nonce < nonce'[e.tx.account]
      BY <1>1, <1>2, <1>3 DEF Transaction
    <3>. QED  BY <1>1, <3>1, <3>2, Zenon
  <2>3. \A l \in landed' : l.tx \in submitted'
          \/ \A b \in l.tx.burns : status'[b] = OutcomeStatus(l.ok)
    BY <1>1, <1>2, <1>3, Zenon DEF ChainOK
  <2>4. \A l, n \in landed' : \A b \in l.tx.burns : b \in n.tx.burns => l = n
    BY <1>1, <1>3, <1>8, Zenon DEF ChainOK
  <2>5. \A b \in Burn : status'[b] \in Final =>
          \E l \in landed' : b \in l.tx.burns /\ status'[b] = OutcomeStatus(l.ok)
    BY <1>1, Zenon DEF ChainOK
  <2>. QED  BY <2>1, <2>2, <2>3, <2>4, <2>5, Zenon DEF ChainOK
<1>10. RequestedOK'
  <2>1. ASSUME NEW m \in requested
        PROVE  \/ m \in created'
               \/ \E u \in submitted' : MessageOf(u) = m
               \/ m.nonce < nonce'[m.account]
    <3>1. m.account \in Account /\ m.nonce \in Nat
      BY Zenon DEF Message
    <3>2. m.nonce < nonce[m.account] => m.nonce < nonce'[m.account]
      BY <1>4, <3>1, Zenon
    <3>. QED  BY <1>1, <3>2, Zenon DEF RequestedOK
  <2>2. requested' \subseteq requested \cup created'
    BY <1>1, Zenon
  <2>. QED  BY <1>5, <1>6, <2>1, <2>2, RequestedStep, Zenon
<1>. QED  BY <1>5, <1>6, <1>7, <1>9, <1>10, Zenon DEF ChainPart

\* A transaction is settled by what Solana did with it, and its account is
\* freed after the account's nonce advanced.
LEMMA FinalizeStep ==
  ASSUME IInv, TypeInv', NEW t \in advanced, NEW ok \in BOOLEAN,
         FinalizeLanded(t, ok)
  PROVE  ChainPart' /\ RequestedOK' /\ RoundsOK'
<1>. USE KnownHolds DEF Known, ChainPart
<1>1. t \in submitted /\ t \in Transaction
  BY Zenon DEF IInv, RoundsOK
<1>2. PICK e \in landed : e.tx = t /\ e.ok = ok
  BY <1>1, Zenon DEF FinalizeLanded, SignaturesOK
<1>3. /\ submitted' = submitted \ {t}
      /\ bound' = bound \ {t.account}
      /\ status' = [b \in Burn |-> IF b \in t.burns THEN OutcomeStatus(ok)
                                   ELSE status[b]]
      /\ advanced' = advanced \ {t}
      /\ UNCHANGED <<seen, created, toSign, toSend, toRead, unchanged, nonce,
                     landed, network, requested, signatures>>
  BY Zenon DEF FinalizeLanded, Marked, roundVars, chainVars, monitorVars
<1>4. t.nonce < nonce[t.account] /\ nonce[t.account] = t.nonce + 1
  <2>1. t.account \in Account /\ t.nonce \in Nat /\ nonce[t.account] \in Nat
    BY <1>1, Zenon DEF Transaction
  <2>2. t.nonce < nonce[t.account]
    BY <1>2, Zenon DEF ChainOK
  <2>3. nonce[t.account] \in {t.nonce, t.nonce + 1}
    BY <1>1, Zenon DEF SeenOK
  <2>. QED  BY <2>1, <2>2, <2>3
<1>5. SeenOK'
  <2>1. seen[t.account] = 0..(nonce[t.account] - 1)
    <3>1. t.nonce \in Nat /\ seen[t.account] = 0..t.nonce
      BY <1>1, Zenon DEF SeenOK, Transaction
    <3>. QED  BY <1>4, <3>1
  <2>2. /\ \A c \in created : c.account # t.account
        /\ \A u \in submitted \ {t} : u.account # t.account
    BY <1>1, Zenon DEF OccupancyOK
  <2>. QED  BY <1>3, <2>1, <2>2, Zenon DEF SeenOK
<1>6. OccupancyOK'
  BY <1>3, Zenon DEF OccupancyOK
<1>7. BurnsOK'
  <2>1. \A c \in created : \A b \in c.burns : b \in Burn /\ b \notin t.burns
    BY <1>1, Zenon DEF BurnsOK, Message
  <2>2. \A u \in submitted \ {t} : \A b \in u.burns : b \in Burn /\ b \notin t.burns
    BY <1>1, Zenon DEF BurnsOK, Transaction
  <2>. QED  BY <1>3, <2>1, <2>2, Zenon DEF BurnsOK
<1>8. SignaturesOK'
  BY <1>3, Zenon DEF SignaturesOK
<1>9. ChainOK'
  <2>1. \A u \in network' \cup toSend' :
          u \in submitted' \/ u.nonce < nonce'[u.account]
    BY <1>3, <1>4, Zenon DEF ChainOK
  <2>2. ASSUME NEW l \in landed, l.tx \notin submitted', NEW b \in l.tx.burns
        PROVE  status'[b] = OutcomeStatus(l.ok)
    <3>1. b \in Burn
      BY Zenon DEF Transaction
    <3>2. CASE b \in t.burns
      BY <1>2, <1>3, <3>1, <3>2, Zenon DEF ChainOK
    <3>3. CASE b \notin t.burns
      BY <1>3, <2>2, <3>1, <3>3, Zenon DEF ChainOK
    <3>. QED  BY <3>2, <3>3, Zenon
  <2>3. ASSUME NEW b \in Burn, status'[b] \in Final
        PROVE  \E l \in landed' : b \in l.tx.burns /\ status'[b] = OutcomeStatus(l.ok)
    <3>1. CASE b \in t.burns
      BY <1>2, <1>3, <3>1, Zenon
    <3>2. CASE b \notin t.burns
      BY <1>3, <2>3, <3>2, Zenon DEF ChainOK
    <3>. QED  BY <3>1, <3>2, Zenon
  <2>. QED  BY <1>3, <2>1, <2>2, <2>3, Zenon DEF ChainOK
<1>10. RequestedOK'
  <2>1. MessageOf(t).nonce < nonce[MessageOf(t).account]
    BY <1>4, Zenon DEF MessageOf
  <2>. QED  BY <1>3, <1>5, <1>6, <2>1, RequestedStep, Zenon DEF RequestedOK
<1>11. RoundsOK'
  BY <1>3, Zenon DEF RoundsOK, FinalizeLanded, IInv
<1>. QED  BY <1>5, <1>6, <1>7, <1>8, <1>9, <1>10, <1>11, Zenon DEF ChainPart

\* Every step keeps the inductive invariant, by the lemma of its action.
LEMMA InvStep == IInv /\ [Next]_vars => IInv'
<1>. SUFFICES ASSUME IInv, [Next]_vars PROVE IInv'
  BY Zenon
<1>1. TypeInv /\ TypeInv'
  BY TypeStep, Zenon DEF IInv
<1>. SUFFICES ChainPart' /\ RequestedOK' /\ RoundsOK'
  BY <1>1, Zenon DEF IInv, ChainPart
<1>. USE DEF ledgerVars, poolVars, txVars, roundVars, monitorVars, chainVars
<1>q. ASSUME Quiet, UNCHANGED requested PROVE ChainPart' /\ RequestedOK'
  <2>1. ChainPart'
    BY <1>1, <1>q, QuietStep, Zenon
  <2>2. UNCHANGED <<created, submitted, nonce, requested>>
    BY <1>q, Zenon DEF Quiet
  <2>. QED
    BY <2>1, <2>2, Zenon DEF IInv, RequestedOK, OneMessagePerNonceValue
<1>s. ASSUME Quiet, requested' \subseteq requested \cup created'
      PROVE  ChainPart' /\ RequestedOK'
  <2>1. ChainPart'
    BY <1>1, <1>s, QuietStep, Zenon
  <2>2. UNCHANGED <<created, submitted, nonce>>
    BY <1>s, Zenon DEF Quiet
  <2>3. \A m \in requested : \/ m \in created'
                             \/ \E t \in submitted' : MessageOf(t) = m
                             \/ m.nonce < nonce'[m.account]
    BY <2>2, Zenon DEF IInv, RequestedOK
  <2>. QED  BY <1>1, <1>s, <2>1, <2>3, RequestedStep, Zenon DEF ChainPart
<1>2. ASSUME NEW x \in Amounts, LedgerBurn(x)
      PROVE  ChainPart' /\ RequestedOK' /\ RoundsOK'
  <2>1. Quiet /\ UNCHANGED requested
    BY <1>1, <1>2, Zenon DEF LedgerBurn, Quiet, Final, TypeInv, TypeOK
  <2>2. RoundsOK'
    BY <1>2, Zenon DEF LedgerBurn, IInv, RoundsOK
  <2>. QED  BY <1>q, <2>1, <2>2, Zenon
<1>3. ASSUME NEW b \in Burn, WithdrawAccepted(b)
      PROVE  ChainPart' /\ RequestedOK' /\ RoundsOK'
  <2>1. Quiet /\ UNCHANGED requested
    BY <1>1, <1>3, Zenon DEF WithdrawAccepted, Quiet, Final, TypeInv, TypeOK
  <2>2. RoundsOK'
    BY <1>3, Zenon DEF WithdrawAccepted, IInv, RoundsOK
  <2>. QED  BY <1>q, <2>1, <2>2, Zenon
<1>4. CASE StartRound
  <2>1. Quiet
    BY <1>4, Zenon DEF StartRound, Quiet
  <2>2. toSign' \subseteq created' /\ requested' \subseteq requested \cup created'
    BY <1>4, BoundWithdrawalsSubset, Zenon DEF StartRound, EnterSign, IInv, RoundsOK
  <2>3. RoundsOK'
    BY <1>4, <2>2, Zenon DEF StartRound, IInv, RoundsOK
  <2>. QED  BY <1>s, <2>1, <2>2, <2>3, Zenon
<1>5. ASSUME NEW r \in reserved, SkipBatch(r)
      PROVE  ChainPart' /\ RequestedOK' /\ RoundsOK'
  <2>1. Quiet
    BY <1>5, Zenon DEF SkipBatch, Quiet
  <2>2. toSign' \subseteq created' /\ requested' \subseteq requested \cup created'
    BY <1>5, BoundWithdrawalsSubset, Zenon
       DEF SkipBatch, FinishCreate, EnterSign, IInv, RoundsOK
  <2>3. RoundsOK'
    BY <1>5, <2>2, Zenon DEF SkipBatch, IInv, RoundsOK
  <2>. QED  BY <1>s, <2>1, <2>2, <2>3, Zenon
<1>6. ASSUME NEW r \in reserved, NEW v \in 0..nonce[r.account],
             CreateTransaction(r, v)
      PROVE  ChainPart' /\ RequestedOK' /\ RoundsOK'
  <2>1. toSign' \subseteq created' /\ UNCHANGED <<submitted, monitorVars>>
    BY <1>6, BoundWithdrawalsSubset, Zenon
       DEF CreateTransaction, FinishCreate, EnterSign, IInv, RoundsOK
  <2>2. RoundsOK'
    BY <2>1, Zenon DEF IInv, RoundsOK
  <2>. QED  BY <1>1, <1>6, <2>2, CreateStep, Zenon
<1>7. ASSUME NEW m \in toSign, SignFails(m)
      PROVE  ChainPart' /\ RequestedOK' /\ RoundsOK'
  <2>1. Quiet /\ UNCHANGED requested
    BY <1>7, Zenon DEF SignFails, Quiet
  <2>2. RoundsOK'
    BY <1>7, Zenon DEF SignFails, IInv, RoundsOK
  <2>. QED  BY <1>q, <2>1, <2>2, Zenon
<1>8. ASSUME NEW m \in toSign, SignTransaction(m)
      PROVE  ChainPart' /\ RequestedOK' /\ RoundsOK'
  <2>1. /\ toSign' = toSign \ {m} /\ created' = created \ {m}
        /\ submitted \subseteq submitted' /\ UNCHANGED monitorVars
    BY <1>8, Zenon DEF SignTransaction
  <2>2. RoundsOK'
    BY <2>1, Zenon DEF IInv, RoundsOK
  <2>. QED  BY <1>1, <1>8, <2>2, SignStep, Zenon
<1>9. ASSUME NEW t \in toSend, SendTransaction(t)
      PROVE  ChainPart' /\ RequestedOK' /\ RoundsOK'
  <2>1. Quiet /\ UNCHANGED requested
    BY <1>9, Zenon DEF SendTransaction, Quiet
  <2>2. RoundsOK'
    BY <1>9, Zenon DEF SendTransaction, IInv, RoundsOK
  <2>. QED  BY <1>q, <2>1, <2>2, Zenon
<1>10. CASE StartMonitor
  <2>1. Quiet /\ UNCHANGED requested
    BY <1>10, Zenon DEF StartMonitor, Quiet
  <2>2. RoundsOK'
    BY <1>10, Zenon DEF StartMonitor, IInv, RoundsOK
  <2>. QED  BY <1>q, <2>1, <2>2, Zenon
<1>11. ASSUME NEW t \in toRead, ReadFails(t)
       PROVE  ChainPart' /\ RequestedOK' /\ RoundsOK'
  <2>1. Quiet /\ UNCHANGED requested
    BY <1>11, Zenon DEF ReadFails, Quiet
  <2>2. RoundsOK'
    BY <1>11, Zenon DEF ReadFails, FinishRead, MonitorStage, IInv, RoundsOK
  <2>. QED  BY <1>q, <2>1, <2>2, Zenon
<1>12. ASSUME NEW t \in toRead, NEW v \in 0..nonce[t.account], ReadNonce(t, v)
       PROVE  ChainPart' /\ RequestedOK' /\ RoundsOK'
  <2>1. Quiet /\ UNCHANGED requested
    BY <1>12, Zenon DEF ReadNonce, Quiet
  <2>2. RoundsOK'
    BY <1>12, Zenon DEF ReadNonce, FinishRead, MonitorStage, IInv, RoundsOK
  <2>. QED  BY <1>q, <2>1, <2>2, Zenon
<1>20. ASSUME NEW t \in unchanged, Rebroadcast(t)
       PROVE  ChainPart' /\ RequestedOK' /\ RoundsOK'
  <2>1. Quiet /\ UNCHANGED requested
    BY <1>20, Zenon DEF Rebroadcast, Quiet, IInv, RoundsOK
  <2>2. toRead = {}
    BY <1>20, Zenon DEF Rebroadcast, IInv, RoundsOK
  <2>3. RoundsOK'
    BY <1>20, <2>2, Zenon DEF Rebroadcast, MonitorStage, IInv, RoundsOK
  <2>. QED  BY <1>q, <2>1, <2>3, Zenon
<1>14. ASSUME NEW t \in advanced, OutcomeUnresolved(t)
       PROVE  ChainPart' /\ RequestedOK' /\ RoundsOK'
  <2>1. Quiet /\ UNCHANGED requested
    BY <1>14, Zenon DEF OutcomeUnresolved, Quiet
  <2>2. RoundsOK'
    BY <1>14, Zenon DEF OutcomeUnresolved, MonitorStage, IInv, RoundsOK
  <2>. QED  BY <1>q, <2>1, <2>2, Zenon
<1>15. ASSUME NEW t \in advanced, NEW ok \in BOOLEAN, FinalizeLanded(t, ok)
       PROVE  ChainPart' /\ RequestedOK' /\ RoundsOK'
  BY <1>1, <1>15, FinalizeStep, Zenon
<1>16. ASSUME NEW t \in network, NEW ok \in BOOLEAN, Land(t, ok)
       PROVE  ChainPart' /\ RequestedOK' /\ RoundsOK'
  <2>1. RoundsOK'
    BY <1>16, Zenon DEF Land, IInv, RoundsOK
  <2>. QED  BY <1>1, <1>16, <2>1, LandStep, Zenon
<1>17. CASE SweepLands \/ CreditSweep
  <2>1. Quiet /\ UNCHANGED requested
    BY <1>17, Zenon DEF SweepLands, CreditSweep, Quiet
  <2>2. RoundsOK'
    BY <1>17, Zenon DEF SweepLands, CreditSweep, IInv, RoundsOK
  <2>. QED  BY <1>q, <2>1, <2>2, Zenon
<1>18. ASSUME NEW added \in SUBSET (Account \ pool), Upgrade(added)
       PROVE  ChainPart' /\ RequestedOK' /\ RoundsOK'
  <2>1. network' \cup toSend' \subseteq network \cup toSend \cup submitted
    BY <1>18, Zenon DEF Upgrade, IInv, RoundsOK
  <2>2. Quiet /\ UNCHANGED requested
    BY <1>1, <1>18, <2>1, Zenon DEF Upgrade, Quiet, Final, TypeInv, TypeOK
  <2>3. RoundsOK'
    BY <1>18, Zenon DEF Upgrade, IInv, RoundsOK
  <2>. QED  BY <1>q, <2>2, <2>3, Zenon
<1>19. CASE UNCHANGED vars
  <2>1. Quiet /\ UNCHANGED requested
    BY <1>19, Zenon DEF vars, Quiet
  <2>2. RoundsOK'
    BY <1>19, Zenon DEF vars, IInv, RoundsOK
  <2>. QED  BY <1>q, <2>1, <2>2, Zenon
<1>. QED
  BY <1>2, <1>3, <1>4, <1>5, <1>6, <1>7, <1>8, <1>9, <1>10, <1>11, <1>12,
     <1>20, <1>14, <1>15, <1>16, <1>17, <1>18, <1>19, Zenon DEF Next

\* The inductive invariant holds in every reachable state.
LEMMA Invariance == Spec => []IInv
BY InvInit, InvStep, PTL DEF Spec

(***************************************************************************)
(* The theorems                                                            *)
(***************************************************************************)

\* No withdrawal request is paid by two transactions: a request in a landed
\* transaction is either still tracked as sent with that transaction, or has
\* the final status that keeps it out of every later batch.
THEOREM NoDoublePayment == Spec => []PaidAtMostOnce
<1>1. IInv => PaidAtMostOnce
  BY Zenon DEF IInv, ChainOK, PaidAtMostOnce
<1>. QED  BY <1>1, Invariance, PTL

\* sign_transactions_batch never asks for signatures of two messages with the
\* same durable nonce value.
THEOREM NoConflictingSignatures == Spec => []OneMessagePerNonceValue
<1>1. IInv => OneMessagePerNonceValue
  BY Zenon DEF IInv, RequestedOK
<1>. QED  BY <1>1, Invariance, PTL

\* What withdraw_sol_status reports as final is what happened on Solana.
THEOREM TruthfulStatus == Spec => []OutcomeReported
<1>1. IInv => OutcomeReported
  <2>. SUFFICES ASSUME IInv, NEW b \in Burn
       PROVE  /\ status[b] = "successful" => \E l \in landed : l.ok /\ b \in l.tx.burns
              /\ status[b] = "failed" =>
                   /\ \E l \in landed : ~l.ok /\ b \in l.tx.burns
                   /\ \A l \in landed : b \in l.tx.burns => ~l.ok
    BY Zenon DEF OutcomeReported
  <2>1. \A l \in landed : l.ok \in BOOLEAN
    BY Zenon DEF IInv, TypeInv, TypeOK
  <2>2. status[b] \in Final =>
          \E l \in landed : b \in l.tx.burns /\ status[b] = OutcomeStatus(l.ok)
    BY Zenon DEF IInv, ChainOK
  <2>3. \A l \in landed : b \in l.tx.burns =>
          status[b] = "sent" \/ status[b] = OutcomeStatus(l.ok)
    BY Zenon DEF IInv, ChainOK, BurnsOK
  <2>. QED  BY <2>1, <2>2, <2>3, Zenon DEF OutcomeStatus, Final
<1>. QED  BY <1>1, Invariance, PTL

\* A nonce account is Bound exactly while one created or submitted
\* transaction occupies it.
THEOREM ExclusiveBinding == Spec => []BoundToOneTransaction
<1>1. IInv => BoundToOneTransaction
  <2>. SUFFICES ASSUME IInv PROVE BoundToOneTransaction
    BY Zenon
  <2>1. SeenOK /\ OccupancyOK
    BY Zenon DEF IInv
  <2>2. bound \subseteq {c.account : c \in created \cup submitted}
    BY <2>1, Zenon DEF OccupancyOK
  <2>3. {c.account : c \in created \cup submitted} \subseteq bound
    BY <2>1, Zenon DEF SeenOK
  <2>4. \A c, d \in created \cup submitted : c.account = d.account => c = d
    BY <2>1, Zenon DEF OccupancyOK
  <2>. QED  BY <2>2, <2>3, <2>4, Zenon DEF BoundToOneTransaction
<1>. QED  BY <1>1, Invariance, PTL

\* Only a transaction the minter still tracks can land: an account that was
\* freed has no transaction left that could be executed on it.
THEOREM FreedAccountsAreQuiet == Spec => []OnlySubmittedCanLand
<1>1. IInv => OnlySubmittedCanLand
  <2>. SUFFICES ASSUME IInv, NEW t \in network, t.nonce = nonce[t.account]
                PROVE  t \in submitted
    BY Zenon DEF OnlySubmittedCanLand
  <2>1. t \in submitted \/ t.nonce < nonce[t.account]
    BY Zenon DEF IInv, ChainOK
  <2>2. t.nonce \in Nat
    BY KnownHolds, Zenon DEF Known, Transaction
  <2>. QED  BY <2>1, <2>2
<1>. QED  BY <1>1, Invariance, PTL

--------------------------------------------------------------------------------
(* The refinement of Payouts. *)

\* The phase of a request that is being processed says what Solana did with it.
InFlightPhase(b) ==
  IF Executions(b) = {} THEN "owed"
  ELSE IF \E l \in Executions(b) : l.ok THEN "paid" ELSE "refused"

\* The phase of each status.
LEMMA PhaseOfStatus ==
  ASSUME NEW b \in Burn
  PROVE  /\ status[b] = "none"       => PayoutPhase(b) = "unrequested"
         /\ status[b] = "burned"     => PayoutPhase(b) = "requested"
         /\ status[b] = "lost"       => PayoutPhase(b) = "lost"
         /\ status[b] = "successful" => PayoutPhase(b) = "reportedPaid"
         /\ status[b] = "failed"     => PayoutPhase(b) = "reportedRefused"
         /\ status[b] \in {"pending", "created", "sent"} =>
              PayoutPhase(b) = InFlightPhase(b)
BY Zenon DEF PayoutPhase, InFlightPhase

\* A request is executed only after it was sent.
LEMMA ExecutedWasSent ==
  ASSUME IInv, NEW b \in Burn, status[b] \notin {"sent"} \cup Final
  PROVE  Executions(b) = {}
<1>1. \A l \in landed : b \notin l.tx.burns
  <2>1. \A l \in landed : b \in l.tx.burns =>
          status[b] = "sent" \/ status[b] = OutcomeStatus(l.ok)
    BY Zenon DEF IInv, ChainOK, BurnsOK
  <2>. QED  BY <2>1, Zenon DEF OutcomeStatus, Final
<1>. QED  BY <1>1, Zenon DEF Executions

\* The initial states are those of Payouts.
LEMMA RefinesInit == Init => PayoutsOf!Init
<1>. SUFFICES ASSUME Init PROVE PayoutsOf!Init
  BY Zenon
<1>1. \A b \in Burn : status[b] = "none" /\ Executions(b) = {}
  BY Zenon DEF Init, Executions
<1>2. \A b \in Burn : PayoutPhase(b) = "unrequested"
  BY <1>1, PhaseOfStatus, Zenon
<1>3. [b \in Burn |-> PayoutPhase(b)] = [b \in Burn |-> "unrequested"]
  BY <1>2, Zenon
<1>4. [b \in Burn |-> {l.tx.sig : l \in {e \in Executions(b) : e.ok}}] = [b \in Burn |-> {}]
  BY <1>1, Zenon
<1>. QED  BY <1>3, <1>4, Zenon DEF PayoutsOf!Init

\* Requests that change phase together, and no others, are moved.
LEMMA PhaseMoved ==
  ASSUME NEW S \in SUBSET Burn, NEW from, NEW to,
         \A b \in S : PayoutPhase(b) = from,
         \A b \in Burn : PayoutPhase(b)' = IF b \in S THEN to ELSE PayoutPhase(b)
  PROVE  PayoutsOf!Moved(S, from, to)
<1>1. \A b \in S : [c \in Burn |-> PayoutPhase(c)][b] = from
  BY Zenon
<1>2. [b \in Burn |-> PayoutPhase(b)]'
        = [b \in Burn |-> IF b \in S THEN to ELSE [c \in Burn |-> PayoutPhase(c)][b]]
  BY Zenon
<1>. QED  BY <1>1, <1>2, Zenon DEF PayoutsOf!Moved

\* While nothing lands the payments are the same.
LEMMA PaymentsKept ==
  ASSUME landed' = landed
  PROVE  /\ \A b \in Burn : Executions(b)' = Executions(b)
         /\ \A b \in Burn : InFlightPhase(b)' = InFlightPhase(b)
         /\ UNCHANGED [b \in Burn |-> {l.tx.sig : l \in {e \in Executions(b) : e.ok}}]
BY Zenon DEF Executions, InFlightPhase

\* While nothing lands, a request whose status stays keeps its phase.
LEMMA PhaseKept ==
  ASSUME landed' = landed, NEW b \in Burn, status'[b] = status[b]
  PROVE  PayoutPhase(b)' = PayoutPhase(b)
BY PaymentsKept, Zenon DEF PayoutPhase

\* A step in which nothing lands and every request keeps its phase stutters.
LEMMA Stutters ==
  ASSUME landed' = landed,
         \A b \in Burn :
            status'[b] = status[b]
            \/ {status[b], status'[b]} \subseteq {"pending", "created", "sent"}
  PROVE  UNCHANGED PayoutsOf!vars
<1>1. ASSUME NEW b \in Burn PROVE PayoutPhase(b)' = PayoutPhase(b)
  <2>1. Executions(b)' = Executions(b) /\ InFlightPhase(b)' = InFlightPhase(b)
    BY PaymentsKept, Zenon
  <2>2. CASE status'[b] = status[b]
    BY <2>2, PhaseKept, Zenon
  <2>3. CASE {status[b], status'[b]} \subseteq {"pending", "created", "sent"}
    <3>1. PayoutPhase(b) = InFlightPhase(b)
      BY <2>3, Zenon DEF PayoutPhase, InFlightPhase
    <3>2. PayoutPhase(b)' = InFlightPhase(b)'
      BY <2>3, Zenon DEF PayoutPhase, InFlightPhase
    <3>. QED  BY <2>1, <3>1, <3>2, Zenon
  <2>. QED  BY <2>2, <2>3, Zenon
<1>2. [b \in Burn |-> PayoutPhase(b)]' = [b \in Burn |-> PayoutPhase(b)]
  BY <1>1, Zenon
<1>. QED  BY <1>2, PaymentsKept, Zenon DEF PayoutsOf!vars

\* A burn is a request, and its acceptance makes it owed.
LEMMA RefinesRequest ==
  ASSUME IInv, NEW x \in Amounts, LedgerBurn(x)
  PROVE  PayoutsOf!Next
<1>1. landed' = landed
  BY Zenon DEF LedgerBurn, chainVars
<1>2. PICK c \in Burn : status[c] = "none" /\ status' = [status EXCEPT ![c] = "burned"]
  BY Zenon DEF LedgerBurn
<1>3. status \in [Burn -> Status]
  BY Zenon DEF IInv, TypeInv, TypeOK
<1>4. \A b \in Burn : Executions(b)' = Executions(b)
  BY <1>1, PaymentsKept, Zenon
<1>5. \A b \in {c} : PayoutPhase(b) = "unrequested"
  BY <1>2, PhaseOfStatus, Zenon
<1>6. \A b \in Burn : PayoutPhase(b)' = IF b \in {c} THEN "requested" ELSE PayoutPhase(b)
  <2>1. PayoutPhase(c)' = "requested"
    BY <1>2, <1>3, Zenon DEF PayoutPhase
  <2>2. \A b \in Burn : b # c => PayoutPhase(b)' = PayoutPhase(b)
    BY <1>1, <1>2, <1>3, PhaseKept, Zenon
  <2>. QED  BY <2>1, <2>2, Zenon
<1>7. PayoutsOf!Moved({c}, "unrequested", "requested")
  BY <1>5, <1>6, PhaseMoved, Zenon
<1>8. PayoutsOf!Request(c)
  BY <1>1, <1>7, PaymentsKept, Zenon DEF PayoutsOf!Request
<1>. QED  BY <1>8, Zenon DEF PayoutsOf!Next

\* withdraw_sol recording the request is a step that accepts it.
LEMMA RefinesAccept ==
  ASSUME IInv, NEW c \in Burn, WithdrawAccepted(c)
  PROVE  PayoutsOf!Next
<1>1. landed' = landed /\ status[c] = "burned" /\ status' = [status EXCEPT ![c] = "pending"]
  BY Zenon DEF WithdrawAccepted, chainVars
<1>2. status \in [Burn -> Status]
  BY Zenon DEF IInv, TypeInv, TypeOK
<1>3. \A b \in Burn : Executions(b)' = Executions(b)
  BY <1>1, PaymentsKept, Zenon
<1>4. Executions(c) = {}
  BY <1>1, ExecutedWasSent, Zenon DEF Final
<1>5. \A b \in {c} : PayoutPhase(b) = "requested"
  BY <1>1, PhaseOfStatus, Zenon
<1>6. \A b \in Burn : PayoutPhase(b)' = IF b \in {c} THEN "owed" ELSE PayoutPhase(b)
  <2>1. status'[c] = "pending" /\ Executions(c)' = {}
    BY <1>1, <1>2, <1>3, <1>4, Zenon
  <2>2. PayoutPhase(c)' = "owed"
    BY <2>1, Zenon DEF PayoutPhase
  <2>3. \A b \in Burn : b # c => PayoutPhase(b)' = PayoutPhase(b)
    BY <1>1, <1>2, PhaseKept, Zenon
  <2>. QED  BY <2>2, <2>3, Zenon
<1>7. PayoutsOf!Moved({c}, "requested", "owed")
  BY <1>5, <1>6, PhaseMoved, Zenon
<1>8. PayoutsOf!Accept(c)
  BY <1>1, <1>7, PaymentsKept, Zenon DEF PayoutsOf!Accept
<1>. QED  BY <1>8, Zenon DEF PayoutsOf!Next

\* An upgrade loses the requests whose acceptance was not recorded.
LEMMA RefinesLose ==
  ASSUME IInv, NEW added, Upgrade(added)
  PROVE  PayoutsOf!Next
<1>. DEFINE S == {b \in Burn : status[b] = "burned"}
<1>1. /\ landed' = landed
      /\ status' = [b \in Burn |-> IF status[b] = "burned" THEN "lost" ELSE status[b]]
  BY Zenon DEF Upgrade, chainVars
<1>2. \A b \in Burn : Executions(b)' = Executions(b)
  BY <1>1, PaymentsKept, Zenon
<1>3. \A b \in S : PayoutPhase(b) = "requested"
  BY PhaseOfStatus, Zenon
<1>4. \A b \in Burn : PayoutPhase(b)' = IF b \in S THEN "lost" ELSE PayoutPhase(b)
  <2>1. \A b \in S : PayoutPhase(b)' = "lost"
    BY <1>1, Zenon DEF PayoutPhase
  <2>2. \A b \in Burn : b \notin S => PayoutPhase(b)' = PayoutPhase(b)
    BY <1>1, PhaseKept, Zenon
  <2>. QED  BY <2>1, <2>2, Zenon
<1>5. S \in SUBSET Burn
  BY Zenon
<1>. HIDE DEF S
<1>6. PayoutsOf!Moved(S, "requested", "lost")
  BY <1>3, <1>4, <1>5, PhaseMoved, Zenon
<1>7. PayoutsOf!Lose(S)
  BY <1>1, <1>6, PaymentsKept, Zenon DEF PayoutsOf!Lose
<1>. QED  BY <1>5, <1>7, Zenon DEF PayoutsOf!Next

\* A landing pays or refuses the whole batch, none of which was executed
\* before.
LEMMA RefinesLand ==
  ASSUME IInv, NEW t \in network, NEW ok \in BOOLEAN, Land(t, ok)
  PROVE  PayoutsOf!Next \/ UNCHANGED PayoutsOf!vars
<1>. DEFINE e == [tx |-> t, ok |-> ok]
            S == t.burns
<1>1. landed' = landed \cup {e} /\ status' = status /\ t.nonce = nonce[t.account]
  BY Zenon DEF Land, ledgerVars
<1>2. t \in Transaction /\ t \in submitted
  <2>1. t \in Transaction
    BY Zenon DEF IInv, TypeInv, TypeOK
  <2>. QED  BY <1>1, <2>1 DEF IInv, ChainOK, Transaction
<1>3. S \in SUBSET Burn /\ \A b \in S : status[b] = "sent"
  BY <1>2, Zenon DEF IInv, BurnsOK, Transaction
<1>4. ASSUME NEW l \in landed, NEW b \in l.tx.burns
      PROVE  b \notin S
  <2>1. \A m \in landed : m.tx.nonce < nonce[m.tx.account]
    BY Zenon DEF IInv, ChainOK
  <2>2. l.tx # t
    BY <1>1, <1>2, <2>1 DEF Transaction
  <2>3. CASE l.tx \in submitted
    BY <1>2, <2>2, <2>3, Zenon DEF IInv, BurnsOK
  <2>4. CASE l.tx \notin submitted
    BY <1>3, <2>4, Zenon DEF IInv, ChainOK, OutcomeStatus
  <2>. QED  BY <2>3, <2>4, Zenon
<1>5. e.tx = t /\ e.ok = ok
  BY Zenon
<1>. HIDE DEF e, S
<1>6. \A b \in Burn : Executions(b)' = IF b \in S THEN {e} ELSE Executions(b)
  BY <1>1, <1>4, <1>5, Zenon DEF Executions, S
<1>7. \A b \in S : Executions(b) = {}
  BY <1>4, Zenon DEF Executions
<1>8. \A b \in S : PayoutPhase(b) = "owed"
  BY <1>3, <1>7, PhaseOfStatus, Zenon DEF InFlightPhase
<1>9. \A b \in Burn : PayoutPhase(b)' =
         IF b \in S THEN (IF ok THEN "paid" ELSE "refused") ELSE PayoutPhase(b)
  <2>1. ASSUME NEW b \in S
        PROVE  PayoutPhase(b)' = IF ok THEN "paid" ELSE "refused"
    <3>1. b \in Burn /\ status'[b] = "sent" /\ Executions(b)' = {e}
      BY <1>1, <1>3, <1>6, Zenon
    <3>2. PayoutPhase(b)' = IF \E l \in {e} : l.ok THEN "paid" ELSE "refused"
      BY <3>1, Zenon DEF PayoutPhase
    <3>. QED  BY <1>5, <3>2, Zenon
  <2>2. ASSUME NEW b \in Burn, b \notin S PROVE PayoutPhase(b)' = PayoutPhase(b)
    <3>1. Executions(b)' = Executions(b) /\ status'[b] = status[b]
      BY <1>1, <1>6, <2>2, Zenon
    <3>. QED  BY <3>1, Zenon DEF PayoutPhase
  <2>. QED  BY <2>1, <2>2, Zenon
<1>10. CASE ~ok
  <2>1. PayoutsOf!Moved(S, "owed", "refused")
    BY <1>3, <1>8, <1>9, <1>10, PhaseMoved, Zenon
  <2>2. \A b \in Burn : {l.tx.sig : l \in {m \in Executions(b)' : m.ok}}
                          = {l.tx.sig : l \in {m \in Executions(b) : m.ok}}
    BY <1>5, <1>6, <1>7, <1>10, Zenon
  <2>3. UNCHANGED [b \in Burn |-> {l.tx.sig : l \in {m \in Executions(b) : m.ok}}]
    BY <2>2, Zenon
  <2>4. PayoutsOf!Refuse(S)
    BY <2>1, <2>3, Zenon DEF PayoutsOf!Refuse
  <2>. QED  BY <1>3, <2>4, Zenon DEF PayoutsOf!Next
<1>11. CASE ok
  <2>1. PayoutsOf!Moved(S, "owed", "paid")
    BY <1>3, <1>8, <1>9, <1>11, PhaseMoved, Zenon
  <2>2. \A b \in Burn : {l.tx.sig : l \in {m \in Executions(b)' : m.ok}}
                          = IF b \in S THEN {t.sig}
                            ELSE {l.tx.sig : l \in {m \in Executions(b) : m.ok}}
    BY <1>5, <1>6, <1>11, Zenon
  <2>3. [b \in Burn |-> {l.tx.sig : l \in {m \in Executions(b) : m.ok}}]'
          = [b \in Burn |-> IF b \in S THEN {t.sig}
               ELSE [c \in Burn |-> {l.tx.sig : l \in {m \in Executions(c) : m.ok}}][b]]
    BY <2>2, Zenon
  <2>4. CASE S # {}
    <3>1. PICK b \in S : TRUE
      BY <2>4, Zenon
    <3>2. t.sig \in [c \in Burn |-> {l.tx.sig : l \in {m \in Executions(c) : m.ok}}]'[b]
      BY <1>3, <2>2, Zenon
    <3>3. PayoutsOf!Pay(S)
      BY <2>1, <2>3, <3>1, <3>2, Zenon DEF PayoutsOf!Pay
    <3>. QED  BY <1>3, <3>3, Zenon DEF PayoutsOf!Next
  <2>5. CASE S = {}
    <3>1. UNCHANGED [b \in Burn |-> {l.tx.sig : l \in {m \in Executions(b) : m.ok}}]
      BY <2>2, <2>5, Zenon
    <3>2. UNCHANGED [b \in Burn |-> PayoutPhase(b)]
      BY <1>9, <2>5, Zenon
    <3>. QED  BY <3>1, <3>2, Zenon DEF PayoutsOf!vars
  <2>. QED  BY <2>4, <2>5, Zenon
<1>. QED  BY <1>10, <1>11, Zenon

\* Settling a transaction reports what Solana did with its whole batch.
LEMMA RefinesReport ==
  ASSUME IInv, NEW t \in advanced, NEW ok \in BOOLEAN, FinalizeLanded(t, ok)
  PROVE  PayoutsOf!Next
<1>. DEFINE S == t.burns
<1>1. /\ landed' = landed /\ t \in submitted
      /\ status' = [b \in Burn |-> IF b \in S THEN OutcomeStatus(ok) ELSE status[b]]
  BY Zenon DEF FinalizeLanded, CanFinalize, Marked, chainVars
<1>2. PICK e \in landed : e.tx = t /\ e.ok = ok
  BY <1>1, Zenon DEF FinalizeLanded, IInv, SignaturesOK
<1>3. S \in SUBSET Burn /\ \A b \in S : status[b] = "sent"
  BY <1>1, Zenon DEF IInv, BurnsOK, TypeInv, TypeOK, Transaction
<1>4. \A b \in S : Executions(b) = {e}
  BY <1>2 DEF IInv, ChainOK, Executions
<1>5. \A b \in Burn : Executions(b)' = Executions(b)
  BY <1>1, PaymentsKept, Zenon
<1>. HIDE DEF S
<1>6. \A b \in S : PayoutPhase(b) = IF ok THEN "paid" ELSE "refused"
  BY <1>2, <1>3, <1>4, PhaseOfStatus, Zenon DEF InFlightPhase
<1>7. \A b \in Burn : PayoutPhase(b)' =
        IF b \in S THEN (IF ok THEN "reportedPaid" ELSE "reportedRefused") ELSE PayoutPhase(b)
  <2>1. ASSUME NEW b \in S
        PROVE  PayoutPhase(b)' = IF ok THEN "reportedPaid" ELSE "reportedRefused"
    <3>1. b \in Burn /\ status'[b] = IF ok THEN "successful" ELSE "failed"
      BY <1>1, <1>3, Zenon DEF OutcomeStatus
    <3>2. CASE ok
      BY <3>1, <3>2, Zenon DEF PayoutPhase
    <3>3. CASE ~ok
      BY <3>1, <3>3, Zenon DEF PayoutPhase
    <3>. QED  BY <3>2, <3>3, Zenon
  <2>2. \A b \in Burn : b \notin S => PayoutPhase(b)' = PayoutPhase(b)
    BY <1>1, PhaseKept, Zenon
  <2>. QED  BY <2>1, <2>2, Zenon
<1>8. CASE ok
  <2>1. PayoutsOf!Moved(S, "paid", "reportedPaid")
    BY <1>3, <1>6, <1>7, <1>8, PhaseMoved, Zenon
  <2>2. PayoutsOf!ReportPaid(S)
    BY <1>1, <2>1, PaymentsKept, Zenon DEF PayoutsOf!ReportPaid
  <2>. QED  BY <1>3, <2>2, Zenon DEF PayoutsOf!Next
<1>9. CASE ~ok
  <2>1. PayoutsOf!Moved(S, "refused", "reportedRefused")
    BY <1>3, <1>6, <1>7, <1>9, PhaseMoved, Zenon
  <2>2. PayoutsOf!ReportRefused(S)
    BY <1>1, <2>1, PaymentsKept, Zenon DEF PayoutsOf!ReportRefused
  <2>. QED  BY <1>3, <2>2, Zenon DEF PayoutsOf!Next
<1>. QED  BY <1>8, <1>9, Zenon

\* Every step of the withdrawal side is a step of Payouts or changes nothing
\* that Payouts sees.
LEMMA RefinesStep ==
  IInv /\ [Next]_vars => [PayoutsOf!Next]_(PayoutsOf!vars)
<1>. SUFFICES ASSUME IInv, [Next]_vars
              PROVE  PayoutsOf!Next \/ UNCHANGED PayoutsOf!vars
  BY Zenon
<1>1. status \in [Burn -> Status]
  BY Zenon DEF IInv, TypeInv, TypeOK
<1>2. ASSUME NEW x \in Amounts, LedgerBurn(x) PROVE PayoutsOf!Next
  BY <1>2, RefinesRequest, Zenon
<1>3. ASSUME NEW b \in Burn, WithdrawAccepted(b) PROVE PayoutsOf!Next
  BY <1>3, RefinesAccept, Zenon
<1>4. ASSUME NEW r \in reserved, NEW v \in 0..nonce[r.account], CreateTransaction(r, v)
      PROVE  UNCHANGED PayoutsOf!vars
  <2>1. landed' = landed /\ status' = Marked(r.burns, "created")
    BY <1>4, Zenon DEF CreateTransaction, chainVars
  <2>2. \A b \in r.burns : status[b] = "pending"
    BY <1>4, Zenon DEF CreateTransaction, CanCreate
  <2>. QED  BY <1>1, <2>1, <2>2, Stutters, Zenon DEF Marked
<1>5. ASSUME NEW m \in toSign, SignTransaction(m)
      PROVE  UNCHANGED PayoutsOf!vars
  <2>1. landed' = landed /\ status' = Marked(m.burns, "sent")
    BY <1>5, Zenon DEF SignTransaction, chainVars
  <2>2. \A b \in m.burns : status[b] = "created"
    BY Zenon DEF IInv, BurnsOK, RoundsOK
  <2>. QED  BY <1>1, <2>1, <2>2, Stutters, Zenon DEF Marked
<1>6. ASSUME NEW t \in advanced, NEW ok \in BOOLEAN, FinalizeLanded(t, ok)
      PROVE  PayoutsOf!Next
  BY <1>6, RefinesReport, Zenon
<1>7. ASSUME NEW t \in network, NEW ok \in BOOLEAN, Land(t, ok)
      PROVE  PayoutsOf!Next \/ UNCHANGED PayoutsOf!vars
  BY <1>7, RefinesLand, Zenon
<1>8. ASSUME NEW added \in SUBSET (Account \ pool), Upgrade(added) PROVE PayoutsOf!Next
  BY <1>8, RefinesLose, Zenon
<1>9. ASSUME UNCHANGED <<status, landed>> PROVE UNCHANGED PayoutsOf!vars
  BY <1>9, Stutters, Zenon
<1>10. ASSUME \/ StartRound
              \/ \E r \in reserved : SkipBatch(r)
              \/ \E m \in toSign : SignFails(m)
              \/ \E t \in toSend : SendTransaction(t)
              \/ StartMonitor
              \/ \E t \in toRead : ReadFails(t)
              \/ \E t \in toRead : \E v \in 0..nonce[t.account] : ReadNonce(t, v)
              \/ \E t \in unchanged : Rebroadcast(t)
              \/ \E t \in advanced : OutcomeUnresolved(t)
              \/ SweepLands
              \/ CreditSweep
              \/ UNCHANGED vars
       PROVE  UNCHANGED <<status, landed>>
  BY <1>10, Zenon DEF StartRound, SkipBatch, SignFails, SendTransaction, StartMonitor, ReadFails,
     ReadNonce, Rebroadcast, OutcomeUnresolved, SweepLands, CreditSweep, vars,
     chainVars, ledgerVars
<1>. QED  BY <1>2, <1>3, <1>4, <1>5, <1>6, <1>7, <1>8, <1>9, <1>10, Zenon DEF Next

\* The withdrawal side implements the promise of module Payouts: whatever the
\* order of timers, replies, failures and upgrades, a burn is paid at most
\* once, with its whole batch, or refused for good, and is reported as what it
\* was, afterwards.
THEOREM PayoutsImplemented == Spec => ImplementsPayouts
BY RefinesInit, RefinesStep, Invariance, PTL DEF Spec, ImplementsPayouts, PayoutsOf!Spec

================================================================================
