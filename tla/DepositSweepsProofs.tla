-------------------------- MODULE DepositSweepsProofs --------------------------
(***************************************************************************)
(* Proofs about DepositSweeps, for any accounts, any limits, any age and   *)
(* lag of blocks, and any number of deposits, payments and upgrades.       *)
(*                                                                         *)
(* IInv is the inductive invariant of who holds a deposit and which sweep  *)
(* holds it. FundsInv adds the lamports: what every address has been paid  *)
(* and still holds, and that the tracked balance is the sum of what was    *)
(* minted or is to be minted for the deposits credited. Each sum is over   *)
(* the deposits of one stage, so that a step moves one deposit, or all     *)
(* those of a sweep, from one sum to another.                              *)
(***************************************************************************)
EXTENDS DepositSweeps, DataTheorems

Stages == Live \cup {"none", "minted", "dropped"}

Used == DepositId \ In("none")
Sweeps == {sweepOf[d] : d \in DepositId} \ {0}

TypeInv ==
  /\ stage \in [DepositId -> Stages]
  /\ owner \in [DepositId -> Account \cup {0}]
  /\ sweepOf \in [DepositId -> Nat]
  /\ inFlight \in [Account -> DepositId \cup {0}]
  /\ readers \in [Account -> 0 .. 1]
  /\ age \in [Signature -> Nat] /\ depth \in [Signature -> Nat]
  /\ outcome \in [Signature -> {"none", "ok", "failed"}]
  /\ blockAge \in Nat

\* Ids and signatures are given in order.
NumbersOK ==
  /\ \E n \in Nat : Used = 1 .. n
  /\ \E n \in Nat : Sweeps = 1 .. n

\* A deposit has an account from the start and a sweep from its submission on; the
\* deposits of a sweep stay together until it is credited, quarantined or dropped.
DepositsOK ==
  /\ \A d \in DepositId : stage[d] # "none" => owner[d] \in Account
  /\ \A d \in DepositId : sweepOf[d] = 0 <=> stage[d] \in {"none", "queued"}
  /\ \A d, e \in DepositId :
       sweepOf[d] = sweepOf[e] /\ stage[d] \in {"swept", "finalized"} => stage[e] = stage[d]

\* What the calls and rounds read before an await is still so after it.
RoundsOK ==
  /\ \A a \in Account : readers[a] > 0 => inFlight[a] = 0
  /\ \A batch \in toSign : batch \subseteq In("queued")
  /\ \A b, c \in toSign : b # c => b \cap c = {}
  /\ checked \subseteq SweepsIn("swept") /\ aged \subseteq checked
  /\ checked # {} => monitor \in {"height", "status"}
  /\ toCredit \subseteq SweepsIn("finalized")

\* A sweep that landed has been submitted, and until it is final it is no older than
\* its depth allows.  So a sweep that was too old at the finalized block is final or
\* can never land.
ChainOK ==
  /\ \A s \in Signature : outcome[s] # "none" => s \in Sweeps
  /\ \A s \in Signature : IF outcome[s] = "none" THEN depth[s] = 0
                          ELSE depth[s] >= Lag \/ age[s] <= MaxAge + depth[s]
  /\ \A s \in aged : age[s] > MaxAge + Lag

\* A dropped sweep failed on Solana, or is too old to land.
DroppedOK ==
  \A d \in DepositId : stage[d] = "dropped" =>
    /\ sweepOf[d] \in Signature
    /\ \/ outcome[sweepOf[d]] = "failed"
       \/ outcome[sweepOf[d]] = "none" /\ age[sweepOf[d]] > MaxAge

IInv == TypeInv /\ NumbersOK /\ DepositsOK /\ InFlightIsLive /\ RoundsOK /\ ChainOK /\ DroppedOK

------------------------------------------------------------------------------
(* Numbers. *)

\* What Min gives for two numbers, as the caps of ages and depths use it.
LEMMA MinOfTwo ==
  ASSUME NEW x \in Nat, NEW y \in Nat
  PROVE  Min({x, y}) = IF x <= y THEN x ELSE y
<1> DEFINE m == IF x <= y THEN x ELSE y
<1> QED BY DEF Min

\* The bounds of the model are numbers.
LEMMA Bounds == MaxAge \in Nat /\ Lag \in Nat /\ MaxDeposits \in Nat /\ AgeCap = MaxAge + Lag + 1
BY DepositSweepsAssumption, Zenon DEF AgeCap

\* The id that Deposits::queue gives is a new one, and the next one.
LEMMA NextId ==
  ASSUME NumbersOK
  PROVE  LET d == Cardinality(Used) + 1
         IN  d \in Nat /\ d \notin Used /\ Used \cup {d} = 1 .. d
<1>1. PICK n \in Nat : Used = 1 .. n
  BY Zenon DEF NumbersOK
<1>2. Cardinality(Used) = n
  BY <1>1, FS_Interval
<1> QED BY <1>1, <1>2

\* So is the signature of a sweep.
LEMMA NextSweep ==
  ASSUME NumbersOK
  PROVE  LET s == Cardinality(Sweeps) + 1
         IN  s \in Nat \ {0} /\ s \notin Sweeps /\ Sweeps \cup {s} = 1 .. s
<1>1. PICK n \in Nat : Sweeps = 1 .. n
  BY Zenon DEF NumbersOK
<1>2. Cardinality(Sweeps) = n
  BY <1>1, FS_Interval
<1> QED BY <1>1, <1>2

------------------------------------------------------------------------------
(* Steps that leave the deposits as they are. *)

\* The initial states satisfy the invariant.
LEMMA InitInv == Init => IInv
<1> SUFFICES ASSUME Init PROVE IInv
  BY Zenon
<1>1. DepositsOK /\ InFlightIsLive /\ RoundsOK /\ ChainOK /\ DroppedOK
  BY Zenon DEF Init, DepositsOK, InFlightIsLive, RoundsOK, ChainOK, DroppedOK, Live, In, SweepsIn
<1> QED BY <1>1 DEF IInv, Init, TypeInv, Stages, NumbersOK, Used, In, Sweeps

\* The calls and rounds change what they hold, and nothing else: it is enough that
\* they hold what they may.
LEMMA RoundStep ==
  ASSUME IInv, UNCHANGED <<depositVars, chainVars>>,
         readers' \in [Account -> 0 .. 1], blockAge' \in Nat,
         RoundsOK', \A s \in aged' : age[s] > MaxAge + Lag
  PROVE  IInv'
<1> USE DEF depositVars, chainVars
<1>1. NumbersOK' /\ ChainOK'
  BY ZenonT(60) DEF IInv, NumbersOK, ChainOK, Used, In, Sweeps
<1> QED BY <1>1 DEF IInv, TypeInv, DepositsOK, InFlightIsLive, DroppedOK

\* deposit_sol takes the guard of an account without a deposit in flight, or gives it back.
LEMMA ReaderStep ==
  ASSUME IInv, NEW a \in Account, DepositSol(a) \/ RefuseDeposit(a)
  PROVE  IInv'
<1> USE DEF depositVars, sweepVars, monitorVars, chainVars
<1>1. UNCHANGED <<depositVars, sweepVars, monitorVars, chainVars>>
  BY Zenon DEF DepositSol, RefuseDeposit
<1> QED BY <1>1, RoundStep DEF DepositSol, RefuseDeposit, IInv, TypeInv, RoundsOK,
   ChainOK, In, SweepsIn

\* The batches that the timer takes are queued and disjoint.
LEMMA BatchesAreDisjoint ==
  /\ \A batch \in Batches : batch \subseteq In("queued")
  /\ \A b, c \in Batches : b # c => b \cap c = {}
<1> DEFINE rank(d) == Cardinality({e \in In("queued") : e < d})
           part(k) == {d \in In("queued") : rank(d) \div MaxPerSweep = k}
<1>1. Batches = {part(k) : k \in 0 .. MaxRpc - 1} \ {{}}
  BY Zenon DEF Batches
<1>2. ASSUME NEW k, NEW l, NEW d \in part(k) \cap part(l) PROVE k = l
  BY <1>2, Zenon
<1>3. ASSUME NEW b \in Batches, NEW c \in Batches, b # c PROVE b \cap c = {}
  <2>1. PICK k \in 0 .. MaxRpc - 1 : b = part(k)
    BY <1>1, Zenon
  <2>2. PICK l \in 0 .. MaxRpc - 1 : c = part(l)
    BY <1>1, Zenon
  <2> HIDE DEF part
  <2> QED BY <1>2, <2>1, <2>2, <1>3, Zenon
<1>4. \A k : part(k) \subseteq In("queued")
  BY Zenon
<1> HIDE DEF part
<1> QED BY <1>1, <1>3, <1>4

\* The sweep round: its start, its block, and the batches and sweeps it is done with.
LEMMA SweeperStep ==
  ASSUME IInv,
         \/ StartSweeping \/ FetchBlock \/ FetchBlockFails
         \/ \E batch \in toSign : SignFails(batch)
         \/ \E s \in toSend : FinishSend(s)
  PROVE  IInv'
<1> USE DEF depositVars, sweepVars, monitorVars, chainVars
<1>1. UNCHANGED <<depositVars, readers, monitorVars, chainVars>>
  BY Zenon DEF StartSweeping, FetchBlock, FetchBlockFails, SignFails, FinishSend
<1>2. blockAge' \in Nat
  <2>1. blockAge' = 0 \/ blockAge' = blockAge
    BY Zenon DEF StartSweeping, FetchBlock, FetchBlockFails, SignFails, FinishSend
  <2> QED BY <2>1 DEF IInv, TypeInv
<1>3. /\ \A batch \in toSign' : batch \subseteq In("queued")
      /\ \A b, c \in toSign' : b # c => b \cap c = {}
  BY BatchesAreDisjoint, Zenon DEF IInv, RoundsOK, StartSweeping, FetchBlock, FetchBlockFails,
     SignFails, FinishSend, Sweeping
<1> QED BY <1>1, <1>2, RoundStep, <1>3 DEF RoundsOK, IInv, ChainOK, In, SweepsIn, TypeInv

\* The monitor: what it selects is in the right stage, and what it calls too old is.
LEMMA MonitorStep ==
  ASSUME IInv,
         StartMonitor \/ ReadHeight \/ ReadHeightFails \/ StartCredit
  PROVE  IInv'
<1> USE DEF depositVars, sweepVars, monitorVars, chainVars
<1>1. UNCHANGED <<depositVars, readers, sweepVars, blockAge, chainVars>>
  BY Zenon DEF StartMonitor, ReadHeight, ReadHeightFails, StartCredit
<1>2. readers' \in [Account -> 0 .. 1] /\ blockAge' \in Nat
  BY <1>1, Zenon DEF IInv, TypeInv
<1>3. /\ checked' \subseteq SweepsIn("swept") /\ aged' \subseteq checked'
      /\ checked' # {} => monitor' \in {"height", "status"}
      /\ toCredit' \subseteq SweepsIn("finalized")
      /\ \A s \in aged' : age[s] > MaxAge + Lag
  BY Zenon DEF StartMonitor, IInv, RoundsOK, ChainOK, ReadHeight, IsBlockhashExpired,
     ReadHeightFails, StartCredit
<1>4. RoundsOK'
  BY <1>1, <1>3, Zenon DEF RoundsOK, IInv, In, SweepsIn
<1> QED BY <1>1, <1>2, <1>3, <1>4, RoundStep, Zenon

\* An upgrade drops the calls and the rounds, and a payment touches none of this.
LEMMA UpgradeStep ==
  ASSUME IInv, Upgrade \/ \E a \in Account, lamports \in Payments : Pay(a, lamports)
  PROVE  IInv'
<1> USE DEF depositVars, sweepVars, monitorVars, chainVars
<1>1. UNCHANGED <<depositVars, chainVars>>
  BY Zenon DEF Upgrade, Pay
<1> QED BY <1>1, RoundStep DEF Upgrade, Pay, IInv, TypeInv, RoundsOK, ChainOK, In, SweepsIn

------------------------------------------------------------------------------
(* Solana. *)

\* A new block makes every sweep one older and every landed one deeper, up to the caps,
\* which keep what is too old too old.
LEMMA BlockStep ==
  ASSUME IInv, NewBlock
  PROVE  IInv'
<1> USE DEF depositVars, sweepVars, monitorVars
<1>1. UNCHANGED <<depositVars, readers, sweepVars, monitorVars, outcome>>
  BY Zenon DEF NewBlock
<1>2. /\ \A s \in Signature : age[s] \in Nat /\ depth[s] \in Nat
      /\ blockAge \in Nat /\ AgeCap \in Nat /\ Lag \in Nat
  BY Bounds, SMTT(30) DEF IInv, TypeInv
<1>3. \A s \in Signature :
        age'[s] = IF Held(s) = {} THEN 0
                  ELSE IF age[s] + 1 <= AgeCap THEN age[s] + 1 ELSE AgeCap
  <2> TAKE s \in Signature
  <2> QED BY <1>2, MinOfTwo DEF NewBlock
<1>4. \A s \in Signature :
        depth'[s] = IF outcome[s] = "none" THEN 0
                    ELSE IF depth[s] + 1 <= Lag THEN depth[s] + 1 ELSE Lag
  <2> TAKE s \in Signature
  <2> QED BY <1>2, MinOfTwo DEF NewBlock
<1>5. blockAge' \in Nat
  BY <1>2, MinOfTwo DEF NewBlock
<1>6. age' \in [Signature -> Nat] /\ depth' \in [Signature -> Nat]
  <2>1. /\ age' = [s \in Signature |-> age'[s]] /\ depth' = [s \in Signature |-> depth'[s]]
    BY Zenon DEF NewBlock
  <2> QED BY <2>1, <1>2, <1>3, <1>4
<1>7. TypeInv' /\ DepositsOK' /\ InFlightIsLive' /\ RoundsOK'
  BY <1>1, <1>5, <1>6, SMTT(30)
  DEF IInv, TypeInv, DepositsOK, InFlightIsLive, RoundsOK, In, SweepsIn
<1>8. ASSUME NEW s \in Signature, Held(s) # {}, age[s] > MaxAge
      PROVE  age'[s] > MaxAge /\ (age[s] > MaxAge + Lag => age'[s] > MaxAge + Lag)
  BY <1>2, <1>3, <1>8, Bounds, SMTT(30)
<1>9. ChainOK'
  BY <1>1, <1>2, <1>3, <1>4, Bounds, <1>8 DEF IInv, ChainOK, RoundsOK, SweepsIn, In, Held,
     Used, Sweeps
<1> QED BY <1>7, <1>9, <1>1, <1>8 DEF IInv, DroppedOK, Held, NumbersOK, Used, In, Sweeps

\* A sweep lands while it is recent enough, so it is none of the dropped ones.
LEMMA LandStep ==
  ASSUME IInv, NEW s \in Signature, NEW fee, SweepLands(s, fee) \/ SweepFails(s, fee)
  PROVE  IInv'
<1> USE DEF depositVars, sweepVars, monitorVars
<1>1. UNCHANGED <<depositVars, readers, sweepVars, monitorVars, blockAge, age, depth>>
  BY Zenon DEF SweepLands, SweepFails
<1>2. CanLand(s)
  BY Zenon DEF SweepLands, SweepFails
<1>3. PICK o \in {"ok", "failed"} : outcome' = [outcome EXCEPT ![s] = o]
  BY Zenon DEF SweepLands, SweepFails
<1>4. Used' = Used /\ Sweeps' = Sweeps
  BY <1>1, Zenon DEF Used, In, Sweeps
<1>5. NumbersOK'
  BY <1>4, Zenon DEF IInv, NumbersOK
<1>6. s \in Sweeps
  BY <1>2, SMTT(30) DEF CanLand, Held, Sweeps, Signature
<1>7. ChainOK'
  BY <1>2, <1>1, <1>3, <1>4, <1>6, Bounds DEF CanLand, IInv, ChainOK, TypeInv
<1> QED BY <1>5, <1>7, <1>1, <1>3, <1>2, Bounds DEF IInv, TypeInv, DepositsOK,
   InFlightIsLive, RoundsOK, In, SweepsIn, DroppedOK, CanLand

------------------------------------------------------------------------------
(* Steps of the deposits. *)

\* A deposit is queued under a new id, for an account that has none in flight.
LEMMA QueueStep ==
  ASSUME IInv, NEW a \in Account, NEW bal, QueueDeposit(a, bal)
  PROVE  IInv'
<1> DEFINE d == Cardinality(Used) + 1
<1> USE DEF sweepVars, monitorVars, chainVars
<1>1. /\ d \in DepositId /\ readers[a] > 0 /\ inFlight[a] = 0
      /\ stage' = [stage EXCEPT ![d] = "queued"]
      /\ owner' = [owner EXCEPT ![d] = a]
      /\ inFlight' = [inFlight EXCEPT ![a] = d]
      /\ readers' = [readers EXCEPT ![a] = @ - 1]
      /\ UNCHANGED <<sweepOf, sweepVars, monitorVars, blockAge, chainVars>>
  BY Zenon DEF QueueDeposit, CanQueue, Used
<1>2. d \notin Used /\ Used \cup {d} = 1 .. d /\ d \in Nat
  BY NextId, Zenon DEF IInv
<1> HIDE DEF d
<1>3. stage[d] = "none" /\ d # 0
  BY <1>1, <1>2, SMTT(30) DEF Used, In, DepositId
<1>4. TypeInv'
  BY <1>1, SMTT(30) DEF IInv, TypeInv, Stages, Live
<1>5. NumbersOK'
  BY <1>1, <1>3, <1>2 DEF Used, In, IInv, TypeInv, Sweeps, NumbersOK
<1>6. DepositsOK'
  BY <1>1, <1>3, Zenon DEF IInv, DepositsOK, TypeInv
<1>7. InFlightIsLive'
  BY <1>1, <1>3 DEF IInv, TypeInv, Live, InFlightIsLive, DepositsOK, DepositId
<1>8. RoundsOK'
  BY <1>1, <1>3 DEF IInv, RoundsOK, TypeInv, In, SweepsIn
<1>9. ChainOK' /\ DroppedOK'
  BY <1>1, <1>3 DEF IInv, ChainOK, DroppedOK, TypeInv, Sweeps
<1> QED BY <1>4, <1>5, <1>6, <1>7, <1>8, <1>9, Zenon DEF IInv

\* A batch is still queued when its signatures arrive, and its sweep is a new one, of
\* which nothing has landed.
LEMMA SubmitStep ==
  ASSUME IInv, NEW batch \in toSign, SubmitSweep(batch)
  PROVE  IInv'
<1> DEFINE s == Cardinality(Sweeps) + 1
<1> USE DEF monitorVars
<1>1. /\ batch \subseteq In("queued")
      /\ stage' = [d \in DepositId |-> IF d \in batch THEN "swept" ELSE stage[d]]
      /\ sweepOf' = [d \in DepositId |-> IF d \in batch THEN s ELSE sweepOf[d]]
      /\ age' = [age EXCEPT ![s] = blockAge]
      /\ toSign' = toSign \ {batch}
      /\ UNCHANGED <<owner, inFlight, readers, monitorVars, blockAge, depth, outcome>>
  BY Zenon DEF SubmitSweep, CanSweep, Sweeping, Sweeps
<1>2. s \in Nat \ {0} /\ s \notin Sweeps /\ Sweeps \cup {s} = 1 .. s
  BY NextSweep, Zenon DEF IInv
<1> HIDE DEF s
<1>3. /\ \A d \in batch : d \in DepositId /\ stage[d] = "queued" /\ sweepOf[d] = 0
      /\ \A d \in DepositId : sweepOf[d] # s
  BY <1>1, <1>2, Zenon DEF In, IInv, DepositsOK, Sweeps
<1>4. TypeInv'
  BY <1>1, <1>2, Zenon DEF IInv, TypeInv, Stages, Live
<1>5. Used' = Used
  BY <1>1, <1>3, Zenon DEF Used, In
<1>6. Sweeps' = IF batch = {} THEN Sweeps ELSE Sweeps \cup {s}
  BY <1>1, <1>2, <1>3, Zenon DEF Sweeps
<1>7. NumbersOK'
  BY <1>2, <1>5, <1>6, Zenon DEF IInv, NumbersOK
<1>8. DepositsOK'
  BY <1>1, <1>2, <1>3, Zenon DEF IInv, DepositsOK
<1>9. InFlightIsLive'
  BY <1>1, <1>3 DEF Live, IInv, InFlightIsLive, TypeInv
<1>10. RoundsOK'
  <2>1. SweepsIn("swept") \subseteq SweepsIn("swept")'
    BY <1>1, <1>3, Zenon DEF SweepsIn, In
  <2>2. SweepsIn("finalized") \subseteq SweepsIn("finalized")'
    BY <1>1, <1>3, Zenon DEF SweepsIn, In
  <2> QED BY <1>1, <2>1, <2>2, Zenon DEF IInv, RoundsOK, In
<1>11. ChainOK'
  BY <1>2, <1>1, <1>3, <1>6 DEF IInv, ChainOK, TypeInv, RoundsOK, SweepsIn, In
<1>12. DroppedOK'
  BY <1>1, <1>3, Zenon DEF IInv, DroppedOK, TypeInv
<1> QED BY <1>4, <1>7, <1>8, <1>9, <1>10, <1>11, <1>12, Zenon DEF IInv

\* The deposits of the sweeps that a round looks at are all in the stage it found.
LEMMA HeldTogether ==
  ASSUME IInv, NEW st \in {"swept", "finalized"}, NEW d \in DepositId,
         sweepOf[d] \in SweepsIn(st)
  PROVE  stage[d] = st
BY Zenon DEF IInv, DepositsOK, SweepsIn, In

\* The statuses: a finalized sweep keeps its accounts in flight, a dropped one releases
\* them, and is dropped only if it failed or can never land.
LEMMA StatusStep ==
  ASSUME IInv, NEW answered \in SUBSET checked, NEW hidden \in SUBSET Unfinalized,
         ApplyStatuses(answered, hidden)
  PROVE  IInv'
<1> DEFINE succeeded == FinalizedAs(answered, "ok")
           dropped == FinalizedAs(answered, "failed") \cup Expired(NotFound(answered, hidden))
<1> USE DEF sweepVars, chainVars
<1>1. /\ stage' = [d \in DepositId |->
                     IF sweepOf[d] \in succeeded THEN "finalized"
                     ELSE IF sweepOf[d] \in dropped THEN "dropped"
                     ELSE stage[d]]
      /\ inFlight' = [a \in Account |->
                        IF \E d \in DepositId : owner[d] = a /\ sweepOf[d] \in dropped
                        THEN 0 ELSE inFlight[a]]
      /\ checked' = {} /\ aged' = {}
      /\ UNCHANGED <<owner, sweepOf, readers, sweepVars, toCredit, blockAge, chainVars>>
  BY Zenon DEF ApplyStatuses
<1>2. succeeded \subseteq checked /\ dropped \subseteq checked /\ succeeded \cap dropped = {}
  BY Zenon DEF FinalizedAs, NotFound, Expired, Unfinalized
<1>3. ASSUME NEW s \in dropped
      PROVE  /\ s \in Signature
             /\ \/ outcome[s] = "failed"
                \/ outcome[s] = "none" /\ age[s] > MaxAge
  BY <1>2, Bounds DEF IInv, RoundsOK, SweepsIn, FinalizedAs, NotFound, Finalized, Expired,
     ChainOK, TypeInv, Unfinalized
<1> HIDE DEF succeeded, dropped
<1>4. \A d \in DepositId : sweepOf[d] \in succeeded \cup dropped => stage[d] = "swept"
  BY <1>2, HeldTogether, SMTT(30) DEF IInv, RoundsOK
<1>5. TypeInv'
  BY <1>1, Zenon DEF IInv, TypeInv, Stages, Live
<1>6. Used' = Used /\ Sweeps' = Sweeps
  BY <1>1, <1>4, Zenon DEF Used, In, Sweeps
<1>7. NumbersOK' /\ ChainOK'
  BY <1>1, <1>6, Zenon DEF IInv, NumbersOK, ChainOK
<1>8. DepositsOK'
  BY <1>1, <1>4, Zenon DEF IInv, DepositsOK
<1>9. InFlightIsLive'
  <2>1. ASSUME NEW a \in Account, inFlight'[a] # 0
        PROVE  stage'[inFlight'[a]] \in Live /\ owner'[inFlight'[a]] = a
    BY <1>1, <2>1 DEF IInv, TypeInv, InFlightIsLive, Live
  <2>2. ASSUME NEW e \in DepositId, stage'[e] \in Live
        PROVE  inFlight'[owner'[e]] = e
    BY <1>1, <1>2, <2>2, <1>4 DEF Live, IInv, InFlightIsLive, DepositsOK
  <2> QED BY <2>1, <2>2, Zenon DEF InFlightIsLive
<1>10. RoundsOK'
  BY <1>1, <1>4 DEF IInv, RoundsOK, In, SweepsIn
<1>11. DroppedOK'
  BY <1>1, <1>3, Zenon DEF IInv, DroppedOK
<1> QED BY <1>5, <1>7, <1>8, <1>9, <1>10, <1>11, Zenon DEF IInv

\* Deposits beyond the sweep move on: those of a whole finalized sweep, or a pending one.
MoveOn(late) ==
  /\ \A d \in late : stage[d] \notin {"none", "queued", "swept", "dropped"}
  /\ \A d \in late : stage'[d] \in {"pending", "minted", "unreadable", "unresolved"}
  /\ \A d \in DepositId \ late : stage'[d] = stage[d]
  /\ \A d \in late, e \in DepositId :
       sweepOf[d] = sweepOf[e] /\ stage[e] = "finalized" => e \in late

\* Crediting and quarantining a finalized sweep, minting or quarantining a pending deposit:
\* what is queued, swept or dropped stays so, and sweeps stay together.
LEMMA LateStep ==
  ASSUME IInv, NEW late, late \subseteq DepositId, MoveOn(late),
         TypeInv', InFlightIsLive',
         \A a \in Account : readers'[a] > 0 => inFlight'[a] = 0,
         UNCHANGED <<owner, sweepOf, toSign, blockAge, chainVars, checked, aged>>,
         checked' # {} => monitor' \in {"height", "status"},
         toCredit' \subseteq SweepsIn("finalized")'
  PROVE  IInv'
<1> USE DEF chainVars
<1>1. \A d \in DepositId : \A st \in {"none", "queued", "swept", "dropped"} :
        stage'[d] = st <=> stage[d] = st
  BY Zenon DEF MoveOn
<1>2. Used' = Used /\ In("queued")' = In("queued") /\ In("swept")' = In("swept")
  BY <1>1, Zenon DEF Used, In
<1>3. RoundsOK'
  BY <1>2 DEF IInv, RoundsOK, Sweeps, SweepsIn
<1> QED BY <1>3, <1>1, <1>2 DEF IInv, DroppedOK, NumbersOK, ChainOK, Sweeps, SweepsIn,
   DepositsOK, MoveOn

\* credit_finalized_sweeps: the accounts stay in flight, credited or quarantined.
LEMMA CreditStep ==
  ASSUME IInv, NEW unread \in SUBSET toCredit, CreditSweeps(unread)
  PROVE  IInv'
<1> DEFINE settled == {s \in toCredit \ unread : Settles(s)}
           mismatched == (toCredit \ unread) \ settled
           late == {d \in DepositId : sweepOf[d] \in toCredit \ unread}
<1> USE DEF sweepVars, chainVars
<1>1. /\ stage' = [d \in DepositId |->
                     IF sweepOf[d] \in settled THEN "pending"
                     ELSE IF sweepOf[d] \in mismatched THEN "unreadable"
                     ELSE stage[d]]
      /\ monitor = "credit" /\ toCredit' = {}
      /\ UNCHANGED <<owner, sweepOf, inFlight, readers, sweepVars, checked, aged, blockAge,
                     chainVars>>
  BY Zenon DEF CreditSweeps
<1>2. settled \cup mismatched = toCredit \ unread
  BY Zenon
<1> HIDE DEF settled, mismatched
<1>3. \A d \in late : stage[d] = "finalized" /\ stage'[d] \in {"pending", "unreadable"}
  BY <1>1, <1>2, HeldTogether, Zenon DEF IInv, RoundsOK
<1>4. \A d \in DepositId \ late : stage'[d] = stage[d]
  BY <1>1, <1>2, Zenon
<1>5. InFlightIsLive'
  BY <1>1, <1>3, <1>4 DEF IInv, InFlightIsLive, TypeInv, Live
<1>6. \A d \in late, e \in DepositId :
        sweepOf[d] = sweepOf[e] /\ stage[e] = "finalized" => e \in late
  BY Zenon
<1>7. late \subseteq DepositId
  BY Zenon
<1> HIDE DEF late
<1>8. MoveOn(late)
  BY <1>3, <1>4, <1>6, Zenon DEF MoveOn
<1> QED BY <1>1, <1>5, <1>7, <1>8, LateStep, Zenon DEF IInv, RoundsOK, TypeInv, Stages, Live

\* A pending deposit is minted, which releases its account, or quarantined, which does not.
LEMMA MintStep ==
  ASSUME IInv, NEW d \in DepositId, MintDeposit(d) \/ QuarantinePendingMint(d)
  PROVE  IInv'
<1> USE DEF sweepVars, monitorVars, chainVars
<1>1. /\ stage[d] = "pending"
      /\ UNCHANGED <<owner, sweepOf, readers, sweepVars, monitorVars, blockAge, chainVars>>
  BY Zenon DEF MintDeposit, QuarantinePendingMint
<1>2. /\ stage' \in [DepositId -> Stages]
      /\ \A e \in DepositId \ {d} : stage'[e] = stage[e]
      /\ stage'[d] \in {"minted", "unresolved"}
      /\ inFlight' \in [Account -> DepositId \cup {0}]
      /\ \A a \in Account : inFlight'[a] \in {0, inFlight[a]}
  BY <1>1 DEF MintDeposit, QuarantinePendingMint, IInv, TypeInv, Stages, Live, DepositsOK,
     InFlightIsLive
<1>3. InFlightIsLive'
  <2>1. CASE MintDeposit(d)
    <3>1. /\ stage' = [stage EXCEPT ![d] = "minted"]
          /\ inFlight' = [inFlight EXCEPT ![owner[d]] = 0]
      BY <2>1, Zenon DEF MintDeposit
    <3>2. ASSUME NEW a \in Account, inFlight'[a] # 0
          PROVE  stage'[inFlight'[a]] \in Live /\ owner'[inFlight'[a]] = a
      BY <3>1, <3>2, <1>1, <1>2 DEF IInv, TypeInv, InFlightIsLive
    <3>3. ASSUME NEW e \in DepositId, stage'[e] \in Live
          PROVE  inFlight'[owner'[e]] = e
      <4>1. stage[e] \in Live
        BY <1>2, <3>3, <3>1, Zenon DEF IInv, TypeInv, Live
      <4> QED BY <1>1, <3>1, <3>3, <4>1 DEF IInv, TypeInv, DepositsOK, InFlightIsLive, Live
    <3> QED BY <3>2, <3>3, Zenon DEF InFlightIsLive
  <2>2. CASE QuarantinePendingMint(d)
    BY <2>2, <1>1 DEF QuarantinePendingMint, IInv, TypeInv, Live, InFlightIsLive
  <2> QED BY <2>1, <2>2, Zenon
<1>4. TypeInv'
  BY <1>1, <1>2, Zenon DEF IInv, TypeInv
<1>5. /\ \A a \in Account : readers'[a] > 0 => inFlight'[a] = 0
      /\ checked' # {} => monitor' \in {"height", "status"}
  BY <1>1, <1>2, Zenon DEF IInv, RoundsOK
<1>6. \A e \in DepositId : sweepOf[d] = sweepOf[e] => stage[e] # "finalized"
  BY <1>1, Zenon DEF IInv, DepositsOK
<1>7. MoveOn({d})
  BY <1>1, <1>2, <1>6, Zenon DEF MoveOn
<1>8. \A e \in DepositId : stage[e] = "finalized" => stage'[e] = "finalized"
  BY <1>1, <1>2, Zenon
<1>9. toCredit' \subseteq SweepsIn("finalized")'
  BY <1>1, <1>8, Zenon DEF In, IInv, RoundsOK, SweepsIn
<1> QED BY <1>1, <1>3, <1>4, <1>5, <1>7, <1>9, LateStep, Zenon

------------------------------------------------------------------------------
\* Every step preserves the invariant.
LEMMA NextInv == IInv /\ [Next]_vars => IInv'
<1> SUFFICES ASSUME IInv, [Next]_vars PROVE IInv'
  BY Zenon
<1>1. CASE \E a \in Account : DepositSol(a) \/ RefuseDeposit(a)
  BY <1>1, ReaderStep, Zenon
<1>2. CASE \E a \in Account : \E bal \in past[a] : QueueDeposit(a, bal)
  BY <1>2, QueueStep, Zenon
<1>3. CASE \/ StartSweeping \/ FetchBlock \/ FetchBlockFails
           \/ \E batch \in toSign : SignFails(batch)
           \/ \E s \in toSend : FinishSend(s)
  BY <1>3, SweeperStep, Zenon
<1>4. CASE \E batch \in toSign : SubmitSweep(batch)
  BY <1>4, SubmitStep, Zenon
<1>5. CASE StartMonitor \/ ReadHeight \/ ReadHeightFails \/ StartCredit
  BY <1>5, MonitorStep, Zenon
<1>6. CASE \E answered \in SUBSET checked : \E hidden \in SUBSET (answered \cap Unfinalized) :
             ApplyStatuses(answered, hidden)
  BY <1>6, StatusStep, Zenon
<1>7. CASE \E unread \in SUBSET toCredit : CreditSweeps(unread)
  BY <1>7, CreditStep, Zenon
<1>8. CASE \E d \in DepositId : MintDeposit(d) \/ QuarantinePendingMint(d)
  BY <1>8, MintStep, Zenon
<1>9. CASE NewBlock
  BY <1>9, BlockStep, Zenon
<1>10. CASE \E s \in Signature : \E fee \in Fees(s) : SweepLands(s, fee) \/ SweepFails(s, fee)
  BY <1>10, LandStep, Zenon
<1>11. CASE Upgrade \/ \E a \in Account, lamports \in Payments : Pay(a, lamports)
  BY <1>11, UpgradeStep, Zenon
<1>12. CASE UNCHANGED vars
  BY <1>12, RoundStep, Zenon DEF vars, sweepVars, monitorVars, IInv, RoundsOK, In, SweepsIn,
     depositVars, TypeInv, ChainOK
<1> QED
  BY <1>1, <1>2, <1>3, <1>4, <1>5, <1>6, <1>7, <1>8, <1>9, <1>10, <1>11, <1>12, Zenon
     DEF Next

\* The invariant holds in every reachable state.
LEMMA InvHolds == Spec => []IInv
BY InitInv, NextInv, PTL DEF Spec

\* The deposit in flight of an account is exactly its live one, for any number of accounts,
\* deposits and upgrades: Deposits::in_flight never panics and no deposit is forgotten.
THEOREM AccountsFollowTheirDeposit == Spec => []InFlightIsLive
<1>1. IInv => InFlightIsLive
  BY Zenon DEF IInv
<1> QED BY <1>1, InvHolds, PTL

\* No assertion of Deposits fails, whatever deposit_sol, the timers and upgrades do between
\* the reads of a call or round and their use.
THEOREM DepositAssertionsHold == Spec => []NoAssertionFails
<1>1. IInv => NoAssertionFails
  BY HeldTogether DEF IInv, RoundsOK, CanQueue, CanSweep, Held, InFlightIsLive, Live,
     CanConclude, CanCredit, In, CanRelease, NoAssertionFails
<1> QED BY <1>1, InvHolds, PTL

\* A sweep that is dropped did not move the funds and never will, for any age limit and any
\* lag of the finalized block: that the height read is a finalized one is what it rests on.
THEOREM DroppedSweepsAreDead == Spec => []DroppedNeverLands
<1>1. IInv => DroppedNeverLands
  BY Bounds DEF DroppedNeverLands, In, IInv, DroppedOK, TypeInv, CanLand
<1> QED BY <1>1, InvHolds, PTL

--------------------------------------------------------------------------------
(* Lamports. *)

(***************************************************************************)
(* The arithmetic of a sweep                                               *)
(***************************************************************************)

\* What is minted for each deposit, when its sweep is credited.
Mint(bal) == [d \in DepositId |-> bal[d] - Rent - FeePerSig]

\* There are finitely many deposits and sweeps.
LEMMA Finitely ==
  /\ IsFiniteSet(DepositId) /\ IsFiniteSet(Signature)
  /\ DepositId \subseteq Nat
<1>. QED  BY DepositSweepsAssumption, FS_Interval DEF DepositId, Signature

\* A product by a positive number keeps the order.
LEMMA TimesOrder ==
  ASSUME NEW n \in Nat \ {0}, NEW x \in Int, NEW y \in Int, n * x < n * y
  PROVE  x < y
<1>1. SUFFICES ASSUME y <= x PROVE n * y <= n * x
  OBVIOUS
<1>2. PICK k \in Nat : x = y + k
  BY <1>1
<1>. QED  BY <1>2

\* A planned fee is divided without a remainder.
LEMMA ShareOf ==
  ASSUME NEW S, IsFiniteSet(S), S # {}
  PROVE  FeeShare(S) = FeePerSig
<1>. DEFINE n == Cardinality(S)
            q == (FeePerSig * n + n - 1) \div n
<1>1. n \in Nat \ {0} /\ FeePerSig \in Nat
  BY FS_CardinalityType, FS_EmptySet, SweepPlanAssumption, Zenon
<1>. HIDE DEF n
<1>2. q \in Int /\ n * q <= FeePerSig * n + n - 1 /\ FeePerSig * n + n - 1 < n * q + n
  BY <1>1
<1>. HIDE DEF q
<1>3. n * q < n * (FeePerSig + 1) /\ n * FeePerSig < n * (q + 1)
  BY <1>1, <1>2
<1>. QED  BY <1>1, <1>2, <1>3, TimesOrder DEF FeeShare, PlannedFee, q, n

\* One of the deposits of a sweep pays its fee.
LEMMA PayerIsHeld ==
  ASSUME NEW bal, NEW S, S \subseteq DepositId, S # {}, \A d \in S : bal[d] \in Nat
  PROVE  FeePayer(bal, S) \in S
<1>. DEFINE V == {bal[d] : d \in S}
<1>1. S \subseteq Nat /\ IsFiniteSet(S)
  BY Finitely, FS_Subset, Zenon
<1>2. V \subseteq Nat /\ V # {} /\ IsFiniteSet(V)
  <2>1. IsFiniteSet(V)
    <3>1. [d \in S |-> bal[d]] \in Surjection(S, V)
      BY Zenon DEF Surjection
    <3>. QED  BY <1>1, <3>1, FS_Surjection, Zenon
  <2>. QED  BY <2>1, Zenon
<1>3. PICK v \in V : \A w \in V : w <= v
  BY <1>2, Largest, Zenon
<1>. DEFINE T == {d \in S : bal[d] = v}
<1>4. T # {} /\ T \in SUBSET Nat
  BY <1>1, <1>3, Zenon
<1>5. PICK p \in T : \A d \in T : p <= d
  BY <1>4, NatMin, Zenon
<1>6. \A e \in S \ {p} : \/ bal[p] > bal[e]
                         \/ bal[p] = bal[e] /\ p < e
  <2>1. p \in S /\ bal[p] = v /\ v \in Nat
    BY <1>2, <1>5, Zenon
  <2>2. ASSUME NEW e \in S \ {p}
        PROVE  bal[p] > bal[e] \/ (bal[p] = bal[e] /\ p < e)
    <3>1. bal[e] \in V /\ bal[e] \in Nat /\ bal[e] <= v /\ e \in Nat /\ p \in Nat
      BY <1>1, <1>3, <2>1, Zenon
    <3>2. CASE bal[e] = v
      BY <1>5, <2>1, <3>1, <3>2
    <3>. QED  BY <2>1, <3>1, <3>2
  <2>. QED  BY <2>2, Zenon
<1>7. \A e \in S \ {p} :
        \/ SweepableAmount(bal, p) > SweepableAmount(bal, e)
        \/ SweepableAmount(bal, p) = SweepableAmount(bal, e) /\ p < e
  BY <1>1, <1>5, <1>6, SweepPlanAssumption DEF SweepableAmount
<1>. QED  BY <1>7, <1>5, Zenon DEF FeePayer

\* The main address receives exactly what is minted for the deposits of the
\* sweep: the fee that one of them pays is the sum of their shares.
LEMMA ReceivedIsMinted ==
  ASSUME NEW bal, NEW S, S \subseteq DepositId, \A d \in S : bal[d] \in Nat
  PROVE  /\ ExpectedReceived(bal, S) = SumFunctionOnSet(Mint(bal), S)
         /\ \A d \in S : MintAmount(bal, S, d) = Mint(bal)[d]
<1>. DEFINE T == [d \in S |-> TransferOf(bal, S, d)]
            G == [d \in S |-> bal[d] - Rent]
            C == [d \in S |-> FeePerSig]
            M == Mint(bal)
            p == FeePayer(bal, S)
<1>1. IsFiniteSet(S) /\ Rent \in Nat /\ FeePerSig \in Nat
  BY Finitely, FS_Subset, SweepPlanAssumption, Zenon
<1>2. ExpectedReceived(bal, S) = SumFunctionOnSet(T, S)
  BY Zenon DEF ExpectedReceived, SumFunction
<1>3. CASE S = {}
  BY <1>2, <1>3, SumEmpty, Zenon
<1>4. CASE S # {}
  <2>1. p \in S
    BY <1>4, PayerIsHeld, Zenon
  <2>2. PlannedFee(S) \in Int
    BY <1>1, FS_CardinalityType DEF PlannedFee
  <2>3. /\ \A d \in S : G[d] \in Int /\ C[d] \in Int /\ M[d] \in Int
        /\ \A d \in S : G[d] = M[d] + C[d] /\ C[d] = FeePerSig
    BY <1>1 DEF Mint
  <2>4. /\ T[p] = G[p] - PlannedFee(S)
        /\ \A d \in S \ {p} : T[d] = G[d]
    BY <2>1, Zenon DEF TransferOf, SweepableAmount
  <2>. HIDE DEF T, G, C, M, p
  <2>5. SumFunctionOnSet(T, S) = T[p] + SumFunctionOnSet(T, S \ {p})
    BY <1>1, <2>1, SumTake, <2>2, <2>3, <2>4
  <2>6. SumFunctionOnSet(G, S) = G[p] + SumFunctionOnSet(G, S \ {p})
    BY <1>1, <2>1, <2>3, SumTake
  <2>7. SumFunctionOnSet(T, S \ {p}) = SumFunctionOnSet(G, S \ {p})
    BY <2>4, SumEq, <1>1, <2>3, FS_Subset
  <2>8. SumFunctionOnSet(G, S) = SumFunctionOnSet(M, S) + SumFunctionOnSet(C, S)
    BY <1>1, <2>3, SumPlus
  <2>9. /\ SumFunctionOnSet(G, S \ {p}) \in Int /\ SumFunctionOnSet(M, S) \in Int
        /\ G[p] \in Int
    BY <1>1, <2>1, <2>3, SumTake, FS_Subset, Zenon
  <2>10. SumFunctionOnSet(C, S) = PlannedFee(S)
    BY <1>1, <2>3, SumConst DEF PlannedFee
  <2>11. SumFunctionOnSet(T, S) = SumFunctionOnSet(M, S)
    BY <2>2, <2>4, <2>5, <2>6, <2>7, <2>8, <2>9, <2>10
  <2>. QED  BY <1>2, <2>11, <1>1, <1>4, ShareOf, Zenon DEF M, MintAmount, SweepableAmount, Mint
<1>. QED  BY <1>3, <1>4, Zenon

(***************************************************************************)
(* The invariant                                                           *)
(***************************************************************************)
CreditedDeposits == {d \in DepositId : stage[d] \in Credited}

IsLanded(s) == s \in Signature /\ outcome[s] = "ok"

LandedDeposits == {d \in DepositId : IsLanded(sweepOf[d])}

LandedOf(a) == {d \in LandedDeposits : owner[d] = a}

\* Amounts are numbers, and the balance of a deposit is at least the minimum.
AmountsOK ==
  /\ recorded \in [DepositId -> Nat]
  /\ past \in [Account -> SUBSET Int]
  /\ addr \in [Account -> Int] /\ paid \in [Account -> Int]
  /\ balance \in Int /\ main \in Int
  /\ \A d \in DepositId : stage[d] # "none" => recorded[d] >= Minimum

\* Only sweeps that landed are credited, and a sweep is credited as a whole.
CreditedOK ==
  \A d \in CreditedDeposits :
    /\ IsLanded(sweepOf[d])
    /\ \A e \in DepositId : sweepOf[e] = sweepOf[d] => e \in CreditedDeposits

\* The tracked balance is what the credited deposits mint, the main address
\* holds what the landed ones do, and their addresses lost it.
TrackedOK ==
  /\ balance = SumFunctionOnSet(Mint(recorded), CreditedDeposits)
  /\ main = SumFunctionOnSet(Mint(recorded), LandedDeposits)
  /\ \A a \in Account :
       SumFunctionOnSet(Mint(recorded), LandedOf(a)) <= paid[a] - addr[a]

FundsInv == AmountsOK /\ CreditedOK /\ TrackedOK

\* Every sum of the invariant is one of integers over a finite set.
LEMMA MintTypes ==
  ASSUME AmountsOK
  PROVE  /\ \A d \in DepositId : Mint(recorded)[d] \in Int
         /\ \A d \in DepositId : stage[d] # "none" => Mint(recorded)[d] \in Nat
         /\ \A S \in SUBSET DepositId : /\ IsFiniteSet(S)
                                        /\ SumFunctionOnSet(Mint(recorded), S) \in Int
<1>1. \A S \in SUBSET DepositId : IsFiniteSet(S)
  BY Finitely, FS_Subset, Zenon
<1>. HIDE DEF Mint
<1>. QED  BY <1>1, SweepPlanAssumption, SumTake DEF Mint, AmountsOK

\* The initial states satisfy the invariant.
LEMMA FundsInit == Init => FundsInv
<1>. SUFFICES ASSUME Init PROVE FundsInv
  BY Zenon
<1>1. CreditedDeposits = {} /\ LandedDeposits = {}
  BY Zenon DEF Init, CreditedDeposits, LandedDeposits, IsLanded, Credited
<1>. QED  BY <1>1, SumEmpty DEF FundsInv, CreditedOK, Init, AmountsOK, TrackedOK, LandedOf

\* A step that moves no lamports, credits nothing and lands nothing keeps the
\* invariant.
LEMMA FundsIdle ==
  ASSUME FundsInv, AmountsOK', UNCHANGED <<balance, main, addr, paid>>,
         CreditedDeposits' = CreditedDeposits, LandedDeposits' = LandedDeposits,
         \A d \in CreditedDeposits \cup LandedDeposits :
            recorded'[d] = recorded[d] /\ owner'[d] = owner[d],
         CreditedOK'
  PROVE  FundsInv'
<1>. DEFINE f == Mint(recorded)
            g == Mint(recorded')
<1>1. \A S \in SUBSET (CreditedDeposits \cup LandedDeposits) :
        SumFunctionOnSet(g, S) = SumFunctionOnSet(f, S)
  <2>1. ASSUME NEW S \in SUBSET (CreditedDeposits \cup LandedDeposits)
        PROVE  SumFunctionOnSet(g, S) = SumFunctionOnSet(f, S)
    <3>1. \A x \in S : f[x] \in Int /\ g[x] = f[x]
      BY MintTypes, Zenon DEF CreditedDeposits, LandedDeposits, FundsInv, Mint
    <3>. HIDE DEF f, g
    <3>. QED  BY <3>1, SumEq, MintTypes, Zenon DEF FundsInv, CreditedDeposits, LandedDeposits
  <2>. QED  BY <2>1, Zenon
<1>. HIDE DEF f, g
<1>. QED  BY <1>1 DEF FundsInv, TrackedOK, g, LandedOf, f

(***************************************************************************)
(* The steps                                                               *)
(***************************************************************************)

\* Calls, rounds, blocks and upgrades leave the deposits and the lamports alone.
LEMMA FundsFrozen ==
  ASSUME FundsInv, UNCHANGED <<depositVars, addrVars, outcome>>
  PROVE  FundsInv'
<1>. USE DEF depositVars, addrVars
<1>. QED  BY FundsIdle, Zenon DEF FundsInv, AmountsOK, CreditedDeposits, LandedDeposits,
   IsLanded, CreditedOK

\* Minting a deposit or quarantining its mint leaves it credited.
LEMMA FundsMint ==
  ASSUME FundsInv, IInv, NEW d \in DepositId, MintDeposit(d) \/ QuarantinePendingMint(d)
  PROVE  FundsInv'
<1>1. /\ stage[d] = "pending"
      /\ \E x \in {"minted", "unresolved"} : stage' = [stage EXCEPT ![d] = x]
      /\ UNCHANGED <<owner, recorded, sweepOf, balance, addrVars, outcome>>
  BY Zenon DEF MintDeposit, QuarantinePendingMint, chainVars
<1>. USE DEF addrVars
<1>. QED  BY <1>1, FundsIdle DEF CreditedDeposits, LandedDeposits, IsLanded, FundsInv,
   AmountsOK, IInv, TypeInv, Credited, CreditedOK

\* The statuses finalize or drop sweeps that are not credited.
LEMMA FundsStatus ==
  ASSUME FundsInv, IInv, NEW answered \in SUBSET checked, NEW hidden \in SUBSET Unfinalized,
         ApplyStatuses(answered, hidden)
  PROVE  FundsInv'
<1>1. /\ UNCHANGED <<owner, recorded, sweepOf, balance, addrVars, outcome>>
      /\ \A d \in DepositId : \/ stage'[d] = stage[d]
                              \/ sweepOf[d] \in checked /\ stage'[d] \in {"finalized", "dropped"}
  BY Zenon DEF ApplyStatuses, FinalizedAs, NotFound, chainVars, Expired
<1>2. \A d \in DepositId : sweepOf[d] \in checked => stage[d] = "swept"
  BY HeldTogether, Zenon DEF IInv, RoundsOK
<1>. USE DEF addrVars
<1>3. AmountsOK'
  BY <1>1, <1>2, Zenon DEF FundsInv, AmountsOK
<1>4. \A d \in DepositId : stage'[d] \in Credited <=> stage[d] \in Credited
  BY <1>1, <1>2, Zenon DEF Credited
<1>5. CreditedDeposits' = CreditedDeposits /\ LandedDeposits' = LandedDeposits
  BY <1>1, <1>4, Zenon DEF CreditedDeposits, LandedDeposits, IsLanded
<1>6. CreditedOK'
  BY <1>1, <1>5, Zenon DEF FundsInv, CreditedOK, IsLanded
<1>. QED  BY <1>1, <1>3, <1>5, <1>6, FundsIdle, Zenon

\* A new deposit is in no sweep.
LEMMA FundsQueue ==
  ASSUME FundsInv, IInv, NEW a \in Account, NEW bal \in past[a], QueueDeposit(a, bal)
  PROVE  FundsInv'
<1>. DEFINE d == Cardinality(Used) + 1
<1>1. /\ d \in DepositId /\ bal >= Minimum
      /\ stage' = [stage EXCEPT ![d] = "queued"]
      /\ owner' = [owner EXCEPT ![d] = a]
      /\ recorded' = [recorded EXCEPT ![d] = bal]
      /\ UNCHANGED <<sweepOf, balance, addrVars, outcome>>
  BY Zenon DEF QueueDeposit, chainVars, Used
<1>2. d \notin Used
  BY NextId, Zenon DEF IInv
<1>. HIDE DEF d
<1>3. stage[d] = "none" /\ sweepOf[d] = 0
  BY <1>1, <1>2, Zenon DEF IInv, DepositsOK, Used, In
<1>4. /\ stage \in [DepositId -> Stages] /\ owner \in [DepositId -> Account \cup {0}]
      /\ recorded \in [DepositId -> Nat]
  BY Zenon DEF IInv, TypeInv, FundsInv, AmountsOK
<1>. USE DEF addrVars
<1>5. AmountsOK'
  BY <1>1, <1>4, SweepPlanAssumption DEF FundsInv, AmountsOK
<1>6. CreditedDeposits' = CreditedDeposits /\ LandedDeposits' = LandedDeposits
  BY <1>1, <1>3, <1>4, Zenon DEF CreditedDeposits, LandedDeposits, IsLanded, Credited
<1>7. \A e \in CreditedDeposits \cup LandedDeposits :
         recorded'[e] = recorded[e] /\ owner'[e] = owner[e]
  BY <1>1, <1>4, <1>3 DEF CreditedDeposits, LandedDeposits, IsLanded, Signature, Credited
<1>. QED  BY <1>1, <1>5, <1>6, <1>7, FundsIdle, Zenon DEF FundsInv, CreditedOK, IsLanded

\* A new sweep has not landed, and none of its deposits was in another one.
LEMMA FundsSubmit ==
  ASSUME FundsInv, IInv, NEW batch \in toSign, SubmitSweep(batch)
  PROVE  FundsInv'
<1>. DEFINE s == Cardinality(Sweeps) + 1
<1>1. /\ stage' = [d \in DepositId |-> IF d \in batch THEN "swept" ELSE stage[d]]
      /\ sweepOf' = [d \in DepositId |-> IF d \in batch THEN s ELSE sweepOf[d]]
      /\ UNCHANGED <<owner, recorded, balance, addrVars, outcome>>
  BY Zenon DEF SubmitSweep, Sweeps
<1>2. s \notin Sweeps
  BY NextSweep, Zenon DEF IInv
<1>. HIDE DEF s
<1>3. batch \subseteq DepositId /\ \A d \in batch : stage[d] = "queued" /\ sweepOf[d] = 0
  BY Zenon DEF IInv, RoundsOK, DepositsOK, In
<1>4. ~IsLanded(s)
  BY <1>2, Zenon DEF IInv, ChainOK, IsLanded
<1>. USE DEF addrVars
<1>5. AmountsOK'
  BY <1>1, <1>3, Zenon DEF FundsInv, AmountsOK
<1>6. CreditedDeposits' = CreditedDeposits
  BY <1>1, <1>3, Zenon DEF CreditedDeposits, Credited
<1>7. LandedDeposits' = LandedDeposits
  BY <1>1, <1>3, <1>4 DEF IsLanded, LandedDeposits, Signature
<1>8. CreditedOK'
  BY <1>1, <1>3, <1>4, <1>6 DEF CreditedDeposits, Credited, FundsInv, CreditedOK, IsLanded
<1>. QED  BY <1>1, <1>5, <1>6, <1>7, <1>8, FundsIdle, Zenon

\* A payment raises what was paid and what the address has alike; a failed
\* sweep costs the address its fee.
LEMMA FundsPaid ==
  ASSUME FundsInv, UNCHANGED <<depositVars, main>>,
         \A s \in Signature : outcome'[s] = "ok" <=> outcome[s] = "ok",
         past' \in [Account -> SUBSET Int],
         addr' \in [Account -> Int], paid' \in [Account -> Int],
         \A a \in Account : paid[a] - addr[a] <= paid'[a] - addr'[a]
  PROVE  FundsInv'
<1>. USE DEF depositVars
<1>1. CreditedDeposits' = CreditedDeposits /\ LandedDeposits' = LandedDeposits
  BY Zenon DEF CreditedDeposits, LandedDeposits, IsLanded
<1>2. TrackedOK'
  <2>1. \A a \in Account : SumFunctionOnSet(Mint(recorded), LandedOf(a)) <= paid'[a] - addr'[a]
    BY MintTypes DEF LandedOf, LandedDeposits, FundsInv, TrackedOK, AmountsOK
  <2>. QED  BY <1>1, <2>1, Zenon DEF FundsInv, TrackedOK, LandedOf, Mint
<1>. QED  BY <1>2, <1>1, Zenon DEF FundsInv, AmountsOK, CreditedOK, IsLanded

\* A user pays, or a sweep fails.
LEMMA FundsPay ==
  ASSUME FundsInv, NEW a \in Account, NEW x \in Payments, Pay(a, x)
  PROVE  FundsInv'
<1>1. /\ UNCHANGED <<depositVars, main, outcome>>
      /\ addr' = [addr EXCEPT ![a] = addr[a] + x]
      /\ past' = [past EXCEPT ![a] = @ \cup {addr[a] + x}]
      /\ paid' = [paid EXCEPT ![a] = @ + x]
  BY Zenon DEF Pay, SetBalance, chainVars
<1>2. addr \in [Account -> Int] /\ paid \in [Account -> Int] /\ x \in Int
  BY DepositSweepsAssumption DEF FundsInv, AmountsOK
<1>. QED  BY <1>1, FundsPaid, <1>2 DEF FundsInv, AmountsOK

\* A sweep that fails costs its fee payer the fee, and no address has been paid less for it.
LEMMA FundsFail ==
  ASSUME FundsInv, IInv, NEW s \in Signature, NEW fee \in Fees(s), SweepFails(s, fee)
  PROVE  FundsInv'
<1>. DEFINE payer == owner[FeePayer(recorded, Held(s))]
<1>1. /\ UNCHANGED <<depositVars, main, paid>>
      /\ outcome[s] = "none" /\ outcome' = [outcome EXCEPT ![s] = "failed"]
      /\ addr' = [addr EXCEPT ![payer] = addr[payer] - fee]
      /\ past' = [past EXCEPT ![payer] = @ \cup {addr[payer] - fee}]
      /\ Held(s) # {}
  BY Zenon DEF SweepFails, SetBalance, CanLand
<1>2. addr \in [Account -> Int] /\ paid \in [Account -> Int]
  BY Zenon DEF FundsInv, AmountsOK
<1>3. fee \in Nat
  <2>1. Cardinality(Held(s)) \in Nat /\ Cardinality(Held(s)) # 0
    BY <1>1, FS_CardinalityType, FS_EmptySet, MintTypes, Zenon DEF FundsInv, Held
  <2>2. PlannedFee(Held(s)) \in Nat /\ PlannedFee(Held(s)) # 0
    BY <2>1, SweepPlanAssumption DEF PlannedFee
  <2>. QED  BY <2>2 DEF Fees
<1>4. payer \in Account
  <2>1. FeePayer(recorded, Held(s)) \in Held(s)
    BY <1>1, PayerIsHeld, Zenon DEF FundsInv, AmountsOK, Held
  <2>. QED  BY <2>1 DEF IInv, DepositsOK, Held, Signature
<1>. HIDE DEF payer
<1>5. addr' \in [Account -> Int] /\ paid' \in [Account -> Int]
  BY <1>1, <1>2, <1>3, <1>4
<1>6. past' \in [Account -> SUBSET Int]
  BY <1>2, <1>3, <1>4, <1>1 DEF FundsInv, AmountsOK
<1>7. \A b \in Account : paid[b] - addr[b] <= paid'[b] - addr'[b]
  BY <1>1, <1>2, <1>3, <1>4
<1>8. \A t \in Signature : outcome'[t] = "ok" <=> outcome[t] = "ok"
  BY <1>1, Zenon DEF IInv, TypeInv
<1>. QED  BY <1>1, <1>5, <1>6, <1>7, <1>8, FundsPaid, Zenon

\* A sweep lands: the main address receives what its deposits will mint, and
\* each deposit address loses at least that.
LEMMA FundsLand ==
  ASSUME FundsInv, IInv, NEW s \in Signature, NEW fee \in Fees(s), SweepLands(s, fee)
  PROVE  FundsInv'
<1>. DEFINE H == Held(s)
            Of(a) == {d \in H : owner[d] = a}
            M == Mint(recorded)
            D(a) == [d \in Of(a) |-> Debit(s, d, fee)]
<1>1. /\ UNCHANGED <<depositVars, paid>>
      /\ outcome[s] = "none" /\ outcome' = [outcome EXCEPT ![s] = "ok"]
      /\ addr' = [a \in Account |-> addr[a] - SumFunctionOnSet(D(a), Of(a))]
      /\ past' = [a \in Account |-> past[a] \cup {addr'[a]}]
      /\ main' = main + ExpectedReceived(recorded, H)
  BY Zenon DEF SweepLands, CanLand, SumFunction
<1>2. /\ H \in SUBSET DepositId /\ \A a : Of(a) \in SUBSET DepositId
      /\ \A d \in H : recorded[d] \in Nat
  BY Zenon DEF Held, FundsInv, AmountsOK
<1>3. main' = main + SumFunctionOnSet(M, H)
  BY <1>1, <1>2, ReceivedIsMinted, Zenon
<1>4. PlannedFee(H) \in Int /\ fee \in Int /\ fee >= PlannedFee(H) - 1
  BY <1>2, MintTypes, FS_CardinalityType, SweepPlanAssumption DEF FundsInv, PlannedFee, Fees
<1>5. \A d \in H : /\ Debit(s, d, fee) \in Int /\ M[d] \in Int
                   /\ M[d] <= Debit(s, d, fee)
  <2>. SUFFICES ASSUME NEW d \in H
                PROVE  /\ Debit(s, d, fee) \in Int /\ M[d] \in Int
                       /\ M[d] <= Debit(s, d, fee)
    BY Zenon
  <2>1. M[d] = recorded[d] - Rent - FeePerSig
    BY <1>2, Zenon DEF Mint
  <2>2. /\ Rent \in Nat /\ FeePerSig \in Nat /\ FeePerSig >= 1 /\ recorded[d] \in Nat
    BY <1>2, SweepPlanAssumption
  <2>3. CASE d = FeePayer(recorded, H)
    BY <2>3, <1>4, <2>1, <2>2 DEF Debit, TransferOf, SweepableAmount
  <2>4. CASE d # FeePayer(recorded, H)
    BY <2>4, <2>1, <2>2 DEF Debit, TransferOf, SweepableAmount
  <2>. QED  BY <2>3, <2>4, Zenon
<1>6. \A a \in Account : /\ SumFunctionOnSet(D(a), Of(a)) \in Int
                         /\ SumFunctionOnSet(M, Of(a)) \in Int
                         /\ SumFunctionOnSet(M, Of(a)) <= SumFunctionOnSet(D(a), Of(a))
  <2>. SUFFICES ASSUME NEW a \in Account
                PROVE  /\ SumFunctionOnSet(D(a), Of(a)) \in Int
                       /\ SumFunctionOnSet(M, Of(a)) \in Int
                       /\ SumFunctionOnSet(M, Of(a)) <= SumFunctionOnSet(D(a), Of(a))
    BY Zenon
  <2>1. \A d \in Of(a) : M[d] \in Int /\ D(a)[d] \in Int /\ M[d] <= D(a)[d]
    BY <1>5, Zenon
  <2>. DEFINE f == D(a)
              T == Of(a)
  <2>2. IsFiniteSet(T) /\ \A d \in T : M[d] \in Int /\ f[d] \in Int /\ M[d] <= f[d]
    BY <2>1, <1>2, MintTypes, Zenon DEF FundsInv
  <2>. HIDE DEF f, T, M
  <2>. QED  BY <2>2, SumLe, SumTake, Zenon DEF f, T
<1>7. LandedDeposits' = LandedDeposits \cup H /\ LandedDeposits \cap H = {}
  BY <1>1, Zenon DEF LandedDeposits, IsLanded, Held, IInv, TypeInv, depositVars
<1>8. \A a \in Account : LandedOf(a)' = LandedOf(a) \cup Of(a) /\ LandedOf(a) \cap Of(a) = {}
  BY <1>1, <1>7, Zenon DEF LandedOf, depositVars
<1>9. LandedDeposits \in SUBSET DepositId /\ \A a \in Account : LandedOf(a) \in SUBSET DepositId
  BY Zenon DEF LandedDeposits, LandedOf
<1>10. \A d \in DepositId : M[d] \in Int
  BY MintTypes, Zenon DEF FundsInv
<1>11. \A S, T \in SUBSET DepositId : S \cap T = {} =>
         /\ SumFunctionOnSet(M, S \cup T) = SumFunctionOnSet(M, S) + SumFunctionOnSet(M, T)
         /\ SumFunctionOnSet(M, S) \in Int
  <2>. SUFFICES ASSUME NEW S \in SUBSET DepositId, NEW T \in SUBSET DepositId, S \cap T = {}
                PROVE  /\ SumFunctionOnSet(M, S \cup T)
                            = SumFunctionOnSet(M, S) + SumFunctionOnSet(M, T)
                       /\ SumFunctionOnSet(M, S) \in Int
    BY Zenon
  <2>. HIDE DEF M
  <2>. QED  BY <1>10, SumUnion, SumTake, MintTypes DEF FundsInv
<1>. HIDE DEF H, Of, M, D
<1>12. main' = SumFunctionOnSet(M, LandedDeposits')
  BY <1>2, <1>7, <1>9, <1>11, <1>3, Zenon DEF FundsInv, TrackedOK, M
<1>13. \A a \in Account : SumFunctionOnSet(M, LandedOf(a)') <= paid'[a] - addr'[a]
  <2>. SUFFICES ASSUME NEW a \in Account
                PROVE  SumFunctionOnSet(M, LandedOf(a)') <= paid'[a] - addr'[a]
    BY Zenon
  <2>1. /\ SumFunctionOnSet(M, LandedOf(a) \cup Of(a))
             = SumFunctionOnSet(M, LandedOf(a)) + SumFunctionOnSet(M, Of(a))
        /\ SumFunctionOnSet(M, LandedOf(a)) \in Int
    BY <1>2, <1>8, <1>9, <1>11, Zenon
  <2>2. SumFunctionOnSet(M, LandedOf(a)')
          = SumFunctionOnSet(M, LandedOf(a)) + SumFunctionOnSet(M, Of(a))
    BY <1>8, <2>1, Zenon
  <2>3. addr'[a] = addr[a] - SumFunctionOnSet(D(a), Of(a)) /\ paid'[a] = paid[a]
    BY <1>1, Zenon
  <2>. QED  BY <2>1, <2>2, <2>3, <1>6 DEF FundsInv, TrackedOK, M, AmountsOK
<1>14. UNCHANGED <<stage, owner, recorded, sweepOf, balance>>
  BY <1>1, Zenon DEF depositVars
<1>15. CreditedDeposits' = CreditedDeposits /\ Mint(recorded)' = M
  BY <1>14, Zenon DEF CreditedDeposits, M, Mint
<1>16. TrackedOK'
  BY <1>12, <1>13, <1>14, <1>15, Zenon DEF TrackedOK, FundsInv, M
<1>17. CreditedOK'
  BY <1>1, <1>14, <1>15, Zenon DEF IInv, TypeInv, IsLanded, FundsInv, CreditedOK
<1>18. AmountsOK'
  BY <1>1, <1>6, <1>2, <1>3, <1>11, <1>14 DEF FundsInv, AmountsOK
<1>. QED  BY <1>16, <1>17, <1>18, Zenon DEF FundsInv

\* Summing over sweeps what their deposits mint sums it over the deposits.
LEMMA SweepsSummed ==
  ASSUME AmountsOK, NEW K \in SUBSET Signature, NEW h,
         \A s \in K : h[s] = SumFunctionOnSet(Mint(recorded), Held(s))
  PROVE  SumFunctionOnSet(h, K)
           = SumFunctionOnSet(Mint(recorded), {d \in DepositId : sweepOf[d] \in K})
<1>. DEFINE f == Mint(recorded)
            P == [s \in K |-> Held(s)]
            D == {d \in DepositId : sweepOf[d] \in K}
<1>1. IsFiniteSet(K)
  BY Finitely, FS_Subset, Zenon
<1>2. \A s \in K : IsFiniteSet(P[s]) /\ \A d \in P[s] : f[d] \in Int
  BY MintTypes, Zenon DEF Held
<1>3. \A s, t \in K : s # t => P[s] \cap P[t] = {}
  BY Zenon DEF Held
<1>4. \A s \in K : h[s] = SumFunctionOnSet(f, P[s])
  BY Zenon
<1>5. \A x : x \in D <=> \E s \in K : x \in P[s]
  BY Zenon DEF Held
<1>. HIDE DEF f, P, D
<1>6. SumFunctionOnSet(h, K) = SumFunctionOnSet(f, D)
  BY <1>1, <1>2, <1>3, <1>4, <1>5, SumNested
<1>. QED  BY <1>6, Zenon DEF f, D

\* Crediting sweeps adds what the main address received with them to the
\* tracked balance, which is what their deposits mint.
LEMMA FundsCredit ==
  ASSUME FundsInv, IInv, NEW unread \in SUBSET toCredit, CreditSweeps(unread)
  PROVE  FundsInv'
<1>. DEFINE settled == {s \in toCredit \ unread : Settles(s)}
            mismatched == (toCredit \ unread) \ settled
            h == [s \in settled |-> AmountReceived(s)]
            New == {d \in DepositId : sweepOf[d] \in settled}
            M == Mint(recorded)
<1>1. /\ UNCHANGED <<owner, recorded, sweepOf, addrVars, outcome>>
      /\ balance' = balance + SumFunctionOnSet(h, settled)
      /\ stage' = [d \in DepositId |->
                     IF sweepOf[d] \in settled THEN "pending"
                     ELSE IF sweepOf[d] \in mismatched THEN "unreadable" ELSE stage[d]]
  BY Zenon DEF CreditSweeps, SumFunction, chainVars
<1>2. settled \in SUBSET Signature /\ \A s \in settled : IsLanded(s)
  BY Zenon DEF Settles, IsLanded, IInv, RoundsOK, SweepsIn
<1>3. IsFiniteSet(settled)
  BY <1>2, Finitely, FS_Subset, Zenon
<1>4. \A d \in DepositId : M[d] \in Int
  BY MintTypes, Zenon DEF FundsInv
<1>5. \A s \in settled : h[s] = SumFunctionOnSet(M, Held(s))
  BY ReceivedIsMinted, Zenon DEF Held, FundsInv, AmountsOK, AmountReceived
<1>6. SumFunctionOnSet(h, settled) = SumFunctionOnSet(M, New)
  <2>. HIDE DEF h, settled
  <2>. QED  BY <1>2, <1>5, SweepsSummed, Zenon DEF FundsInv
<1>7. CreditedDeposits' = CreditedDeposits \cup New /\ CreditedDeposits \cap New = {}
  <2>1. \A d \in DepositId : sweepOf[d] \in toCredit => stage[d] = "finalized"
    BY HeldTogether, Zenon DEF IInv, RoundsOK
  <2>2. \A d \in DepositId : /\ sweepOf[d] \in toCredit => stage[d] \notin Credited
                             /\ d \in New => stage'[d] \in Credited
                             /\ d \notin New => (stage'[d] \in Credited <=> stage[d] \in Credited)
    BY <1>1, <2>1, Zenon DEF Credited
  <2>. QED  BY <2>2, Zenon DEF CreditedDeposits
<1>8. CreditedDeposits \in SUBSET DepositId /\ New \in SUBSET DepositId
  BY Zenon DEF CreditedDeposits
<1>9. LandedDeposits' = LandedDeposits /\ \A x : IsLanded(x)' <=> IsLanded(x)
  BY <1>1, Zenon DEF LandedDeposits, IsLanded
<1>10. CreditedOK'
  <2>. SUFFICES ASSUME NEW d \in CreditedDeposits'
                PROVE  /\ IsLanded(sweepOf[d])
                       /\ \A e \in DepositId :
                            sweepOf[e] = sweepOf[d] => e \in CreditedDeposits'
    BY <1>1, <1>9, Zenon DEF CreditedOK
  <2>1. CASE d \in New
    BY <1>2, <1>7, <2>1, Zenon
  <2>2. CASE d \in CreditedDeposits
    BY <1>7, <2>2, Zenon DEF FundsInv, CreditedOK
  <2>. QED  BY <1>7, <2>1, <2>2, Zenon
<1>11. \A d \in DepositId : stage'[d] # "none" => stage[d] # "none"
  BY <1>1, HeldTogether, Zenon DEF IInv, RoundsOK
<1>. HIDE DEF h, settled, mismatched, New, M
<1>12. /\ IsFiniteSet(New) /\ IsFiniteSet(CreditedDeposits)
       /\ SumFunctionOnSet(M, New) \in Int /\ balance \in Int
  BY <1>8, MintTypes, Zenon DEF FundsInv, AmountsOK, M
<1>13. SumFunctionOnSet(M, CreditedDeposits \cup New)
         = SumFunctionOnSet(M, CreditedDeposits) + SumFunctionOnSet(M, New)
  BY <1>4, <1>8, <1>7, <1>12, SumUnion, Zenon
<1>14. balance' = SumFunctionOnSet(M, CreditedDeposits') /\ balance' \in Int
  <2>1. balance = SumFunctionOnSet(M, CreditedDeposits)
    BY Zenon DEF FundsInv, TrackedOK, M
  <2>2. balance' = SumFunctionOnSet(M, CreditedDeposits')
    BY <1>1, <1>6, <1>7, <1>13, <2>1, Zenon
  <2>3. balance' = balance + SumFunctionOnSet(M, New)
    BY <1>1, <1>6, Zenon
  <2>. QED  BY <1>12, <2>2, <2>3
<1>15. TrackedOK'
  BY <1>9, <1>14, <1>1, Zenon DEF FundsInv, TrackedOK, M, LandedOf, Mint, addrVars
<1>16. AmountsOK'
  BY <1>1, <1>11, <1>14, Zenon DEF FundsInv, AmountsOK, addrVars
<1>. QED  BY <1>10, <1>15, <1>16, Zenon DEF FundsInv

\* Every step keeps the invariant.
LEMMA FundsStep == IInv /\ FundsInv /\ [Next]_vars => FundsInv'
<1>. SUFFICES ASSUME IInv, FundsInv, [Next]_vars PROVE FundsInv'
  BY Zenon
<1>1. ASSUME \/ \E a \in Account : DepositSol(a) \/ RefuseDeposit(a)
             \/ StartSweeping \/ FetchBlock \/ FetchBlockFails
             \/ \E batch \in toSign : SignFails(batch)
             \/ \E s \in toSend : FinishSend(s)
             \/ StartMonitor \/ ReadHeight \/ ReadHeightFails
             \/ StartCredit \/ NewBlock \/ Upgrade \/ UNCHANGED vars
      PROVE  FundsInv'
  <2>1. UNCHANGED <<depositVars, addrVars, outcome>>
    BY <1>1, Zenon DEF DepositSol, RefuseDeposit, StartSweeping, FetchBlock, FetchBlockFails,
       SignFails, FinishSend, StartMonitor, ReadHeight, ReadHeightFails, StartCredit,
       NewBlock, Upgrade, vars, chainVars
  <2>. QED  BY <2>1, FundsFrozen, Zenon
<1>2. ASSUME NEW a \in Account, NEW bal \in past[a], QueueDeposit(a, bal) PROVE FundsInv'
  BY <1>2, FundsQueue, Zenon
<1>3. ASSUME NEW a \in Account, NEW x \in Payments, Pay(a, x) PROVE FundsInv'
  BY <1>3, FundsPay, Zenon
<1>4. ASSUME NEW batch \in toSign, SubmitSweep(batch) PROVE FundsInv'
  BY <1>4, FundsSubmit, Zenon
<1>5. ASSUME NEW answered \in SUBSET checked, NEW hidden \in SUBSET (answered \cap Unfinalized),
             ApplyStatuses(answered, hidden)
      PROVE  FundsInv'
  BY <1>5, FundsStatus, Zenon
<1>6. ASSUME NEW unread \in SUBSET toCredit, CreditSweeps(unread) PROVE FundsInv'
  BY <1>6, FundsCredit, Zenon
<1>7. ASSUME NEW d \in DepositId, MintDeposit(d) \/ QuarantinePendingMint(d) PROVE FundsInv'
  BY <1>7, FundsMint, Zenon
<1>8. ASSUME NEW s \in Signature, NEW fee \in Fees(s), SweepLands(s, fee) PROVE FundsInv'
  BY <1>8, FundsLand, Zenon
<1>9. ASSUME NEW s \in Signature, NEW fee \in Fees(s), SweepFails(s, fee) PROVE FundsInv'
  BY <1>9, FundsFail, Zenon
<1>. QED  BY <1>1, <1>2, <1>3, <1>4, <1>5, <1>6, <1>7, <1>8, <1>9, Zenon DEF Next

\* The invariant holds in every reachable state.
LEMMA FundsHold == Spec => [](IInv /\ FundsInv)
BY InvHolds, FundsInit, FundsStep, PTL DEF Spec

\* What Sweep::mints grants is the sum that the invariant speaks of.
LEMMA MintedIs ==
  ASSUME FundsInv, NEW S \in SUBSET CreditedDeposits
  PROVE  Minted(S) = SumFunctionOnSet(Mint(recorded), S)
<1>. DEFINE g == [d \in S |-> MintAmount(recorded, Held(sweepOf[d]), d)]
            f == Mint(recorded)
<1>1. IsFiniteSet(S) /\ \A d \in S : f[d] \in Int
  BY MintTypes, Zenon DEF FundsInv, CreditedDeposits
<1>2. ASSUME NEW d \in S PROVE g[d] = f[d]
  <2>1. Held(sweepOf[d]) \subseteq DepositId /\ d \in Held(sweepOf[d])
    BY Zenon DEF Held, CreditedDeposits
  <2>2. \A e \in Held(sweepOf[d]) : recorded[e] \in Nat
    BY <2>1, Zenon DEF FundsInv, AmountsOK
  <2>. QED  BY <2>1, <2>2, ReceivedIsMinted, Zenon
<1>3. Minted(S) = SumFunctionOnSet(g, S)
  BY Zenon DEF Minted, SumFunction
<1>. HIDE DEF f, g
<1>. QED  BY <1>3, <1>1, <1>2, SumEq, Zenon DEF f

\* What was minted or will be minted is covered by the tracked balance, and the
\* main address holds that balance and what came with sweeps not credited yet.
THEOREM MintsBacked == Spec => []MintsAreBacked
<1>1. IInv /\ FundsInv => MintsAreBacked
  <2>. SUFFICES ASSUME IInv, FundsInv PROVE MintsAreBacked
    BY Zenon
  <2>. DEFINE M == Mint(recorded)
              U == {s \in Signature : /\ outcome[s] = "ok"
                                      /\ \A d \in Held(s) : stage[d] \notin Credited}
              h == [s \in U |-> ExpectedReceived(recorded, Held(s))]
              Rest == {d \in DepositId : sweepOf[d] \in U}
  <2>1. LandedDeposits = CreditedDeposits \cup Rest /\ CreditedDeposits \cap Rest = {}
    BY Zenon DEF FundsInv, CreditedOK, CreditedDeposits, LandedDeposits, IsLanded, Held
  <2>2. \A s \in U : h[s] = SumFunctionOnSet(M, Held(s))
    BY ReceivedIsMinted, Zenon DEF Held, FundsInv, AmountsOK
  <2>3. U \in SUBSET Signature
    BY Zenon
  <2>4. \A d \in DepositId : M[d] \in Int
    BY MintTypes, Zenon DEF FundsInv
  <2>5. SumFunctionOnSet(h, U) = SumFunctionOnSet(M, Rest)
    <3>. HIDE DEF h, U
    <3>. QED  BY <2>2, <2>3, SweepsSummed, Zenon DEF FundsInv
  <2>6. CreditedDeposits \in SUBSET DepositId /\ Rest \in SUBSET DepositId
    BY Zenon DEF CreditedDeposits
  <2>7. SumFunction(h) = SumFunctionOnSet(h, U)
    BY Zenon DEF SumFunction
  <2>. HIDE DEF h, U, Rest, M
  <2>8. SumFunctionOnSet(M, CreditedDeposits \cup Rest)
           = SumFunctionOnSet(M, CreditedDeposits) + SumFunctionOnSet(M, Rest)
    BY <2>4, <2>6, <2>1, SumUnion, MintTypes, Zenon DEF FundsInv
  <2>9. Minted(CreditedDeposits) = balance /\ balance \in Int
    BY MintedIs, Zenon DEF FundsInv, TrackedOK, AmountsOK
  <2>10. main = balance + SumFunction(h)
    BY <2>5, <2>7, <2>1, <2>8, Zenon DEF FundsInv, TrackedOK, M
  <2>11. Minted(CreditedDeposits) <= balance
    BY <2>9
  <2>. QED  BY <2>10, <2>11, Zenon DEF MintsAreBacked, CreditedDeposits, h, U
<1>. QED  BY <1>1, FundsHold, PTL

\* No account is minted more than left its deposit address, although deposit_sol
\* may have queued a balance that an earlier sweep has taken since.
THEOREM MintsArePaidFor == Spec => []MintedWasPaid
<1>1. IInv /\ FundsInv => MintedWasPaid
  <2>. SUFFICES ASSUME IInv, FundsInv, NEW a \in Account
                PROVE  Minted({d \in DepositId : owner[d] = a /\ stage[d] \in Credited})
                         <= paid[a] - addr[a]
    BY Zenon DEF MintedWasPaid
  <2>. DEFINE S == {d \in DepositId : owner[d] = a /\ stage[d] \in Credited}
              M == Mint(recorded)
  <2>1. S \subseteq LandedOf(a) /\ S \in SUBSET CreditedDeposits
    BY Zenon DEF FundsInv, CreditedOK, CreditedDeposits, LandedOf, LandedDeposits
  <2>2. IsFiniteSet(LandedOf(a)) /\ \A d \in LandedOf(a) : M[d] \in Nat
    <3>1. ASSUME NEW d \in LandedDeposits PROVE stage[d] # "none"
      <4>1. sweepOf[d] # 0
        BY DEF LandedDeposits, IsLanded, Signature
      <4>. QED  BY <4>1, Zenon DEF LandedDeposits, IInv, DepositsOK
    <3>. QED  BY <3>1, MintTypes, Zenon DEF FundsInv, LandedOf, LandedDeposits
  <2>3. Minted(S) = SumFunctionOnSet(M, S)
    BY <2>1, MintedIs, Zenon
  <2>4. SumFunctionOnSet(M, LandedOf(a)) <= paid[a] - addr[a]
    BY Zenon DEF FundsInv, TrackedOK
  <2>. HIDE DEF S, M
  <2>5. SumFunctionOnSet(M, S) \in Int /\ SumFunctionOnSet(M, LandedOf(a)) \in Int
    BY <2>1, <2>2, FS_Subset, SumNat
  <2>6. SumFunctionOnSet(M, S) <= SumFunctionOnSet(M, LandedOf(a))
    BY <2>1, <2>2, SumSubset, Zenon
  <2>7. paid[a] - addr[a] \in Int
    BY DEF FundsInv, AmountsOK
  <2>8. Minted(S) <= paid[a] - addr[a]
    BY <2>3, <2>4, <2>5, <2>6, <2>7
  <2>. QED  BY <2>8, Zenon DEF S
<1>. QED  BY <1>1, FundsHold, PTL

================================================================================
