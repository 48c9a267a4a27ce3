--------------------------- MODULE FoundationsProofs ---------------------------
(***************************************************************************)
(* Proofs about what every flow of the minter is built on, for any         *)
(* accounts and endpoints, any number of calls, timers, failures, events   *)
(* and upgrades, any deposits, and any faulty providers.                   *)
(*                                                                         *)
(* Guards: every guard is that of one call or round that runs. The public  *)
(* key: the state that a replay of the log ends in is the one the canister *)
(* has; a replay is a function of the number of events applied, extended   *)
(* by one with every event. Signatures: a message is at most as large as   *)
(* its numbers of signers and transfers allow. Reads: an answer no honest  *)
(* provider gives is given at most as often as there are faulty ones, too  *)
(* few to agree.                                                           *)
(***************************************************************************)
EXTENDS MCFoundations, Sequences, FiniteSetTheorems, TLAPS

(* Guards *)
\* The values of call and of round are told apart by their fields.
LEMMA HoldsInjective ==
  ASSUME NEW k \in Kind, NEW a \in Account, NEW j \in Kind, NEW b \in Account
  PROVE  /\ Holds(k, a) # NoCall
         /\ Holds(k, a) = Holds(j, b) => k = j /\ a = b
         /\ Holds(k, a).endpoint = k /\ Holds(k, a).account = a
BY Zenon DEF Holds, NoCall

\* So are the values of round.
LEMMA RunsInjective ==
  ASSUME NEW t \in Task, NEW u \in Task
  PROVE  /\ Runs(t) # NoRound
         /\ Runs(t) = Runs(u) => t = u
         /\ Runs(t).type = t
BY Zenon DEF Runs, NoRound

\* The inductive invariant.
Agreement == TypeOK /\ MutualExclusion /\ NoGuardLeaks

\* At the start there is neither a guard nor a call.
LEMMA InitAgreement == Init => Agreement
BY DEF Init, Agreement, TypeOK, MutualExclusion, NoGuardLeaks, CallState, RoundState,
       Holds, NoCall, Runs, NoRound

\* Enter adds one guard and the call that holds it.
LEMMA EnterAgreement ==
  ASSUME Agreement, NEW c \in Call, NEW k \in Kind, NEW a \in Account, Enter(c, k, a)
  PROVE  Agreement'
<1> USE DEF Agreement
<1>1. /\ pending' = [pending EXCEPT ![k] = @ \cup {a}]
      /\ call' = [call EXCEPT ![c] = Holds(k, a)]
      /\ active' = active /\ round' = round
  BY Zenon DEF Enter
<1>2. \A d \in Call : call'[d] = IF d = c THEN Holds(k, a) ELSE call[d]
  BY <1>1, Zenon DEF TypeOK
<1>3. \A j \in Kind : pending'[j] = IF j = k THEN pending[k] \cup {a} ELSE pending[j]
  BY <1>1, Zenon DEF TypeOK
<1>4. TypeOK'
  <2>1. pending' \in [Kind -> SUBSET Account] /\ call' \in [Call -> CallState]
    BY <1>1 DEF TypeOK, CallState
  <2>2. ASSUME NEW d \in Call, NEW j \in Kind, NEW b \in Account, call'[d] = Holds(j, b)
        PROVE  b \in pending'[j]
    BY <1>2, <1>3, <2>2, HoldsInjective DEF TypeOK
  <2> QED
    BY <2>1, <2>2, <1>1, Zenon DEF TypeOK
<1>5. MutualExclusion'
  BY <1>2, <1>1 DEF TypeOK, MutualExclusion, Enter, GuardError
<1>6. NoGuardLeaks'
  <2>1. ASSUME NEW j \in Kind, NEW b \in pending'[j]
        PROVE  \E d \in Call : call'[d] = Holds(j, b)
    <3>1. CASE j = k /\ b = a
      BY <3>1, <1>2, Zenon
    <3>2. CASE ~(j = k /\ b = a)
      <4>1. b \in pending[j]
        BY <3>2, <1>3, <2>1, Zenon
      <4>2. b \in Account
        BY <4>1, Zenon DEF TypeOK
      <4>3. PICK d \in Call : call[d] = Holds(j, b)
        BY <4>1, Zenon DEF NoGuardLeaks
      <4>4. d # c
        BY <4>2, <4>3, HoldsInjective, Zenon DEF Enter, GuardError
      <4> QED
        BY <4>3, <4>4, <1>2, Zenon
    <3> QED
      BY <3>1, <3>2, Zenon
  <2> QED
    BY <2>1, <1>1, Zenon DEF NoGuardLeaks
<1> QED
  BY <1>4, <1>5, <1>6, Zenon

\* DropGuard takes away a call and its guard, and no other call holds it.
LEMMA DropAgreement ==
  ASSUME Agreement, NEW c \in Call, call[c] # NoCall, DropGuard(c)
  PROVE  Agreement'
<1> USE DEF Agreement
<1>1. PICK k \in Kind, a \in Account : call[c] = Holds(k, a)
  BY DEF TypeOK, CallState
<1>2. call[c].endpoint = k /\ call[c].account = a
  BY <1>1, HoldsInjective
<1>3. /\ pending' = [pending EXCEPT ![k] = @ \ {a}]
      /\ call' = [call EXCEPT ![c] = NoCall]
      /\ active' = active /\ round' = round
  BY <1>2, Zenon DEF DropGuard
<1>4. \A d \in Call : call'[d] = IF d = c THEN NoCall ELSE call[d]
  BY <1>3, Zenon DEF TypeOK
<1>5. TypeOK'
  <2>1. ASSUME NEW d \in Call, NEW j \in Kind, NEW b \in Account, call'[d] = Holds(j, b)
        PROVE  b \in pending'[j]
    <3>1. b \in pending[j]
      BY <2>1, <1>4, HoldsInjective DEF TypeOK
    <3>2. ~(j = k /\ b = a)
      BY <1>1, HoldsInjective, <2>1, <1>4 DEF MutualExclusion
    <3> QED
      BY <3>1, <3>2, <1>3, Zenon DEF TypeOK
  <2> QED
    BY <2>1, <1>3 DEF TypeOK, CallState
<1>6. NoGuardLeaks'
  <2>1. ASSUME NEW j \in Kind, NEW b \in pending'[j]
        PROVE  \E d \in Call : call'[d] = Holds(j, b)
    <3>1. b \in pending[j] /\ ~(j = k /\ b = a)
      BY <2>1, <1>3, Zenon DEF TypeOK
    <3>2. PICK d \in Call : call[d] = Holds(j, b)
      BY <3>1, Zenon DEF NoGuardLeaks
    <3>3. d # c
      BY <3>1, <3>2, <1>1, HoldsInjective DEF TypeOK
    <3> QED
      BY <3>2, <3>3, <1>4, Zenon
  <2> QED
    BY <2>1, <1>3, Zenon DEF NoGuardLeaks
<1> QED
  BY <1>5, <1>6, <1>3, <1>4 DEF MutualExclusion

\* StartRound adds a task and the round that runs it.
LEMMA StartRoundAgreement ==
  ASSUME Agreement, NEW r \in Round, NEW t \in Task, StartRound(r, t)
  PROVE  Agreement'
<1> USE DEF Agreement
<1>1. /\ round[r] = NoRound /\ t \notin active
      /\ active' = active \cup {t} /\ round' = [round EXCEPT ![r] = Runs(t)]
      /\ pending' = pending /\ call' = call
  BY Zenon DEF StartRound
<1>2. \A s \in Round : round'[s] = IF s = r THEN Runs(t) ELSE round[s]
  BY <1>1, Zenon DEF TypeOK
<1>3. NoGuardLeaks'
  <2>1. ASSUME NEW u \in active'
        PROVE  \E s \in Round : round'[s] = Runs(u)
    <3>1. CASE u = t
      BY <3>1, <1>2, Zenon
    <3>2. CASE u # t
      <4>1. u \in active /\ u \in Task
        BY <3>2, <2>1, <1>1, Zenon DEF TypeOK
      <4>2. PICK s \in Round : round[s] = Runs(u)
        BY <4>1, Zenon DEF NoGuardLeaks
      <4> QED
        BY <4>1, <4>2, <1>1, <1>2, RunsInjective, Zenon
    <3> QED
      BY <3>1, <3>2, Zenon
  <2> QED
    BY <2>1, <1>1, Zenon DEF NoGuardLeaks
<1> QED
  BY <1>3, <1>1, <1>2, RunsInjective DEF TypeOK, RoundState, MutualExclusion

\* EndRound takes away a round and its task, which no other round runs.
LEMMA EndRoundAgreement ==
  ASSUME Agreement, NEW r \in Round, EndRound(r)
  PROVE  Agreement'
<1> USE DEF Agreement
<1>1. PICK t \in Task : round[r] = Runs(t)
  BY Zenon DEF EndRound, TypeOK, RoundState
<1>2. /\ active' = active \ {t} /\ round' = [round EXCEPT ![r] = NoRound]
      /\ pending' = pending /\ call' = call
  BY <1>1, RunsInjective, Zenon DEF EndRound
<1>3. \A s \in Round : round'[s] = IF s = r THEN NoRound ELSE round[s]
  BY <1>2, Zenon DEF TypeOK
<1>4. TypeOK'
  <2>1. ASSUME NEW s \in Round, NEW u \in Task, round'[s] = Runs(u)
        PROVE  u \in active'
    <3>1. s # r /\ round[s] = Runs(u)
      BY <2>1, <1>3, RunsInjective, Zenon
    <3> QED
      BY <1>2, <3>1, <1>1, RunsInjective DEF TypeOK, MutualExclusion
  <2> QED
    BY <2>1, <1>2, Zenon DEF TypeOK, RoundState
<1>5. NoGuardLeaks'
  <2>1. ASSUME NEW u \in active'
        PROVE  \E s \in Round : round'[s] = Runs(u)
    <3>1. u \in active /\ u \in Task /\ u # t
      BY <2>1, <1>2, Zenon DEF TypeOK
    <3>2. PICK s \in Round : round[s] = Runs(u)
      BY <3>1, Zenon DEF NoGuardLeaks
    <3> QED
      BY <3>1, <3>2, <1>1, <1>3, RunsInjective
  <2> QED
    BY <2>1, <1>2, Zenon DEF NoGuardLeaks
<1> QED
  BY <1>4, <1>5, <1>2, <1>3 DEF MutualExclusion

\* Every step keeps the two records in agreement.
LEMMA NextAgreement == Agreement /\ [Next]_vars => Agreement'
<1> SUFFICES ASSUME Agreement, [Next]_vars
             PROVE  Agreement'
  BY Zenon
<1>1. CASE UNCHANGED vars
  BY <1>1, Zenon DEF vars, Agreement, TypeOK, MutualExclusion, NoGuardLeaks
<1>2. ASSUME NEW c \in Call, NEW k \in Kind, NEW a \in Account, Enter(c, k, a)
      PROVE  Agreement'
  BY <1>2, EnterAgreement, Zenon
<1>3. ASSUME NEW c \in Call, Return(c) \/ Trap(c)
      PROVE  Agreement'
  BY <1>3, DropAgreement, Zenon DEF Return, Trap
<1>4. ASSUME NEW r \in Round, NEW t \in Task, StartRound(r, t)
      PROVE  Agreement'
  BY <1>4, StartRoundAgreement, Zenon
<1>5. ASSUME NEW r \in Round, EndRound(r)
      PROVE  Agreement'
  BY <1>5, EndRoundAgreement, Zenon
<1>6. CASE Upgrade
  BY <1>6 DEF Upgrade, Agreement, TypeOK, MutualExclusion, NoGuardLeaks, CallState,
              RoundState, Holds, NoCall, Runs, NoRound
<1> QED
  BY <1>1, <1>2, <1>3, <1>4, <1>5, <1>6, Zenon DEF Next

\* The sets of guards and what runs agree: no call or round ends without its
\* guard, and no two share one.
THEOREM GuardsAgree == Spec => []Agreement
BY InitAgreement, NextAgreement, PTL DEF Spec

\* No two calls of an endpoint for one account and no two rounds of a timer are
\* past their first await at once, however calls return, trap and are upgraded.
THEOREM ExclusiveGuards == Spec => []MutualExclusion
BY GuardsAgree, PTL DEF Agreement

\* A guard never outlives the call or the round that took it.
THEOREM GuardsDoNotLeak == Spec => []NoGuardLeaks
BY GuardsAgree, PTL DEF Agreement

\* The finiteness behind the limit of Guard::new.
Bounded ==
  /\ pending \in [Kind -> SUBSET Account]
  /\ \A k \in Kind : IsFiniteSet(pending[k]) /\ Cardinality(pending[k]) <= MaxConcurrent

\* Guard::new never admits more than MAX_CONCURRENT calls of an endpoint.
THEOREM LimitIsKept == Spec => []ConcurrencyIsBounded
<1>1. Init => Bounded
  BY FS_EmptySet, MaxConcurrentAssumption DEF Init, Bounded
<1>2. Agreement /\ Bounded /\ [Next]_vars => Bounded'
  <2> SUFFICES ASSUME Agreement, Bounded, [Next]_vars
               PROVE  Bounded'
    BY Zenon
  <2>1. CASE pending' = pending
    BY <2>1, Zenon DEF Bounded
  <2>2. ASSUME NEW c \in Call, NEW k \in Kind, NEW a \in Account, Enter(c, k, a)
        PROVE  Bounded'
    <3>1. /\ a \notin pending[k] /\ ~(Cardinality(pending[k]) >= MaxConcurrent)
          /\ pending' = [pending EXCEPT ![k] = @ \cup {a}]
      BY <2>2, Zenon DEF Enter, GuardError
    <3>2. /\ IsFiniteSet(pending[k]) /\ Cardinality(pending[k]) \in Nat
          /\ IsFiniteSet(pending[k] \cup {a})
          /\ Cardinality(pending[k] \cup {a}) = Cardinality(pending[k]) + 1
      BY <3>1, FS_AddElement, FS_CardinalityType, Zenon DEF Bounded
    <3>3. Cardinality(pending[k] \cup {a}) <= MaxConcurrent
      BY <3>1, <3>2, MaxConcurrentAssumption
    <3> QED
      BY <3>1, <3>2, <3>3, Zenon DEF Bounded
  <2>3. ASSUME NEW c \in Call, Return(c) \/ Trap(c)
        PROVE  Bounded'
    <3>1. PICK k \in Kind, a \in Account : call[c] = Holds(k, a)
      BY <2>3 DEF Return, Trap, Agreement, TypeOK, CallState
    <3>2. pending' = [pending EXCEPT ![k] = @ \ {a}]
      BY <2>3, <3>1, HoldsInjective DEF Return, Trap, DropGuard
    <3>3. /\ IsFiniteSet(pending[k] \ {a})
          /\ Cardinality(pending[k] \ {a}) <= Cardinality(pending[k])
      BY FS_Subset, Zenon DEF Bounded
    <3>4. Cardinality(pending[k] \ {a}) <= MaxConcurrent
      BY <3>3, FS_CardinalityType, MaxConcurrentAssumption DEF Bounded
    <3> QED
      BY <3>2, <3>3, <3>4, Zenon DEF Bounded
  <2>4. CASE Upgrade
    BY <2>4, FS_EmptySet, MaxConcurrentAssumption DEF Upgrade, Bounded
  <2> QED
    BY <2>1, <2>2, <2>3, <2>4, Zenon DEF Next, vars, StartRound, EndRound
<1>3. Bounded => ConcurrencyIsBounded
  BY Zenon DEF Bounded, ConcurrencyIsBounded
<1> QED
  BY <1>1, <1>2, <1>3, GuardsAgree, PTL DEF Spec

\* At any moment the guards are those of the calls and rounds that run, one each
\* and within the limit.
THEOREM GuardsStayExact == Spec => []GuardsAreExact
BY ExclusiveGuards, GuardsDoNotLeak, LimitIsKept, PTL DEF GuardsAreExact

(* Key *)
\* The events that matter for the key.
Events == {"Init", "MinterPublicKeyFetched", "SubmittedSweep", "Upgrade"}

\* f is the sequence of states that replaying events goes through.
IsReplay(f, events) ==
  f = [n \in 0 .. Len(events) |->
         IF n = 0 THEN MinterKey!NoKey ELSE MinterKey!Apply(f[n - 1], events[n])]

\* There is a replay of the log, and it ends in the state that the canister has.
Replayed ==
  /\ \E f : IsReplay(f, log)
  /\ \A f : IsReplay(f, log) => f[Len(log)] = cached

\* The events are a sequence; a sweep that awaits has read the key.
KeyInv ==
  /\ log \in Seq(Events) /\ Len(log) > 0
  /\ cached \in {MinterKey!Key, MinterKey!NoKey}
  /\ sweeping = 1 => cached = MinterKey!Key
  /\ timers \in Nat /\ fetching \in Nat
  /\ MinterKey!FetchUnderWay
  /\ Replayed

\* The state that Replay computes is the one in which a replay ends.
LEMMA ReplayIsCached ==
  ASSUME KeyInv
  PROVE  MinterKey!Replay(log) = cached
<1>. DEFINE after == CHOOSE f : IsReplay(f, log)
<1>1. IsReplay(after, log)
  BY Zenon DEF KeyInv, Replayed
<1>2. MinterKey!Replay(log) = after[Len(log)]
  BY Zenon DEF MinterKey!Replay, IsReplay
<1>. HIDE DEF after
<1>. QED  BY <1>1, <1>2, Zenon DEF KeyInv, Replayed

\* One more event is replayed after the others.
LEMMA ReplayMore ==
  ASSUME KeyInv, NEW e \in Events, log' = Append(log, e), cached' = MinterKey!Apply(cached, e)
  PROVE  Replayed'
<1>. DEFINE n == Len(log)
<1>1. /\ n \in Nat /\ Len(log') = n + 1 /\ log'[n + 1] = e
      /\ \A i \in 1 .. n : log'[i] = log[i]
  BY DEF KeyInv
<1>. HIDE DEF n
<1>2. PICK f : IsReplay(f, log)
  BY Zenon DEF KeyInv, Replayed
<1>. DEFINE g == [i \in 0 .. n + 1 |-> IF i = n + 1 THEN cached' ELSE f[i]]
<1>3. IsReplay(g, log')
  <2>1. f = [i \in 0 .. n |-> IF i = 0 THEN MinterKey!NoKey ELSE MinterKey!Apply(f[i - 1], log[i])]
    BY <1>2, Zenon DEF IsReplay, n
  <2>2. ASSUME NEW i \in 0 .. n + 1
        PROVE  g[i] = IF i = 0 THEN MinterKey!NoKey ELSE MinterKey!Apply(g[i - 1], log'[i])
    <3>1. CASE i = 0
      BY <1>1, <2>1, <3>1
    <3>2. CASE i = n + 1
      BY <1>1, <3>2, <1>2 DEF KeyInv, Replayed, n
    <3>3. CASE i \in 1 .. n
      <4>1. i - 1 \in 0 .. n + 1 /\ i - 1 # n + 1 /\ i # n + 1 /\ i \in 0 .. n /\ i # 0
        BY <1>1, <3>3
      <4>2. f[i] = MinterKey!Apply(f[i - 1], log[i])
        BY <2>1, <4>1, Zenon
      <4>. QED  BY <4>1, <4>2, <1>1, <3>3, Zenon
    <3>. QED  BY <1>1, <3>1, <3>2, <3>3
  <2>3. g = [i \in 0 .. n + 1 |-> IF i = 0 THEN MinterKey!NoKey ELSE MinterKey!Apply(g[i - 1], log'[i])]
    BY <2>2, Zenon
  <2>. HIDE DEF g
  <2>. QED  BY <1>1, <2>3, Zenon DEF IsReplay
<1>4. ASSUME NEW h, IsReplay(h, log') PROVE h[Len(log')] = cached'
  <2>1. h = [i \in 0 .. n + 1 |-> IF i = 0 THEN MinterKey!NoKey ELSE MinterKey!Apply(h[i - 1], log'[i])]
    BY <1>1, <1>4, Zenon DEF IsReplay
  <2>. DEFINE r == [i \in 0 .. n |-> h[i]]
  <2>2. ASSUME NEW i \in 0 .. n
        PROVE  r[i] = IF i = 0 THEN MinterKey!NoKey ELSE MinterKey!Apply(r[i - 1], log[i])
    <3>1. CASE i = 0
      BY <1>1, <2>1, <3>1
    <3>2. CASE i # 0
      <4>1. i - 1 \in 0 .. n /\ i \in 0 .. n + 1 /\ i \in 1 .. n
        BY <1>1, <3>2
      <4>2. h[i] = MinterKey!Apply(h[i - 1], log'[i])
        BY <2>1, <3>2, <4>1, Zenon
      <4>. QED  BY <1>1, <3>2, <4>1, <4>2, Zenon
    <3>. QED  BY <3>1, <3>2, Zenon
  <2>3. r = [i \in 0 .. n |-> IF i = 0 THEN MinterKey!NoKey ELSE MinterKey!Apply(r[i - 1], log[i])]
    BY <2>2, Zenon
  <2>4. r[n] = h[n]
    BY <1>1
  <2>. HIDE DEF r
  <2>5. IsReplay(r, log)
    BY <2>3, Zenon DEF IsReplay, n
  <2>6. h[n] = cached
    BY <2>4, <2>5, Zenon DEF KeyInv, Replayed, n
  <2>7. h[n + 1] = MinterKey!Apply(h[n], log'[n + 1])
    BY <2>1, <1>1
  <2>. QED  BY <1>1, <2>6, <2>7, Zenon
<1>. HIDE DEF g
<1>. QED  BY <1>3, <1>4, Zenon DEF Replayed

\* What the events do to a state that has not panicked.
LEMMA Applied ==
  ASSUME NEW state \in {MinterKey!Key, MinterKey!NoKey}
  PROVE  /\ MinterKey!Apply(state, "MinterPublicKeyFetched") = MinterKey!Key
         /\ MinterKey!Apply(MinterKey!Key, "SubmittedSweep") = MinterKey!Key
         /\ MinterKey!Apply(state, "Upgrade") = state
         /\ MinterKey!Key # MinterKey!NoKey /\ MinterKey!Panic # state
<1>. USE DEF MinterKey!Apply, MinterKey!CacheMinterPublicKey, MinterKey!Key, MinterKey!NoKey, MinterKey!Panic
<1>. QED  BY Zenon

\* init leaves a log with one event and a timer that fetches the key.
LEMMA KeyInit == MinterKey!Init => KeyInv
<1>. SUFFICES ASSUME MinterKey!Init PROVE KeyInv
  BY Zenon
<1>1. /\ log = <<"Init">> /\ cached = MinterKey!NoKey
      /\ timers = 1 /\ fetching = 0 /\ sweeping = 0
  BY Zenon DEF MinterKey!Init
<1>2. log \in Seq(Events) /\ Len(log) = 1 /\ log[1] = "Init"
  BY <1>1 DEF Events
<1>3. Replayed
  <2>. DEFINE f == [n \in 0 .. 1 |-> MinterKey!NoKey]
  <2>1. ASSUME NEW n \in 0 .. 1
        PROVE  f[n] = IF n = 0 THEN MinterKey!NoKey ELSE MinterKey!Apply(f[n - 1], log[n])
    BY <1>2 DEF MinterKey!Apply, MinterKey!NoKey, MinterKey!Panic
  <2>2. f = [n \in 0 .. 1 |-> IF n = 0 THEN MinterKey!NoKey ELSE MinterKey!Apply(f[n - 1], log[n])]
    BY <2>1, Zenon
  <2>. HIDE DEF f
  <2>3. ASSUME NEW h, IsReplay(h, log) PROVE h[Len(log)] = cached
    BY <1>2, <2>3, <1>1 DEF IsReplay, MinterKey!Apply, MinterKey!NoKey, MinterKey!Panic
  <2>. QED  BY <2>3, <1>2, <2>2, Zenon DEF Replayed, IsReplay
<1>. QED  BY <1>1, <1>2, <1>3 DEF KeyInv, MinterKey!FetchUnderWay

\* No event, failed fetch, sweep or upgrade breaks the invariant: an upgrade replays the log
\* and finds the key that the canister had.
LEMMA KeyStep == KeyInv /\ [MinterKey!Next]_(MinterKey!vars) => KeyInv'
<1>. SUFFICES ASSUME KeyInv, [MinterKey!Next]_(MinterKey!vars) PROVE KeyInv'
  BY Zenon
<1>. USE DEF MinterKey!FetchUnderWay
<1>1. cached \in {MinterKey!Key, MinterKey!NoKey} /\ MinterKey!Key # MinterKey!NoKey
  BY Applied, Zenon DEF KeyInv
<1>2. ASSUME UNCHANGED <<log, cached>> PROVE Replayed'
  BY <1>2, Zenon DEF KeyInv, Replayed, IsReplay
<1>3. CASE MinterKey!FireTimer
  BY <1>2, <1>3 DEF MinterKey!FireTimer, KeyInv
<1>4. CASE MinterKey!FetchFails
  BY <1>2, <1>4 DEF MinterKey!FetchFails, KeyInv
<1>5. CASE MinterKey!FetchSucceeds
  <2>1. CASE cached # MinterKey!NoKey
    BY <1>2, <1>5, <2>1 DEF MinterKey!FetchSucceeds, KeyInv
  <2>2. CASE cached = MinterKey!NoKey
    <3>1. MinterKey!Apply(cached, "MinterPublicKeyFetched") = MinterKey!Key /\ MinterKey!Key # MinterKey!Panic
      BY <1>1, Applied, Zenon
    <3>2. /\ log' = Append(log, "MinterPublicKeyFetched")
          /\ cached' = MinterKey!Apply(cached, "MinterPublicKeyFetched")
      BY <1>5, <2>2, <3>1, Zenon DEF MinterKey!FetchSucceeds, MinterKey!ProcessEvent
    <3>3. Replayed'
      BY <3>2, ReplayMore, Zenon DEF Events
    <3>4. log' \in Seq(Events) /\ Len(log') > 0
      BY <3>2 DEF KeyInv, Events
    <3>. QED  BY <1>1, <1>5, <3>1, <3>2, <3>3, <3>4 DEF MinterKey!FetchSucceeds, KeyInv
  <2>. QED  BY <2>1, <2>2, Zenon
<1>6. CASE MinterKey!StartSweep
  BY <1>1, <1>2, <1>6, Zenon DEF MinterKey!StartSweep, KeyInv
<1>7. CASE MinterKey!SubmitSweep
  <2>1. cached = MinterKey!Key
    BY <1>7, Zenon DEF MinterKey!SubmitSweep, KeyInv
  <2>2. MinterKey!Apply(cached, "SubmittedSweep") = cached /\ cached # MinterKey!Panic
    BY <1>1, <2>1, Applied, Zenon
  <2>3. log' = Append(log, "SubmittedSweep") /\ cached' = MinterKey!Apply(cached, "SubmittedSweep")
    BY <1>7, <2>2, Zenon DEF MinterKey!SubmitSweep, MinterKey!ProcessEvent
  <2>4. Replayed'
    BY <2>3, ReplayMore, Zenon DEF Events
  <2>5. log' \in Seq(Events) /\ Len(log') > 0
    BY <2>3 DEF KeyInv, Events
  <2>. QED  BY <1>7, <2>2, <2>3, <2>4, <2>5, Zenon DEF MinterKey!SubmitSweep, KeyInv
<1>8. CASE MinterKey!Upgrade
  <2>1. cached' = cached
    BY <1>8, ReplayIsCached, Zenon DEF MinterKey!Upgrade
  <2>2. CASE UNCHANGED log
    BY <1>2, <1>8, <2>1, <2>2 DEF MinterKey!Upgrade, KeyInv
  <2>3. CASE log' = Append(log, "Upgrade")
    <3>1. cached' = MinterKey!Apply(cached, "Upgrade")
      BY <1>1, <2>1, Applied, Zenon
    <3>2. Replayed'
      BY <2>3, <3>1, ReplayMore, Zenon DEF Events
    <3>3. log' \in Seq(Events) /\ Len(log') > 0
      BY <2>3 DEF KeyInv, Events
    <3>. QED  BY <1>8, <2>1, <3>2, <3>3 DEF MinterKey!Upgrade, KeyInv
  <2>. QED  BY <1>8, <2>2, <2>3, Zenon DEF MinterKey!Upgrade, MinterKey!RecordUpgrade
<1>9. CASE UNCHANGED MinterKey!vars
  BY <1>2, <1>9, Zenon DEF MinterKey!vars, KeyInv
<1>. QED  BY <1>3, <1>4, <1>5, <1>6, <1>7, <1>8, <1>9, Zenon DEF MinterKey!Next

\* A key that was recorded is the one every later replay of the log finds, and as long as none
\* is, one fetch or timer is under way, for any number of failures, sweeps and upgrades.
THEOREM KeyNeverLost == MinterKey!Spec => []KeyIsNeverLost
<1>1. KeyInv => KeyIsNeverLost
  BY ReplayIsCached, Zenon DEF KeyInv, KeyIsNeverLost, MinterKey!ReplayAgrees
<1>. QED  BY <1>1, KeyInit, KeyStep, PTL DEF MinterKey!Spec

(* Signing *)
\* A message that is worth signing: the fee payer, which makes the first transfer, is its
\* first signer, and its transaction is within the limit.
MessageOK(m) ==
  \E k \in Nat \ {0} :
    /\ DOMAIN m.signers = 1 .. k /\ Len(m.signers) = k
    /\ m.signers[1] = m.transfers[1].from
    /\ Signing!TransactionSize(m) \in 0 .. MaxTxSize

\* What is signed is such a message, and a signature is in the place of its signer.
SignInv ==
  /\ status \in {"idle", "signing", "signed", "trapped", "SigningFailed"}
  /\ status # "idle" => MessageOK(message)
  /\ status = "signing" => paths = message.signers
  /\ status = "signed" =>
       signatures = [j \in DOMAIN message.signers |-> [by |-> message.signers[j], of |-> message]]

\* A function on 1 .. n is a sequence of n elements.
LEMMA FunctionIsSeq ==
  ASSUME NEW n \in Nat, NEW s, s = [i \in 1 .. n |-> s[i]]
  PROVE  s \in Seq({s[i] : i \in 1 .. n}) /\ Len(s) = n
<1>. DEFINE X == {s[i] : i \in 1 .. n}
<1>1. s \in [1 .. n -> X]
  BY Zenon
<1>. HIDE DEF X
<1>2. s \in Seq(X)
  BY <1>1
<1>3. DOMAIN s = 1 .. Len(s) /\ Len(s) \in Nat /\ DOMAIN s = 1 .. n
  BY <1>1, <1>2
<1>. QED  BY <1>2, <1>3 DEF X

\* Putting an element in front of a sequence.
LEMMA Cons ==
  ASSUME NEW n \in Nat, NEW s, s = [i \in 1 .. n |-> s[i]], NEW x
  PROVE  LET t == <<x>> \o s
         IN  Len(t) = n + 1 /\ DOMAIN t = 1 .. n + 1 /\ t[1] = x
<1>. DEFINE X == {s[i] : i \in 1 .. n} \cup {x}
            t == <<x>> \o s
<1>1. s \in [1 .. n -> X] /\ x \in X
  BY Zenon
<1>. HIDE DEF X
<1>. QED  BY <1>1

\* Of finitely many numbered values one is the largest, and the first of the equal ones.
LEMMA FirstLargest ==
  ASSUME NEW f, NEW S, S \subseteq Nat, S # {}, IsFiniteSet(S), \A d \in S : f[d] \in Nat
  PROVE  \E p \in S : \A e \in S \ {p} : f[p] > f[e] \/ (f[p] = f[e] /\ p < e)
<1>. DEFINE Beats(p, e) == f[p] > f[e] \/ (f[p] = f[e] /\ p < e)
            Won(T) == \E p \in T : \A e \in T \ {p} : Beats(p, e)
            Bad == {T \in SUBSET S : T # {} /\ ~ Won(T)}
            R == StrictSubsetOrdering(S)
<1>1. \A p, e, d \in S : /\ p # e => Beats(p, e) \/ Beats(e, p)
                         /\ Beats(p, e) /\ Beats(e, d) => Beats(p, d)
  OBVIOUS
<1>. HIDE DEF Beats
<1>2. SUFFICES ASSUME Bad # {} PROVE FALSE
  BY Zenon DEF Beats
<1>3. Bad \subseteq FiniteSubsetsOf(S)
  BY FS_Subset, Zenon DEF FiniteSubsetsOf
<1>4. PICK T \in Bad : \A U \in Bad : ~ (<<U, T>> \in R)
  <2>1. IsWellFoundedOn(R, FiniteSubsetsOf(S))
    BY FS_StrictSubsetOrderingWellFounded, Zenon
  <2>. HIDE DEF R, Bad
  <2>. QED  BY <1>2, <1>3, <2>1, WFMin, Zenon
<1>5. PICK x \in T : x \in S
  BY <1>4, Zenon
<1>6. CASE T = {x}
  BY <1>4, <1>6, Zenon
<1>7. CASE T \ {x} # {}
  <2>1. T \ {x} \notin Bad
    BY <1>4, <1>5, ZenonT(60) DEF StrictSubsetOrdering
  <2>2. PICK p \in T \ {x} : \A e \in (T \ {x}) \ {p} : Beats(p, e)
    BY <1>4, <1>7, <2>1, Zenon
  <2>3. CASE Beats(p, x)
    BY <2>2, <2>3, <1>4, Zenon
  <2>4. CASE Beats(x, p)
    <3>1. \A e \in T \ {x} : Beats(x, e)
      BY <1>1, <1>5, <2>2, <2>4, <1>4, Zenon
    <3>. QED  BY <1>4, <1>5, <3>1, Zenon
  <2>. QED  BY <1>1, <1>5, <2>3, <2>4, <1>4, <2>2, Zenon
<1>. QED  BY <1>5, <1>6, <1>7, Zenon

\* One of the deposits of a sweep pays its fee.
LEMMA PayerSigns ==
  ASSUME NEW S \in SUBSET Deposit, S # {}, NEW b, \A d \in S : b[d] \in Nat
  PROVE  Signing!FeePayer(b, S) \in S
<1>1. S \subseteq Nat /\ IsFiniteSet(S)
  BY FoundationsAssumption, FS_Subset, Zenon
<1>2. PICK p \in S : \A e \in S \ {p} : b[p] > b[e] \/ (b[p] = b[e] /\ p < e)
  BY <1>1, FirstLargest, Zenon
<1>3. \A e \in S \ {p} :
        \/ Signing!SweepableAmount(b, p) > Signing!SweepableAmount(b, e)
        \/ Signing!SweepableAmount(b, p) = Signing!SweepableAmount(b, e) /\ p < e
  BY <1>1, <1>2, FoundationsAssumption DEF Signing!SweepableAmount
<1>. QED  BY <1>2, <1>3, Zenon DEF Signing!FeePayer

\* The signer keys of a message.
LEMMA SignerKeysOf ==
  ASSUME NEW p, NEW O, IsFiniteSet(O), p \in O
  PROVE  LET s == Signing!SignerKeys(p, O)
             k == Cardinality(O)
         IN  k \in Nat \ {0} /\ Len(s) = k /\ DOMAIN s = 1 .. k /\ s[1] = p
<1>. DEFINE R == O \ {p}
            n == Cardinality(R)
            at(i) == CHOOSE x \in R : Cardinality({y \in R : y < x}) = i - 1
            f == [i \in 1 .. n |-> at(i)]
<1>1. n \in Nat /\ n = Cardinality(O) - 1 /\ Cardinality(O) \in Nat
  BY FS_RemoveElement, FS_CardinalityType, Zenon
<1>2. Signing!SignerKeys(p, O) = <<p>> \o f
  BY Zenon DEF Signing!SignerKeys, Signing!Sorted, Signing!Cardinality, Cardinality
<1>. HIDE DEF at
<1>3. f = [i \in 1 .. n |-> f[i]]
  BY Zenon
<1>. HIDE DEF f, n
<1>4. LET t == <<p>> \o f IN Len(t) = n + 1 /\ DOMAIN t = 1 .. n + 1 /\ t[1] = p
  BY <1>1, <1>3, Cons, Zenon
<1>5. n + 1 = Cardinality(O) /\ Cardinality(O) \in Nat \ {0}
  BY <1>1
<1>. QED  BY <1>2, <1>4, <1>5, Zenon

\* The message of a sweep of at most MAX_DEPOSITS_PER_SWEEP deposits can be signed and sent:
\* its fee payer signs first, and as many signers as deposits still fit.
LEMMA SweepMessageOK ==
  ASSUME NEW S \in SUBSET Deposit, S # {}, Cardinality(S) <= MaxPerSweep,
         NEW b, \A d \in S : b[d] \in Nat
  PROVE  MessageOK(Signing!SweepMessage(b, S))
<1>. DEFINE order == Signing!TransferOrder(b, S)
            payer == Signing!FeePayer(b, S)
            O == {AddressOf[d] : d \in S}
            m == Signing!SweepMessage(b, S)
            n == Cardinality(S)
            k == Cardinality(O)
<1>1. payer \in S /\ IsFiniteSet(S)
  BY PayerSigns, FoundationsAssumption, FS_Subset, Zenon
<1>2. IsFiniteSet(O) /\ k <= n /\ k \in Nat /\ n \in Nat
  <2>1. [d \in S |-> AddressOf[d]] \in Surjection(S, O)
    BY Zenon DEF Surjection
  <2>. HIDE DEF O
  <2>. QED  BY <1>1, <2>1, FS_Surjection, FS_CardinalityType, Zenon
<1>3. order[1] = payer /\ 1 \in DOMAIN order
  <2>. DEFINE R == S \ {payer}
              r == Cardinality(R)
              at(i) == CHOOSE x \in R :
                         Cardinality({y \in R :
                           \/ Signing!SweepableAmount(b, y) > Signing!SweepableAmount(b, x)
                           \/ Signing!SweepableAmount(b, y) = Signing!SweepableAmount(b, x) /\ y < x}) = i - 1
              f == [i \in 1 .. r |-> at(i)]
  <2>1. r \in Nat
    BY <1>1, FS_RemoveElement, FS_CardinalityType, Zenon
  <2>2. order = <<payer>> \o f
    BY Zenon DEF Signing!TransferOrder, Signing!Sorted, Signing!Cardinality, Cardinality
  <2>. HIDE DEF at
  <2>3. f = [i \in 1 .. r |-> f[i]]
    BY Zenon
  <2>. HIDE DEF f, r, payer, order
  <2>. QED  BY <2>2, <2>1, <2>3, Cons
<1>4. /\ m.signers = Signing!SignerKeys(AddressOf[order[1]], O)
      /\ m.keys = n + 2 /\ m.data = 17 * n
      /\ m.transfers = [i \in DOMAIN order |-> [from   |-> AddressOf[order[i]],
                                                amount |-> Signing!TransferOf(b, S, order[i])]]
  BY Zenon DEF Signing!SweepMessage, Signing!Cardinality, Cardinality
<1>5. AddressOf[order[1]] \in O
  BY <1>1, <1>3, Zenon
<1>. HIDE DEF order, payer, O, m, n
<1>6. k \in Nat \ {0} /\ Len(m.signers) = k /\ DOMAIN m.signers = 1 .. k
      /\ m.signers[1] = AddressOf[order[1]]
  BY <1>2, <1>4, <1>5, SignerKeysOf
<1>7. m.transfers[1].from = AddressOf[order[1]]
  <2>1. m.transfers[1] = [from   |-> AddressOf[order[1]],
                          amount |-> Signing!TransferOf(b, S, order[1])]
    BY <1>3, <1>4, Zenon
  <2>. QED  BY <2>1
<1>. HIDE DEF k
<1>8. Signing!TransactionSize(m) \in 0 .. 1232
  <2>1. n \in Nat /\ k \in Nat /\ k <= n /\ n <= 10
    BY <1>2, FoundationsAssumption, Zenon DEF n
  <2>2. Signing!TransactionSize(m) = 102 + 49 * n + 64 * k
    BY <2>1, <1>4, <1>6, FoundationsAssumption DEF Signing!TransactionSize
  <2>. QED  BY <2>1, <2>2
<1>. QED  BY <1>6, <1>7, <1>8, FoundationsAssumption, ZenonT(60) DEF MessageOK, m

\* So can the message of a batch of at most MAX_WITHDRAWALS_PER_NONCE_TX withdrawals, even if every
\* one goes to another address.
LEMMA BatchMessageOK ==
  ASSUME NEW n \in 1 .. MaxTransfers, NEW r \in 1 .. n
  PROVE  MessageOK(Signing!BatchMessage(n, r))
<1>. DEFINE m == Signing!BatchMessage(n, r)
<1>1. m.signers = <<Main>> /\ m.transfers = [i \in 1 .. n |-> [from |-> Main, amount |-> 0]]
  BY Zenon DEF Signing!BatchMessage
<1>2. m.keys = r + 4 /\ m.data = 10 + 17 * n
  BY Zenon DEF Signing!BatchMessage
<1>. HIDE DEF m
<1>3. DOMAIN m.signers = 1 .. 1 /\ Len(m.signers) = 1 /\ m.signers[1] = Main
  BY <1>1
<1>4. n \in Nat /\ r \in Nat /\ n <= 10 /\ r <= n /\ 1 \in 1 .. n
  BY FoundationsAssumption
<1>5. m.transfers[1].from = Main
  <2>1. m.transfers[1] = [from |-> Main, amount |-> 0]
    BY <1>1, <1>4, Zenon
  <2>. QED  BY <2>1
<1>6. Signing!TransactionSize(m) = 240 + 32 * r + 17 * n
  BY <1>2, <1>3, <1>4, FoundationsAssumption, SMTT(30) DEF Signing!TransactionSize
<1>7. Signing!TransactionSize(m) \in 0 .. MaxTxSize
  BY <1>4, <1>6, FoundationsAssumption
<1>. QED  BY <1>3, <1>5, <1>7 DEF MessageOK, m

\* Such a message is not refused for its size, and the signatures asked for are those of its
\* signers, in their order.
LEMMA Requested ==
  ASSUME NEW m, MessageOK(m), Signing!RequestSignatures(m)
  PROVE  SignInv'
<1>1. ~(Signing!TransactionSize(m) > MaxTxSize)
  <2>1. Signing!TransactionSize(m) \in 0 .. MaxTxSize
    BY Zenon DEF MessageOK
  <2>2. MaxTxSize = 1232
    BY FoundationsAssumption, Zenon
  <2>3. \A x \in 0 .. 1232 : ~(x > 1232)
    OBVIOUS
  <2>. QED  BY <2>1, <2>2, <2>3
<1>2. message' = m /\ status' = "signing" /\ paths' = m.signers
  BY <1>1, Zenon DEF Signing!RequestSignatures, Signing!SignersOf
<1>. QED  BY <1>2, Zenon DEF SignInv

\* Signatures are put in the place of their signer, and a message that fails has none.
LEMMA SignStep == SignInv /\ [Signing!Next]_(Signing!vars) => SignInv'
<1>. SUFFICES ASSUME SignInv, [Signing!Next]_(Signing!vars) PROVE SignInv'
  BY Zenon
<1>1. ASSUME NEW S \in SUBSET Deposit, NEW rich \in S, Signing!SignSweep(S, rich) PROVE SignInv'
  <2>1. /\ Cardinality(S) <= MaxPerSweep
        /\ bal' = [d \in S |-> IF d = rich THEN High ELSE Low]
        /\ Signing!RequestSignatures(Signing!SweepMessage(bal', S))
    BY <1>1, Zenon DEF Signing!SignSweep, Signing!Cardinality, Cardinality
  <2>2. \A d \in S : bal'[d] \in Nat
    BY <2>1, FoundationsAssumption, Zenon
  <2>3. MessageOK(Signing!SweepMessage(bal', S))
    BY <2>1, <2>2, SweepMessageOK, Zenon
  <2>. QED  BY <2>1, <2>3, Requested, Zenon
<1>2. ASSUME NEW n \in BatchSizes, NEW r \in 1 .. n, Signing!SignWithdrawals(n, r) PROVE SignInv'
  BY <1>2, FoundationsAssumption, BatchMessageOK, Requested DEF Signing!SignWithdrawals
<1>3. ASSUME NEW i \in DOMAIN paths, NEW tooShort \in BOOLEAN, Signing!SignatureArrives(i, tooShort)
      PROVE  SignInv'
  BY <1>3, Zenon DEF Signing!SignatureArrives, SignInv
<1>4. ASSUME NEW i \in DOMAIN paths, Signing!SignatureFails(i) PROVE SignInv'
  BY <1>4, Zenon DEF Signing!SignatureFails, SignInv
<1>5. CASE UNCHANGED Signing!vars
  BY <1>5, Zenon DEF Signing!vars, SignInv
<1>. QED  BY <1>1, <1>2, <1>3, <1>4, <1>5, Zenon DEF Signing!Next

\* A transaction that sign_sweep_transaction or sign_batch_withdrawal_message returns has the
\* signature of each of its signers, in the order of the message, and is within the size that
\* Solana accepts, for any deposits, balances and destinations.
THEOREM TransactionsAccepted == Signing!Spec => []TransactionsAreAcceptable
<1>1. Signing!Init => SignInv
  BY Zenon DEF Signing!Init, SignInv
<1>2. SignInv => TransactionsAreAcceptable
  <2>. SUFFICES ASSUME SignInv PROVE TransactionsAreAcceptable
    BY Zenon
  <2>1. ASSUME status = "signed"
        PROVE  /\ Len(signatures) = Len(message.signers)
               /\ \A i \in DOMAIN signatures : signatures[i] = [by |-> message.signers[i], of |-> message]
               /\ signatures[1].by = message.transfers[1].from
    <3>1. PICK k \in Nat \ {0} :
            /\ DOMAIN message.signers = 1 .. k /\ Len(message.signers) = k
            /\ message.signers[1] = message.transfers[1].from
      BY <2>1, Zenon DEF SignInv, MessageOK
    <3>2. signatures = [j \in 1 .. k |-> [by |-> message.signers[j], of |-> message]]
      BY <2>1, <3>1, Zenon DEF SignInv
    <3>3. \A i \in DOMAIN signatures : signatures[i] = [by |-> message.signers[i], of |-> message]
      BY <3>2, Zenon
    <3>4. signatures[1] = [by |-> message.signers[1], of |-> message]
      BY <3>3, <3>1, <3>2
    <3>5. Len(signatures) = k
      BY <3>1, FunctionIsSeq, <3>2, Zenon
    <3>. QED  BY <3>1, <3>3, <3>4, <3>5
  <2>. QED  BY <2>1, Zenon DEF TransactionsAreAcceptable, Signing!SignaturesVerify, SignInv,
     Signing!BatchesFit
<1>. QED  BY <1>1, <1>2, SignStep, PTL DEF Signing!Spec

(* Reads *)
\* The calls of the minter to the SOL RPC canister.
Methods == {"getAccountInfo", "getTransaction", "getSignatureStatuses", "getBalance"}

\* The types of what a read is about.
ReadTypes ==
  /\ faulty \in Nat /\ chain \in Reads!Outcomes \cup {"absent"}
  /\ balance \in Nat
  /\ faulty < Threshold => queued \in Nat

\* A call keeps what its continuation relies on, and an answer that no honest
\* provider would give has been given by faulty ones only.
CallOK ==
  read # Reads!NoRead =>
    /\ DOMAIN read = {"method", "answers", "honest", "faulty"}
    /\ read = [k \in DOMAIN read |-> read[k]]
    /\ read.method \in Methods
    /\ read.faulty \in 0 .. faulty
    /\ DOMAIN read.answers \subseteq Reads!HonestAnswers(read.method) \cup Reads!FaultyAnswers(read.method)
    /\ \A a \in DOMAIN read.answers :
         /\ read.answers[a] \in Nat
         /\ a \notin Reads!HonestAnswers(read.method) => read.answers[a] <= faulty - read.faulty
    /\ read.method = "getTransaction" =>
          \/ flow = "withdrawal" /\ recorded = "Submitted"
          \/ flow = "sweep" /\ recorded = "Succeeded"

\* The inductive invariant of the reads.
ReadInv == ReadTypes /\ CallOK /\ Reads!ConclusionsAreTrue

\* The fields of the answers.
LEMMA Fields ==
  /\ \A r : r = Reads!RpcError => r.kind = "rpc error"
  /\ \A r : r = Reads!NotFound => r.kind = "none"
  /\ \A r : r = Reads!Confirmed => r.kind = "confirmed"
  /\ \A r : r = Reads!Inconsistent => r.kind = "inconsistent"
  /\ \A r : r = Reads!IcError => r.kind = "ic error"
<1>1. ASSUME NEW r, r = Reads!RpcError PROVE r.kind = "rpc error"
  BY <1>1, Zenon DEF Reads!RpcError
<1>2. ASSUME NEW r, r = Reads!NotFound PROVE r.kind = "none"
  BY <1>2, Zenon DEF Reads!NotFound
<1>3. ASSUME NEW r, r = Reads!Confirmed PROVE r.kind = "confirmed"
  BY <1>3, Zenon DEF Reads!Confirmed
<1>4. ASSUME NEW r, r = Reads!Inconsistent PROVE r.kind = "inconsistent"
  BY <1>4, Zenon DEF Reads!Inconsistent
<1>5. ASSUME NEW r, r = Reads!IcError PROVE r.kind = "ic error"
  BY <1>5, Zenon DEF Reads!IcError
<1>. QED  BY <1>1, <1>2, <1>3, <1>4, <1>5, Zenon

\* The fields of a finalized status.
LEMMA FinalizedFields ==
  ASSUME NEW r, NEW o, r = Reads!FinalizedAs(o) PROVE r.kind = "finalized" /\ r.meta = o
BY Zenon DEF Reads!FinalizedAs

\* The fields of a balance.
LEMMA LamportsFields ==
  ASSUME NEW r, NEW b, r = Reads!Lamports(b) PROVE r.kind = "balance" /\ r.lamports = b
BY Zenon DEF Reads!Lamports

\* The kind of an account that is not a nonce account.
LEMMA AccountFields ==
  ASSUME NEW r, NEW k, r = Reads!OtherAccount(k) PROVE r.kind = k
BY Zenon DEF Reads!OtherAccount

\* The fields of a nonce account.
LEMMA NonceFields ==
  ASSUME NEW r, NEW a, NEW v, r = Reads!NonceAccount(a, v)
  PROVE  r.kind = "nonce" /\ r.authority = a /\ r.nonce = v
BY Zenon DEF Reads!NonceAccount

\* The fields of a transaction.
LEMMA FetchedFields ==
  ASSUME NEW r, NEW f, NEW g, NEW t, NEW o, r = Reads!Fetched(f, g, t, o)
  PROVE  r.kind = "transaction" /\ r.first = f /\ r.signs = g /\ r.message = t /\ r.meta = o
BY Zenon DEF Reads!Fetched

\* Initially nothing is asked and nothing concluded.
LEMMA ReadInit == Reads!Init => ReadInv
<1>. SUFFICES ASSUME Reads!Init PROVE ReadInv
  BY Zenon
<1>. QED  BY DEF ReadInv, Reads!Init, ReadTypes, CallOK, Reads!ConclusionsAreTrue

\* Providers that are behind keep their answers when Solana moves on.
LEMMA HonestGrows ==
  ASSUME ReadTypes, ReadTypes', chain' = chain \/ chain = "absent", balance <= balance',
         NEW m \in Methods
  PROVE  Reads!HonestAnswers(m) \subseteq Reads!HonestAnswers(m)'
<1>1. CASE m = "getAccountInfo"
  BY <1>1 DEF Reads!HonestAnswers, Reads!NonceValue, ReadTypes, Reads!Outcomes
<1>2. CASE m = "getTransaction"
  BY <1>2, Zenon DEF Reads!HonestAnswers
<1>3. CASE m = "getSignatureStatuses"
  BY <1>3, Zenon DEF Reads!HonestAnswers
<1>4. CASE m = "getBalance"
  BY <1>4 DEF Reads!HonestAnswers, ReadTypes
<1>. QED  BY <1>1, <1>2, <1>3, <1>4, Zenon DEF Methods

\* Solana moves on.
LEMMA ChainStep ==
  ASSUME ReadInv, (\E o \in Reads!Outcomes : Reads!Land(o)) \/ Reads!Pay
  PROVE  ReadInv'
<1>1. /\ UNCHANGED <<faulty, flow, read, recorded, nonceRead, queued, reason>>
      /\ chain' = chain \/ chain = "absent"
      /\ chain' \in Reads!Outcomes \cup {"absent"}
      /\ balance' \in Nat /\ balance <= balance'
      /\ chain # "absent" => chain' = chain
  BY DEF Reads!Land, Reads!Pay, ReadInv, ReadTypes
<1>2. ReadTypes'
  BY <1>1, Zenon DEF ReadInv, ReadTypes
<1>3. CallOK'
  <2>. SUFFICES ASSUME read # Reads!NoRead PROVE CallOK'
    BY <1>1, Zenon DEF CallOK
  <2>. DEFINE m == read.method
  <2>1. Reads!HonestAnswers(m) \subseteq Reads!HonestAnswers(m)' /\ Reads!FaultyAnswers(m)' = Reads!FaultyAnswers(m)
    BY <1>1, <1>2, HonestGrows DEF Reads!FaultyAnswers, ReadInv, CallOK
  <2>. QED  BY <1>1, <2>1, Zenon DEF CallOK, ReadInv
<1>4. Reads!ConclusionsAreTrue'
  BY <1>1 DEF ReadInv, ReadTypes, Reads!ConclusionsAreTrue
<1>. QED  BY <1>2, <1>3, <1>4, Zenon DEF ReadInv

\* A read starts with no answer.
LEMMA AskStep ==
  ASSUME ReadInv, Reads!AskNonce \/ Reads!AskOutcome \/ Reads!AskStatus \/ Reads!AskSweep \/ Reads!AskBalance
  PROVE  ReadInv'
<1>1. PICK m \in Methods :
        /\ Reads!Ask(m)
        /\ m = "getTransaction" => \/ flow = "withdrawal" /\ recorded = "Submitted"
                                   \/ flow = "sweep" /\ recorded = "Succeeded"
  BY Zenon DEF Reads!AskNonce, Reads!AskOutcome, Reads!AskStatus, Reads!AskSweep,
     Reads!AskBalance, Methods
<1>2. /\ UNCHANGED <<faulty, flow, chain, balance, recorded, nonceRead, queued, reason>>
      /\ read' = [method |-> m, answers |-> [a \in {} |-> 0], honest |-> Providers - faulty,
                  faulty |-> faulty]
  BY <1>1, Zenon DEF Reads!Ask
<1>3. CallOK'
  BY <1>1, <1>2 DEF CallOK, ReadInv, ReadTypes
<1>. QED  BY <1>3, <1>2, Zenon DEF ReadInv, ReadTypes, Reads!ConclusionsAreTrue

\* One more answer: one that no honest provider gives uses up a faulty one.
LEMMA AnswerStep ==
  ASSUME ReadInv, Reads!HonestAnswer \/ Reads!FaultyAnswer
  PROVE  ReadInv'
<1>. DEFINE m == read.method
            old == read.answers
<1>1. PICK kind, a :
        /\ kind \in {"honest", "faulty"}
        /\ read # Reads!NoRead /\ Reads!Answer(kind, a)
        /\ kind = "honest" => a \in Reads!HonestAnswers(m)
        /\ kind = "faulty" => a \in Reads!FaultyAnswers(m)
  BY DEF Reads!HonestAnswer, Reads!FaultyAnswer
<1>2. /\ UNCHANGED <<faulty, flow, chain, balance, recorded, nonceRead, queued, reason>>
      /\ read[kind] > 0
      /\ read' = [read EXCEPT ![kind] = @ - 1,
            !.answers = [b \in DOMAIN @ \cup {a} |-> Reads!Count(@, b) + IF a = b THEN 1 ELSE 0]]
  BY <1>1, Zenon DEF Reads!Answer
<1>3. /\ DOMAIN read = {"method", "answers", "honest", "faulty"}
      /\ read.faulty \in 0 .. faulty /\ m \in Methods /\ CallOK
  BY <1>1, Zenon DEF ReadInv, CallOK
<1>. DEFINE new == [b \in DOMAIN old \cup {a} |-> Reads!Count(old, b) + IF a = b THEN 1 ELSE 0]
<1>4. /\ read'.method = m /\ read'.answers = new
      /\ read'.faulty = IF kind = "faulty" THEN read.faulty - 1 ELSE read.faulty
      /\ DOMAIN read' = {"method", "answers", "honest", "faulty"}
      /\ read' = [k \in DOMAIN read' |-> read'[k]]
  <2>1. "method" \in DOMAIN read /\ "answers" \in DOMAIN read /\ "faulty" \in DOMAIN read
        /\ "honest" \in DOMAIN read
    BY <1>3, Zenon
  <2>2. CASE kind = "honest"
    BY <1>2, <1>3, <2>1, <2>2, Zenon
  <2>3. CASE kind = "faulty"
    BY <1>2, <1>3, <2>1, <2>3, Zenon
  <2>. QED  BY <1>1, <2>2, <2>3, Zenon
<1>5. faulty \in Nat /\ ReadTypes' /\ Reads!ConclusionsAreTrue'
  BY <1>2, Zenon DEF ReadInv, ReadTypes, Reads!ConclusionsAreTrue
<1>6. Reads!HonestAnswers(m)' = Reads!HonestAnswers(m) /\ Reads!FaultyAnswers(m)' = Reads!FaultyAnswers(m)
  <2>1. read'.method = read.method /\ chain' = chain /\ balance' = balance
    BY <1>2, <1>4, Zenon
  <2>. QED  BY <2>1 DEF Reads!HonestAnswers, Reads!FaultyAnswers, Reads!NonceValue
<1>7. read'.faulty \in 0 .. faulty
  <2>1. CASE kind = "faulty"
    <3>1. read.faulty > 0 /\ read'.faulty = read.faulty - 1
      BY <1>2, <1>4, <2>1, Zenon
    <3>. QED  BY <1>3, <1>5, <3>1
  <2>2. CASE kind # "faulty"
    BY <1>3, <1>4, <2>2, Zenon
  <2>. QED  BY <2>1, <2>2, Zenon
<1>8. DOMAIN new \subseteq Reads!HonestAnswers(m) \cup Reads!FaultyAnswers(m)
  BY <1>1, <1>3, Zenon DEF CallOK
<1>9. ASSUME NEW b \in DOMAIN new
      PROVE  /\ new[b] \in Nat
             /\ b \notin Reads!HonestAnswers(m) => new[b] <= faulty - read'.faulty
  <2>1. /\ Reads!Count(old, b) \in Nat
        /\ b \notin Reads!HonestAnswers(m) => Reads!Count(old, b) <= faulty - read.faulty
    BY <1>1, <1>3, <1>5 DEF Reads!Count, CallOK
  <2>2. new[b] = Reads!Count(old, b) + IF a = b THEN 1 ELSE 0
    BY <1>9, Zenon
  <2>3. read.faulty \in Int /\ faulty \in Int
    BY <1>3, <1>5
  <2>. HIDE DEF new, old, m
  <2>4. CASE a = b
    BY <2>2, <2>4, <1>1, <1>4, <2>1, <2>3
  <2>5. CASE a # b
    BY <2>1, <2>2, <2>5, <1>4, <2>3
  <2>. QED  BY <2>4, <2>5, Zenon
<1>. HIDE DEF new
<1>10. m = "getTransaction" => \/ flow = "withdrawal" /\ recorded = "Submitted"
                               \/ flow = "sweep" /\ recorded = "Succeeded"
  BY <1>1, <1>3, Zenon DEF CallOK
<1>11. CallOK'
  <2>1. \A b \in DOMAIN read'.answers :
          /\ read'.answers[b] \in Nat
          /\ b \notin Reads!HonestAnswers(read.method)' => read'.answers[b] <= faulty' - read'.faulty
    <3>1. read'.answers = new /\ faulty' = faulty
      BY <1>2, <1>4, Zenon
    <3>. QED  BY <1>9, <3>1, <1>4, <1>6, Zenon
  <2>2. /\ read'.method \in Methods /\ read'.faulty \in 0 .. faulty'
        /\ read'.method = "getTransaction" =>
              \/ flow' = "withdrawal" /\ recorded' = "Submitted"
              \/ flow' = "sweep" /\ recorded' = "Succeeded"
    BY <1>2, <1>3, <1>4, <1>7, <1>10, Zenon
  <2>. QED  BY <1>4, <2>1, <2>2, <1>8, <1>6, Zenon DEF CallOK
<1>. QED  BY <1>5, <1>11, Zenon DEF ReadInv

\* An answer on which enough providers agree is one that an honest one gave.
LEMMA AgreedIsHonest ==
  ASSUME ReadInv, read # Reads!NoRead, faulty < Threshold
  PROVE  Reads!Result \in {Reads!Inconsistent} \cup Reads!HonestAnswers(read.method)
<1>1. ASSUME NEW a \in Reads!Agreed(read.answers) PROVE a \in Reads!HonestAnswers(read.method)
  BY FoundationsAssumption DEF Reads!Agreed, ReadInv, ReadTypes, CallOK
<1>2. CASE Reads!Agreed(read.answers) # {}
  BY <1>2, <1>1, Zenon DEF Reads!Result
<1>. QED  BY <1>2, Zenon DEF Reads!Result

\* What the minter concludes from an honest answer, or from a failure, is so.
LEMMA ContinueStep ==
  ASSUME ReadInv, read # Reads!NoRead, NEW r, Reads!Continue(r),
         faulty < Threshold =>
           r \in {Reads!Inconsistent, Reads!IcError}
                    \cup Reads!HonestAnswers(read.method)
  PROVE  ReadInv'
<1>. DEFINE m == read.method
<1>1. read' = Reads!NoRead /\ UNCHANGED <<faulty, flow, chain, balance>> /\ m \in Methods
  BY Zenon DEF Reads!Continue, ReadInv, CallOK
<1>2. CallOK'
  BY <1>1, Zenon DEF CallOK
<1>3. ReadTypes /\ Reads!ConclusionsAreTrue
  BY Zenon DEF ReadInv
<1>. DEFINE failures == {Reads!Inconsistent, Reads!IcError, Reads!RpcError}
<1>4. CASE m = "getAccountInfo"
  <2>1. nonceRead' = Reads!ClassifyRead(Reads!ReadVerifiedNonce(r)) /\ UNCHANGED <<recorded, queued, reason>>
    BY <1>4, Zenon DEF Reads!Continue
  <2>2. ASSUME faulty < Threshold, nonceRead' = "Advanced" PROVE chain # "absent"
    <3>1. r \in failures \/ \E v \in 0 .. Reads!NonceValue : r = Reads!NonceAccount("minter", v)
      BY <1>4, <2>2, Zenon DEF Reads!HonestAnswers
    <3>2. Reads!ReadVerifiedNonce(r) # {} /\ ~(Reads!ReadVerifiedNonce(r) \subseteq Reads!Seen)
      BY <2>1, <2>2, Zenon DEF Reads!ClassifyRead
    <3>3. PICK v \in 0 .. Reads!NonceValue : r = Reads!NonceAccount("minter", v)
      <4>1. r.kind = "nonce"
        BY <3>2, Zenon DEF Reads!ReadVerifiedNonce
      <4>2. r \notin failures
        BY <4>1, Fields, Zenon
      <4>. QED  BY <3>1, <4>2, Zenon
    <3>. QED  BY <3>3, NonceFields, <3>2 DEF Reads!NonceValue, Reads!ReadVerifiedNonce,
       Reads!Seen
  <2>. QED  BY <1>1, <1>2, <1>3, <2>1, <2>2, Zenon DEF ReadInv, ReadTypes, Reads!ConclusionsAreTrue
<1>5. CASE m = "getTransaction" /\ flow = "withdrawal"
  <2>1. /\ recorded' = Reads!WithdrawalOutcome(r) /\ nonceRead' = "Failed" /\ UNCHANGED <<queued, reason>>
    BY <1>5, Zenon DEF Reads!Continue
  <2>2. ASSUME faulty < Threshold
        PROVE  /\ recorded' \in {"Succeeded", "Credited"} => chain = "ok"
               /\ recorded' = "Failed" => chain = "err"
               /\ recorded' # "Quarantined"
    <3>1. \/ r \in failures \cup {Reads!NotFound}
          \/ /\ chain \in Reads!Outcomes
             /\ \E k \in {chain, "missing", "partial"} :
                  /\ r = Reads!Fetched("queried", "submitted", "submitted", k)
                  /\ k = "partial" => chain = "ok"
      <4>. DEFINE metas == {chain, "missing"} \cup IF chain = "ok" THEN {"partial"} ELSE {}
      <4>1. chain \in Reads!Outcomes \/ chain = "absent"
        BY <1>3, Zenon DEF ReadTypes
      <4>2. \A k \in metas : k \in {chain, "missing", "partial"} /\ (k = "partial" => chain = "ok")
        BY <4>1, Zenon DEF Reads!Outcomes
      <4>3. \/ r \in failures \cup {Reads!NotFound}
            \/ /\ chain # "absent"
               /\ \E k \in metas : r = Reads!Fetched("queried", "submitted", "submitted", k)
        BY <1>3, <1>5, <2>2, Zenon DEF Reads!HonestAnswers
      <4>. HIDE DEF metas
      <4>. QED  BY <4>1, <4>2, <4>3, Zenon
    <3>2. CASE r \in failures \cup {Reads!NotFound}
      <4>1. r.kind # "transaction"
        BY <3>2, Fields, Zenon
      <4>. QED  BY <2>1, <4>1, Zenon DEF Reads!WithdrawalOutcome, Reads!EnsureSignedWith
    <3>3. CASE chain \in Reads!Outcomes /\ r = Reads!Fetched("queried", "submitted", "submitted", "missing")
      <4>1. r.meta = "missing"
        BY <3>3, FetchedFields
      <4>. QED  BY <2>1, <4>1, Zenon DEF Reads!WithdrawalOutcome
    <3>4. CASE chain = "ok" /\ r = Reads!Fetched("queried", "submitted", "submitted", "partial")
      <4>1. /\ r.kind = "transaction" /\ r.first = "queried" /\ r.signs = "submitted"
            /\ r.message = "submitted" /\ r.meta = "partial"
        BY <3>4, FetchedFields
      <4>. QED  BY <2>1, <3>4, <4>1, Zenon DEF Reads!WithdrawalOutcome, Reads!EnsureSignedWith
    <3>5. CASE chain \in Reads!Outcomes /\ r = Reads!Fetched("queried", "submitted", "submitted", chain)
      <4>1. /\ r.kind = "transaction" /\ r.first = "queried" /\ r.signs = "submitted"
            /\ r.message = "submitted" /\ r.meta = chain
        BY <3>5, FetchedFields
      <4>. QED  BY <2>1, <3>5, <4>1, Zenon DEF Reads!WithdrawalOutcome, Reads!EnsureSignedWith,
         Reads!Outcomes
    <3>. QED  BY <3>1, <3>2, <3>3, <3>4, <3>5, Zenon
  <2>. QED  BY <1>1, <1>2, <1>3, <2>1, <2>2, Zenon DEF ReadInv, ReadTypes, Reads!ConclusionsAreTrue
<1>6. CASE m = "getSignatureStatuses"
  <2>1. recorded' = Reads!SweepOutcome(r) /\ UNCHANGED <<nonceRead, queued, reason>>
    BY <1>6, Zenon DEF Reads!Continue
  <2>2. ASSUME faulty < Threshold
        PROVE  /\ recorded' \in {"Succeeded", "Credited"} => chain = "ok"
               /\ recorded' = "Failed" => chain = "err"
               /\ recorded' # "Quarantined"
    <3>1. \/ r.kind # "finalized"
          \/ chain \in Reads!Outcomes /\ r = Reads!FinalizedAs(chain)
      <4>1. \/ r \in failures \cup {Reads!NotFound, Reads!Confirmed}
            \/ chain \in Reads!Outcomes /\ r = Reads!FinalizedAs(chain)
        BY <1>3, <1>6, <2>2, Zenon DEF Reads!HonestAnswers, ReadTypes
      <4>2. r \in failures \cup {Reads!NotFound, Reads!Confirmed} => r.kind # "finalized"
        BY Fields, Zenon
      <4>. QED  BY <4>1, <4>2, Zenon
    <3>2. CASE r.kind # "finalized"
      BY <2>1, <3>2, Zenon DEF Reads!SweepOutcome
    <3>3. CASE chain \in Reads!Outcomes /\ r = Reads!FinalizedAs(chain)
      BY <3>3, FinalizedFields, <2>1, Zenon DEF Reads!SweepOutcome, Reads!Outcomes
    <3>. QED  BY <3>1, <3>2, <3>3, Zenon
  <2>. QED  BY <1>1, <1>2, <1>3, <2>1, <2>2, Zenon DEF ReadInv, ReadTypes, Reads!ConclusionsAreTrue
<1>7. CASE m = "getTransaction" /\ flow = "sweep"
  <2>1. /\ reason' = Reads!CreditReason(r)
        /\ recorded' = CASE Reads!CreditReason(r) = "-" -> "Credited"
                       [] Reads!CreditReason(r) = "Mismatch" -> "Quarantined"
                       [] OTHER -> recorded
        /\ UNCHANGED <<nonceRead, queued>> /\ recorded = "Succeeded"
    BY <1>7, Zenon DEF Reads!Continue, ReadInv, CallOK
  <2>2. ASSUME faulty < Threshold
        PROVE  /\ recorded' \in {"Succeeded", "Credited"} /\ chain = "ok"
               /\ reason' # "InvalidResponse"
    <3>1. chain = "ok"
      BY <1>3, <2>1, <2>2, Zenon DEF Reads!ConclusionsAreTrue
    <3>2. \/ r \in failures \cup {Reads!NotFound}
          \/ \E k \in {"ok", "missing", "partial"} :
               r = Reads!Fetched("queried", "submitted", "submitted", k)
      BY <1>3, <1>7, <2>2, <3>1, Zenon DEF Reads!HonestAnswers, ReadTypes
    <3>3. Reads!CreditReason(r) \in {"NotFound", "RpcError", "Unreadable", "-"}
      <4>1. CASE r \in failures \cup {Reads!NotFound}
        <5>1. r.kind \in {"none"} \cup Reads!RpcFailure
          BY <4>1, Fields, Zenon DEF Reads!RpcFailure
        <5>. QED  BY <5>1, Zenon DEF Reads!CreditReason, Reads!Untrustworthy, Reads!RpcFailure
      <4>2. CASE \E k \in {"ok", "missing", "partial"} :
                   r = Reads!Fetched("queried", "submitted", "submitted", k)
        <5>1. /\ r.kind = "transaction" /\ r.first = "queried" /\ r.signs = "submitted"
              /\ r.message = "submitted" /\ r.meta \in {"ok", "missing", "partial"}
          BY <4>2, FetchedFields
        <5>. QED  BY <5>1, Zenon DEF Reads!CreditReason, Reads!Untrustworthy,
           Reads!EnsureSignedWith, Reads!RpcFailure
      <4>. QED  BY <3>2, <4>1, <4>2, Zenon
    <3>. QED  BY <2>1, <3>1, <3>3, Zenon
  <2>. QED  BY <1>1, <1>2, <1>3, <2>1, <2>2, Zenon DEF ReadInv, ReadTypes, Reads!ConclusionsAreTrue
<1>8. CASE m = "getBalance"
  <2>1. queued' = (IF r.kind = "balance" THEN r.lamports ELSE 0) /\ UNCHANGED <<recorded, nonceRead, reason>>
    BY <1>8, Zenon DEF Reads!Continue
  <2>2. ASSUME faulty < Threshold PROVE queued' \in Nat /\ queued' <= balance
    <3>1. CASE r \in failures
      <4>1. r.kind # "balance"
        BY <3>1, Fields, Zenon
      <4>. QED  BY <1>3, <2>1, <4>1 DEF ReadTypes
    <3>2. ASSUME NEW b \in 0 .. balance, r = Reads!Lamports(b) PROVE queued' = b
      BY <3>2, LamportsFields, <2>1, Zenon
    <3>. QED  BY <1>3, <3>1, <3>2, <1>8, <2>2 DEF ReadTypes, Reads!HonestAnswers
  <2>. QED  BY <1>1, <1>2, <1>3, <2>1, <2>2, Zenon DEF ReadInv, ReadTypes, Reads!ConclusionsAreTrue
<1>9. m = "getTransaction" => flow \in {"withdrawal", "sweep"}
  BY Zenon DEF ReadInv, CallOK
<1>. QED  BY <1>1, <1>4, <1>5, <1>6, <1>7, <1>8, <1>9, Zenon DEF Methods

\* Neither the chain, nor a call, nor an answer, honest or not, breaks the invariant.
LEMMA ReadStep == ReadInv /\ [Reads!Next]_(Reads!vars) => ReadInv'
<1>. SUFFICES ASSUME ReadInv, [Reads!Next]_(Reads!vars) PROVE ReadInv'
  BY Zenon
<1>1. CASE Reads!Reply
  BY <1>1, AgreedIsHonest, ContinueStep, Zenon DEF Reads!Reply
<1>2. CASE Reads!CallFails
  BY <1>2, ContinueStep, Zenon DEF Reads!CallFails
<1>3. CASE UNCHANGED Reads!vars
  <2>1. UNCHANGED <<faulty, flow, chain, balance, read, recorded, nonceRead, queued, reason>>
    BY <1>3, Zenon DEF Reads!vars
  <2>2. Reads!HonestAnswers(read.method)' = Reads!HonestAnswers(read.method)
    BY <2>1, Zenon DEF Reads!HonestAnswers, Reads!NonceValue
  <2>3. Reads!FaultyAnswers(read.method)' = Reads!FaultyAnswers(read.method)
    BY <2>1 DEF Reads!FaultyAnswers
  <2>. QED  BY <2>1, <2>2, <2>3, Zenon DEF ReadInv, ReadTypes, Reads!ConclusionsAreTrue, CallOK
<1>. QED  BY <1>1, <1>2, <1>3, ChainStep, AskStep, AnswerStep, Zenon DEF Reads!Next

\* While fewer providers are faulty than have to agree, whatever the minter records about a
\* transaction is what happened on Solana, and the nonce and balance it uses are real ones.
THEOREM ReadsConcludeTruth == Reads!Spec => []ConclusionsAreTrue
<1>1. ReadInv => ConclusionsAreTrue
  BY Zenon DEF ReadInv, ConclusionsAreTrue
<1>. QED  BY <1>1, ReadInit, ReadStep, PTL DEF Reads!Spec

\* Even if all providers are faulty, an outcome is recorded from a transaction only that
\* carries the signature the minter made for the message it submitted.
THEOREM ForgeriesRefused == Reads!Spec => ForgeriesConcludeNothing
<1>1. ReadInv /\ [Reads!Next]_(Reads!vars) =>
        [read # Reads!NoRead /\ read.method = "getTransaction" /\ recorded' # recorded =>
         \E a \in Reads!Agreed(read.answers) :
           a.kind = "transaction" /\ a.signs = "submitted" /\ a.message = "submitted"]_(Reads!vars)
  <2>. SUFFICES ASSUME ReadInv, Reads!Next, read # Reads!NoRead, read.method = "getTransaction",
                       recorded' # recorded
                PROVE  \E a \in Reads!Agreed(read.answers) :
                         a.kind = "transaction" /\ a.signs = "submitted" /\ a.message = "submitted"
    BY Zenon DEF Reads!vars
  <2>1. PICK r : /\ Reads!Continue(r)
                 /\ r = Reads!IcError \/ (Reads!Reply /\ r = Reads!Result)
    BY Zenon DEF Reads!Next, Reads!Land, Reads!Pay, Reads!AskNonce, Reads!AskOutcome,
       Reads!AskStatus, Reads!AskSweep, Reads!AskBalance, Reads!Ask,
           Reads!HonestAnswer, Reads!FaultyAnswer, Reads!Answer, Reads!Reply,
           Reads!CallFails
  <2>2. \/ flow = "withdrawal" /\ recorded = "Submitted"
        \/ flow = "sweep" /\ recorded = "Succeeded"
    BY Zenon DEF ReadInv, CallOK
  <2>3. Reads!EnsureSignedWith(r)
    <3>1. CASE flow = "withdrawal"
      BY <2>1, <2>2, <3>1, Zenon DEF Reads!Continue, Reads!WithdrawalOutcome
    <3>2. CASE flow = "sweep"
      BY <2>1, <2>2, <3>2, Zenon DEF Reads!Continue, Reads!CreditReason, Reads!Untrustworthy
    <3>. QED  BY <2>2, <3>1, <3>2, Zenon
  <2>4. r.kind = "transaction" /\ r.first = "queried" /\ r.signs = r.message
    BY <2>3, Zenon DEF Reads!EnsureSignedWith
  <2>5. r \in Reads!Agreed(read.answers) /\ r \in DOMAIN read.answers
    <3>1. r # Reads!IcError /\ r # Reads!Inconsistent
      BY <2>4, Fields, Zenon
    <3>. QED  BY <2>1, <3>1, Zenon DEF Reads!Result, Reads!Agreed
  <2>6. r.message = "submitted"
    <3>1. r \notin {Reads!RpcError, Reads!NotFound}
      BY <2>4, Fields, Zenon
    <3>2. PICK k : r = Reads!Fetched("queried", "submitted", "submitted", k)
      BY <3>1, <2>5, <2>4, AccountFields, FetchedFields DEF Reads!HonestAnswers,
         Reads!FaultyAnswers, ReadInv, CallOK
    <3>. QED  BY <3>2, FetchedFields
  <2>. QED  BY <2>4, <2>5, <2>6, Zenon
<1>2. Reads!Spec => []ReadInv
  BY ReadInit, ReadStep, PTL DEF Reads!Spec
<1>. QED  BY <1>1, <1>2, PTL DEF Reads!Spec, Reads!ForgeriesConcludeNothing,
   ForgeriesConcludeNothing

================================================================================
