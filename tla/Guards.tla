-------------------------------- MODULE Guards --------------------------------
(***************************************************************************)
(* The guards of the minter: Guard, which keeps the calls of deposit_sol   *)
(* and of withdraw_sol apart per account and bounds them, and TimerGuard,  *)
(* which keeps the rounds of a timer apart.  A call or a round holds its   *)
(* guard over its awaits.  The guard is dropped when it returns; when it   *)
(* traps after an await, the changes of that message are undone and the    *)
(* cleanup of the call drops its locals, the guard among them.  A trap     *)
(* before the first await undoes the whole call, and so does nothing here; *)
(* neither does a call that returns before it.                             *)
(***************************************************************************)
EXTENDS Naturals, FiniteSets

CONSTANTS
  Account,
  Kind,           \* the endpoints with a set of guards: deposit_sol and withdraw_sol
  Task,           \* TaskType
  Call,           \* calls of the endpoints, in any number at once
  Round,          \* executions of the timers
  MaxConcurrent   \* MAX_CONCURRENT

ASSUME MaxConcurrentAssumption == MaxConcurrent \in Nat

VARIABLES
  pending,   \* the accounts of pending_deposit_sol_request_guards and
             \* pending_withdrawal_request_guards
  active,    \* active_tasks
  call,      \* the guard each call holds, or NoCall
  round      \* the task of each execution, or NoRound

vars == <<pending, active, call, round>>

NoCall == [kind |-> "none"]
NoRound == [task |-> "none"]
Holds(k, a) == [kind |-> "guard", endpoint |-> k, account |-> a]
Runs(t) == [task |-> "timer", type |-> t]

Init ==
  /\ pending = [k \in Kind |-> {}] /\ active = {}
  /\ call = [c \in Call |-> NoCall] /\ round = [r \in Round |-> NoRound]

-------------------------------------------------------------------------------
(* Guard. *)

\* Why Guard::new refuses, in the order of its checks.
GuardError(k, a) ==
  IF a \in pending[k] THEN "AlreadyProcessing"
  ELSE IF Cardinality(pending[k]) >= MaxConcurrent THEN "TooManyConcurrentRequests"
  ELSE "none"

\* A call takes its guard and reaches its first await.
Enter(c, k, a) ==
  /\ call[c] = NoCall
  /\ GuardError(k, a) = "none"
  /\ pending' = [pending EXCEPT ![k] = @ \cup {a}]
  /\ call' = [call EXCEPT ![c] = Holds(k, a)]
  /\ UNCHANGED <<active, round>>

\* Drop.
DropGuard(c) ==
  /\ pending' = [pending EXCEPT ![call[c].endpoint] = @ \ {call[c].account}]
  /\ call' = [call EXCEPT ![c] = NoCall]
  /\ UNCHANGED <<active, round>>

Return(c) ==
  /\ call[c] # NoCall
  /\ DropGuard(c)

\* Mutant: a trap leaves the guard behind.
Trap_Leak(c) ==
  /\ call[c] # NoCall
  /\ call' = [call EXCEPT ![c] = NoCall]
  /\ UNCHANGED <<pending, active, round>>

\* A message of the call after its first await traps; its cleanup drops the guard.
Trap(c) ==
  /\ call[c] # NoCall
  /\ DropGuard(c)

-------------------------------------------------------------------------------
(* TimerGuard. *)

\* The timer fires and no round of its task is running.
StartRound(r, t) ==
  /\ round[r] = NoRound
  /\ t \notin active
  /\ active' = active \cup {t}
  /\ round' = [round EXCEPT ![r] = Runs(t)]
  /\ UNCHANGED <<pending, call>>

\* The round returns, or traps after an await and is cleaned up.
EndRound(r) ==
  /\ round[r] # NoRound
  /\ active' = active \ {round[r].type}
  /\ round' = [round EXCEPT ![r] = NoRound]
  /\ UNCHANGED <<pending, call>>

-------------------------------------------------------------------------------

\* The events hold neither calls nor guards.
Upgrade ==
  /\ pending' = [k \in Kind |-> {}] /\ active' = {}
  /\ call' = [c \in Call |-> NoCall] /\ round' = [r \in Round |-> NoRound]

Next ==
  \/ \E c \in Call, k \in Kind, a \in Account : Enter(c, k, a)
  \/ \E c \in Call : Return(c) \/ Trap(c)
  \/ \E r \in Round, t \in Task : StartRound(r, t)
  \/ \E r \in Round : EndRound(r)
  \/ Upgrade

Spec == Init /\ [][Next]_vars

-------------------------------------------------------------------------------
(* Properties. *)

CallState == {NoCall} \cup {Holds(k, a) : k \in Kind, a \in Account}
RoundState == {NoRound} \cup {Runs(t) : t \in Task}

\* The variables have their types, and whoever runs is in the set of its guard.
TypeOK ==
  /\ pending \in [Kind -> SUBSET Account]
  /\ active \subseteq Task
  /\ call \in [Call -> CallState]
  /\ round \in [Round -> RoundState]
  /\ \A c \in Call, k \in Kind, a \in Account : call[c] = Holds(k, a) => a \in pending[k]
  /\ \A r \in Round, t \in Task : round[r] = Runs(t) => t \in active

\* At most one call of an endpoint holds an account past an await, and at most
\* one round of a timer runs: what the assertions of the deposit and withdrawal
\* state rest on.
MutualExclusion ==
  /\ \A c, d \in Call : call[c] = call[d] /\ call[c] # NoCall => c = d
  /\ \A r, s \in Round : round[r] = round[s] /\ round[r] # NoRound => r = s

\* A guard is held by a call or a round that is running: none is left behind by
\* a return, a trap or an upgrade, which would block its account or its timer
\* until the next upgrade and use up the limit.
NoGuardLeaks ==
  /\ \A k \in Kind : \A a \in pending[k] : \E c \in Call : call[c] = Holds(k, a)
  /\ \A t \in active : \E r \in Round : round[r] = Runs(t)

\* Guard::new admits up to MAX_CONCURRENT calls of an endpoint at once.
ConcurrencyIsBounded == \A k \in Kind : Cardinality(pending[k]) <= MaxConcurrent

\* The guards say exactly what runs, whatever calls return, trap or are cut off by
\* an upgrade: a guard has one holder, which is running, and no more than
\* MAX_CONCURRENT calls of an endpoint hold one.
GuardsAreExact == MutualExclusion /\ NoGuardLeaks /\ ConcurrencyIsBounded
===============================================================================
