------------------------------- MODULE Payouts -------------------------------
(***************************************************************************)
(* What the withdrawal side of the minter promises to a holder of ckSOL:   *)
(* a burn is owed one payment; the payment is made at most once, together  *)
(* with its whole batch, or is refused by Solana for good; and the minter  *)
(* reports to the holder what happened, after it happened.  An upgrade may *)
(* drop a request between its burn and its acceptance, and only then.      *)
(***************************************************************************)
CONSTANTS Burn      \* burn block indices

VARIABLES phase, payments

vars == <<phase, payments>>

Init ==
  /\ phase = [b \in Burn |-> "unrequested"]
  /\ payments = [b \in Burn |-> {}]

Moved(S, from, to) ==
  /\ \A b \in S : phase[b] = from
  /\ phase' = [b \in Burn |-> IF b \in S THEN to ELSE phase[b]]

Request(b) == Moved({b}, "unrequested", "requested") /\ UNCHANGED payments
Accept(b)  == Moved({b}, "requested", "owed") /\ UNCHANGED payments
Lose(S)    == Moved(S, "requested", "lost") /\ UNCHANGED payments

\* One payment p executes a whole batch, and it is the only one of each
\* request of the batch.
Pay(S) ==
  /\ Moved(S, "owed", "paid")
  /\ \E p \in UNION {payments'[b] : b \in S} :
       payments' = [b \in Burn |-> IF b \in S THEN {p} ELSE payments[b]]

Refuse(S)        == Moved(S, "owed", "refused") /\ UNCHANGED payments
ReportPaid(S)    == Moved(S, "paid", "reportedPaid") /\ UNCHANGED payments
ReportRefused(S) == Moved(S, "refused", "reportedRefused") /\ UNCHANGED payments

Next ==
  \/ \E b \in Burn : Request(b) \/ Accept(b)
  \/ \E S \in SUBSET Burn :
       \/ Lose(S) \/ Pay(S) \/ Refuse(S)
       \/ ReportPaid(S) \/ ReportRefused(S)

Spec == Init /\ [][Next]_vars
=============================================================================
