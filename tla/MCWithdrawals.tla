---------------------------- MODULE MCWithdrawals ----------------------------
(***************************************************************************)
(* Model checking of Withdrawals, and of what the dashboard shows of it.   *)
(***************************************************************************)
EXTENDS Dashboard
=============================================================================
