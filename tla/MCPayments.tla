------------------------------ MODULE MCPayments -------------------------------
(***************************************************************************)
(* Model checking of the batches of withdrawals.  The mints, which have a  *)
(* run of their own, are at rest.                                          *)
(***************************************************************************)
EXTENDS Payments

batchVars == <<pending, amount, balance, rest, available, batch, batches, ended>>

MCSpec == Init /\ Batches!Init /\ [][Batches!Next /\ UNCHANGED vars]_<<vars, batchVars>>

================================================================================
