--------------------------- MODULE MCDepositSweeps ---------------------------
(***************************************************************************)
(* Model checking of DepositSweeps: accounts are interchangeable.          *)
(***************************************************************************)
EXTENDS DepositSweeps, TLC

Accounts == Permutations(Account)

=============================================================================
