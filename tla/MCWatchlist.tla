------------------------------ MODULE MCWatchlist ------------------------------
(***************************************************************************)
(* Model checking of Watchlist: accounts are interchangeable.              *)
(***************************************************************************)
EXTENDS Watchlist, TLC

Accounts == Permutations(Account)

================================================================================
