------------------------------- MODULE Containers ------------------------------
(***************************************************************************)
(* What the collections of the minter are written with: changing a map,    *)
(* walking over sorted keys, and filtering a queue in place, in closed     *)
(* form.                                                                   *)
(***************************************************************************)
EXTENDS Naturals, FiniteSets

\* f with x mapped to y.
With(f, x, y) == [z \in DOMAIN f \cup {x} |-> IF z = x THEN y ELSE f[z]]

\* The elements of S smaller than x.
Below(S, x) == {y \in S : y < x}

\* The i-th element of S in ascending order.
Nth(S, i) == CHOOSE x \in S : Cardinality(Below(S, x)) = i - 1

\* The elements of the sequence s at the positions P, in their order.
Kept(s, P) == [j \in 1 .. Cardinality(P) |-> s[Nth(P, j)]]

================================================================================
