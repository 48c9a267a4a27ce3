------------------------------ MODULE OrderedMap ------------------------------
(***************************************************************************)
(* What the users of InsertionOrderedMap rely on: a list of entries with   *)
(* distinct keys, the one inserted last at the end.  Inserting a key again *)
(* moves it to the end.                                                    *)
(***************************************************************************)
EXTENDS Containers, Sequences

CONSTANTS Keys, Values

VARIABLE list

Init == list = <<>>

Without(k) == Kept(list, {i \in DOMAIN list : list[i].key # k})

Insert(k, v) == list' = Append(Without(k), [key |-> k, value |-> v])

Remove(k) == list' = Without(k)

\* values_mut.
Change(k, v) ==
  list' = [i \in DOMAIN list |-> IF list[i].key = k THEN [list[i] EXCEPT !.value = v] ELSE list[i]]

Next == \E k \in Keys : Remove(k) \/ \E v \in Values : Insert(k, v) \/ Change(k, v)

Spec == Init /\ [][Next]_list

===============================================================================
