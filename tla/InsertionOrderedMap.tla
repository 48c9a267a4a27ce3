-------------------------- MODULE InsertionOrderedMap --------------------------
(***************************************************************************)
(* The map of the submitted and of the failed transactions: entries by key *)
(* with a sequence number, and keys by sequence number, both functions     *)
(* here.  Iteration walks the second and looks each key up in the first,   *)
(* and ends at the first key it does not find.                             *)
(***************************************************************************)
EXTENDS Containers, Sequences

CONSTANTS
  Keys, Values,
  MaxSeq          \* bound: sequence numbers given

VARIABLES entries, order, nextSeq

vars == <<entries, order, nextSeq>>

\* f without the elements of S in its domain.
Without(f, S) == [x \in DOMAIN f \ S |-> f[x]]

Init == entries = [k \in {} |-> 0] /\ order = [s \in {} |-> 0] /\ nextSeq = 0

\* The sequence number of the key, if it has one.
SeqOf(k) == {entries[x].seq : x \in DOMAIN entries \cap {k}}

Insert(k, v) ==
  /\ nextSeq < MaxSeq
  /\ order' = With(Without(order, SeqOf(k)), nextSeq, k)
  /\ entries' = With(entries, k, [seq |-> nextSeq, value |-> v])
  /\ nextSeq' = nextSeq + 1

\* Mutant: the key stays in the order.
Remove_KeepPlace(k) ==
  /\ entries' = Without(entries, {k})
  /\ UNCHANGED <<order, nextSeq>>

Remove(k) ==
  /\ order' = Without(order, SeqOf(k))
  /\ entries' = Without(entries, {k})
  /\ UNCHANGED nextSeq

\* A value is changed through values_mut.
Change(k, v) ==
  /\ k \in DOMAIN entries
  /\ entries' = [entries EXCEPT ![k].value = v]
  /\ UNCHANGED <<order, nextSeq>>

Next == \E k \in Keys : Remove(k) \/ \E v \in Values : Insert(k, v) \/ Change(k, v)

Spec == Init /\ [][Next]_vars

-------------------------------------------------------------------------------
\* iter: from the oldest entry to the newest, as far as the keys are found.
Iter ==
  LET n == Cardinality(DOMAIN order)
      key(i) == order[Nth(DOMAIN order, i)]
      missing == {i \in 1 .. n : key(i) \notin DOMAIN entries}
      last == IF missing = {} THEN n ELSE Nth(missing, 1) - 1
  IN  [i \in 1 .. last |-> [key |-> key(i), value |-> entries[key(i)].value]]

Abstract == INSTANCE OrderedMap WITH list <- Iter

\* The two maps are inverse to each other, and every sequence number is below the
\* next one, whatever was inserted again or removed.
IndicesAgree ==
  /\ \A k \in DOMAIN entries : entries[k].seq \in DOMAIN order /\ order[entries[k].seq] = k
  /\ \A s \in DOMAIN order :
       s < nextSeq /\ order[s] \in DOMAIN entries /\ entries[order[s]].seq = s

\* What iteration shows changes as module OrderedMap says: no round of the monitor
\* misses a submitted transaction or sees one twice, and the oldest comes first.
RefinesOrderedMap == Abstract!Spec

================================================================================
