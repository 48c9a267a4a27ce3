------------------------------ MODULE MapSnapshot ------------------------------
(***************************************************************************)
(* Writing a TimedSizedMap out, entry by entry, and reading it back.       *)
(***************************************************************************)
EXTENDS TimedSizedMap, SequencesExt

\* iter_by_expiry: by ascending expiry, then in the order of insertion.
IterByExpiry(m) ==
  LET times == SetToSortSeq(DOMAIN m.by_expiry, <)
      keys  == FlattenSeq([i \in DOMAIN times |-> m.by_expiry[times[i]]])
  IN  [i \in DOMAIN keys |-> [key |-> keys[i], entry |-> m.entries[keys[i]]]]

\* from_ordered_entries.
FromOrderedEntries(pairs) ==
  FoldLeft(LAMBDA m, p : Enqueue(m, p.key, p.entry), Empty, pairs)

-------------------------------------------------------------------------------
\* The indices agree, and the entries of iter_by_expiry are a snapshot of them, whatever was
\* inserted, evicted and removed before: from_ordered_entries makes an identical map of
\* the snapshot, with the same queues in the same order.
SnapshotRestores ==
  /\ IndicesAgree
  /\ FromOrderedEntries(IterByExpiry(map)) = map

================================================================================
