------------------------------- MODULE Dashboard -------------------------------
(***************************************************************************)
(* What the dashboard shows of the withdrawals: a table of all requests    *)
(* with their status, cut into pages that are reached by links with an     *)
(* offset.  It only reads the state of module Withdrawals.                 *)
(***************************************************************************)
EXTENDS Withdrawals, SequencesExt

CONSTANT PageSize   \* DEFAULT_PAGE_SIZE

ASSUME PageSizeAssumption == PageSize \in Nat \ {0}

In(s) == {b \in Burn : status[b] = s}

\* State::withdrawal_status.
WithdrawalStatus(b) ==
  CASE status[b] \in {"pending", "created"} -> "Pending"
    [] status[b] = "sent" -> "Sent"
    [] status[b] = "successful" -> "Succeeded"
    [] status[b] = "failed" -> "Failed"
    [] OTHER -> "NotFound"

NewestFirst(S, label) ==
  LET sorted == SetToSortSeq(S, LAMBDA x, y : x > y)
  IN  [i \in DOMAIN sorted |-> [request |-> sorted[i], status |-> label]]

\* The rows of the table, in DashboardTemplate::from_state.
WithdrawalRows ==
  NewestFirst(In("pending") \cup In("created"), "Pending") \o NewestFirst(In("sent"), "Sent")
  \o NewestFirst(In("successful"), "Succeeded") \o NewestFirst(In("failed"), "Failed")

\* Mutant: the page after the last one when the last one is full.
PageOffset_AfterLast(total, offset) ==
  IF total = 0 THEN 0
  ELSE Min({(offset \div PageSize) * PageSize, (total \div PageSize) * PageSize})

\* The offset aligned to a page and clamped to the last one.
PageOffset(total, offset) ==
  IF total = 0 THEN 0
  ELSE Min({(offset \div PageSize) * PageSize, ((total - 1) \div PageSize) * PageSize})

\* DashboardTablePagination::new: the offsets of the pages.
PageLinks(total) == [i \in 1 .. (total + PageSize - 1) \div PageSize |-> (i - 1) * PageSize]

\* DashboardPaginatedTable::from_rows.
FromRows(rows, offset) ==
  LET start == PageOffset(Len(rows), offset)
  IN  [rows  |-> SubSeq(rows, start + 1, Min({start + PageSize, Len(rows)})),
       index |-> start \div PageSize + 1,
       pages |-> PageLinks(Len(rows))]

\* The pages that the table links to list every request the minter knows exactly
\* once, with the status that withdraw_sol_status reports for it, also when the
\* last page is full or has one row; and whatever offset is asked for, by hand
\* or by a link of a table that has changed since, one of these pages is shown.
PagesListEveryRequest ==
  LET rows == WithdrawalRows
      links == FromRows(rows, 0).pages
      shown == FlattenSeq([i \in DOMAIN links |-> FromRows(rows, links[i]).rows])
      known == {b \in Burn : WithdrawalStatus(b) # "NotFound"}
  IN  /\ Len(shown) = Cardinality(known)
      /\ \A b \in known :
           \E i \in DOMAIN shown : shown[i] = [request |-> b, status |-> WithdrawalStatus(b)]
      /\ rows # <<>> =>
           \A offset \in 0 .. Cardinality(Burn) + PageSize :
             LET page == FromRows(rows, offset)
             IN  /\ page.rows # <<>> /\ page.index \in DOMAIN links
                 /\ page.rows = FromRows(rows, links[page.index]).rows

================================================================================
