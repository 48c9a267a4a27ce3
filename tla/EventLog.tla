------------------------------- MODULE EventLog -------------------------------
(***************************************************************************)
(* The event log and its readers.  Events are encoded when they are        *)
(* recorded and decoded whenever the log is iterated: by the replay of an  *)
(* upgrade, and by get_events, which converts them to Candid and answers   *)
(* in pages.  Two readers collect the whole log page by page while the     *)
(* minter goes on recording: get_all_events asks for the rest of the total *)
(* that the first page reported, retrieve_all_events for full pages until  *)
(* it has as many as the last page reported.  What they collect is         *)
(* converted back to events and replayed.                                  *)
(***************************************************************************)
EXTENDS EventCodec

CONSTANTS
  FirstEvents,    \* Init events that the log may start with
  Recordable,     \* events that may be recorded
  MaxEvents,      \* bound: length of the log
  FirstBatch,     \* FIRST_BATCH_SIZE of get_all_events
  MaxPerResponse  \* MAX_EVENTS_PER_RESPONSE of get_events

VARIABLES
  recorded,   \* the events given to record_event
  stored,     \* the log in stable memory
  reader,     \* "idle", the reader at work, or "done"
  got,        \* Candid events collected so far
  total       \* the total that the reader was told

vars == <<recorded, stored, reader, got, total>>

Readers == {"get_all_events", "retrieve_all_events"}

\* init records the first event.
Init ==
  /\ \E first \in FirstEvents : recorded = <<first>> /\ stored = <<ToBytes(first)>>
  /\ reader = "idle" /\ got = <<>> /\ total = 0

\* record_event.
RecordEvent(event) ==
  /\ Len(stored) < MaxEvents
  /\ stored' = Append(stored, ToBytes(event))
  /\ recorded' = Append(recorded, event)
  /\ UNCHANGED <<reader, got, total>>

\* with_event_iter.
EventIter == [i \in DOMAIN stored |-> FromBytes(stored[i])]

\* get_events: skip, take, and convert.
GetEvents(start, length) ==
  LET available == IF start < Len(stored) THEN Len(stored) - start ELSE 0
  IN  [events |-> [i \in 1 .. Min({length, MaxPerResponse, available}) |->
                     CandidEvent(FromBytes(stored[start + i]))],
       total  |-> Len(stored)]

\* Both readers stop once they have as many events as they were told.
Done(r, collected, told) == Len(collected) >= told

\* Mutant: get_all_events asks for full pages as well.
NextLength_Full(r) == MaxPerResponse

\* The length that the reader asks for next.
NextLength(r) ==
  IF r = "retrieve_all_events" THEN MaxPerResponse
  ELSE IF got = <<>> THEN FirstBatch ELSE total - Len(got)

\* A page arrives.  get_all_events keeps the total of the first one.
Page(r) ==
  /\ reader = r \/ (reader = "idle" /\ got = <<>>)
  /\ LET page == GetEvents(Len(got), NextLength(r))
     IN  /\ got' = got \o page.events
         /\ total' = IF r = "get_all_events" /\ reader = r THEN total ELSE page.total
         /\ reader' = IF Done(r, got', total') THEN "done" ELSE r
  /\ UNCHANGED <<recorded, stored>>

Next ==
  \/ \E event \in Recordable : RecordEvent(event)
  \/ \E r \in Readers : Page(r)

Spec == Init /\ [][Next]_vars

-------------------------------------------------------------------------------
\* An upgrade at any moment decodes exactly the events that were recorded: every
\* codec of the log inverts its encoder, options without value included, and no
\* two variants share a tag.
StoredEventsSurvive == EventIter = recorded

\* A reader has the events of the log from the first one on, without gap or
\* repetition, though the log grows between two pages.  What it has collected in
\* the end is what it was told there is, and converts back to the events of the
\* minter: replay_events of the tests starts from the same events as an upgrade.
CollectedLogReplays ==
  /\ Len(got) <= Len(recorded)
  /\ \A i \in DOMAIN got : TryFromCandid(got[i]) = recorded[i]
  /\ reader = "done" => Len(got) = total

===============================================================================
