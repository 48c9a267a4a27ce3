------------------------------ MODULE MCEventLog -------------------------------
(***************************************************************************)
(* Model checking of EventLog: every kind of event once, and a few events  *)
(* in longer logs.                                                         *)
(***************************************************************************)
EXTENDS EventLog

\* The arguments of init, with at most one field that is not the usual one.
MCFirstEvents ==
  LET usual == [i \in 1 .. 11 |-> CHOOSE v \in Values(Struct.InitArgs[i]) : TRUE]
  IN  {[timestamp |-> 1, type |-> "Init", fields |-> <<[usual EXCEPT ![i] = v]>>] :
         <<i, v>> \in UNION {{<<j, w>> : w \in Values(Struct.InitArgs[j])} : j \in 1 .. 11}}

MCFirstEvent == {CHOOSE e \in MCFirstEvents : TRUE}

AllEvents == UNION {EventsOf(t) : t \in DOMAIN EventType \ {"Init"}}

SomeEvents ==
  {[timestamp |-> 1, type |-> "QuarantinedPendingMint", fields |-> <<n>>] : n \in 1 .. 2}

\* Any event follows the usual Init event, and only a few follow others.
Following(events) ==
  CASE Len(events) = 1 /\ events[1] \in MCFirstEvent -> Recordable
    [] \A i \in 2 .. Len(events) : events[i] \in SomeEvents -> SomeEvents
    [] OTHER -> {}

MCNext ==
  \/ \E event \in Following(recorded) : RecordEvent(event)
  \/ \E r \in Readers : Page(r)

MCSpec == Init /\ [][MCNext]_vars

================================================================================
