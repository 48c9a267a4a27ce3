-------------------------------- MODULE TtlMap --------------------------------
(***************************************************************************)
(* What a TimedSizedMap promises to its users, who see live entries only:  *)
(* an entry is admitted for a key that has none, when there is room, with  *)
(* an expiry at most Ttl away; from then on it is there, with the same     *)
(* expiry, until it expires or its key is removed.                         *)
(***************************************************************************)
EXTENDS Naturals, FiniteSets, Functions

CONSTANTS Key, Value, Ttl, Capacity

VARIABLES
  clock, \* the time of the latest call
  live   \* the live entries, by key

vars == <<clock, live>>

Init == clock = 0 /\ live = << >>

Admit(k, v, t) ==
  /\ k \notin DOMAIN live
  /\ Cardinality(DOMAIN live) < Capacity
  /\ t >= clock /\ t <= clock + Ttl
  /\ live' = [x \in DOMAIN live \cup {k} |->
                IF x = k THEN [value |-> v, expiresAt |-> t] ELSE live[x]]
  /\ UNCHANGED clock

Modify(k, v) ==
  /\ k \in DOMAIN live
  /\ live' = [live EXCEPT ![k].value = v]
  /\ UNCHANGED clock

Forget(k) ==
  /\ k \in DOMAIN live
  /\ live' = Restrict(live, DOMAIN live \ {k})
  /\ UNCHANGED clock

Tick ==
  /\ clock' = clock + 1
  /\ live' = Restrict(live, {k \in DOMAIN live : live[k].expiresAt >= clock'})

Next ==
  \/ \E k \in Key, v \in Value : \E t \in clock..(clock + Ttl) : Admit(k, v, t)
  \/ \E k \in Key, v \in Value : Modify(k, v)
  \/ \E k \in Key : Forget(k)
  \/ Tick

Spec == Init /\ [][Next]_vars
===============================================================================
