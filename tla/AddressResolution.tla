-------------------------- MODULE AddressResolution -------------------------
(***************************************************************************)
(* What ASPU's cache (DHT) and pending queue (ASPUQueue) promise together, *)
(* without headers, routes, messages or time.  Packets wait for            *)
(* destinations; destinations become known and are forgotten again.        *)
(***************************************************************************)
EXTENDS Integers, FiniteSets, FiniteSetsExt

CONSTANTS Ids, Uids, Capacity

VARIABLES
  known,      \* the destinations whose address is known
  waiting     \* a function from the packets that wait to their destinations

vars == <<known, waiting>>

Keep(W) == [u \in W |-> waiting[u]]

Init == known = {} /\ waiting = [u \in {} |-> 0]

\* Room for one more packet: when there is none, the oldest packet goes.
Room ==
  IF Cardinality(DOMAIN waiting) >= Capacity
  THEN DOMAIN waiting \ {Min(DOMAIN waiting)} ELSE DOMAIN waiting

\* A new packet for an unknown destination waits, behind all others.
Accept(u, d) ==
  /\ d \notin known
  /\ \A v \in DOMAIN waiting : v < u
  /\ waiting' = [v \in Room \cup {u} |-> IF v = u THEN d ELSE waiting[v]]
  /\ UNCHANGED known

\* Destinations become known: all the packets that wait for them go, no other.
Learn(I) ==
  /\ known' = known \cup I
  /\ waiting' = Keep({u \in DOMAIN waiting : waiting[u] \notin I})

\* Destinations are forgotten; nobody can be waiting for them.
Forget(I) ==
  /\ known' = known \ I
  /\ UNCHANGED waiting

Next ==
  \/ \E u \in Uids, d \in Ids \cup {-1} : Accept(u, d)
  \/ \E I \in SUBSET Ids : Learn(I) \/ Forget(I)

Spec == Init /\ [][Next]_vars
=============================================================================
