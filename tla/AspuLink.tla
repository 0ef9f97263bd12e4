------------------------------ MODULE AspuLink ------------------------------
(***************************************************************************)
(* A link in time (class Neighbor in src/aspu.h, the timers in             *)
(* src/aspu.cc): the HELLOs a node hears of a neighbour, how many of them  *)
(* it counts, how long it keeps the neighbour and whether its ASPUTimer    *)
(* finds the link good enough.  The quality is a product: the node's count *)
(* of the neighbour's HELLOs, and the count of its own HELLOs that the     *)
(* neighbour announced last, 0 while the neighbour does not list it.  Time *)
(* is in units that the constants share, in the code quarters of a second; *)
(* a HELLO is represented by its age.                                      *)
(***************************************************************************)
EXTENDS Integers, FiniteSets

CONSTANTS
  NDP_NEIGHBOR_EXPIRE,          \* 10.5 s
  NDP_MIN_HELLO_INTERVAL,       \* 0.75 s
  NDP_MAX_HELLO_INTERVAL,       \* 1.25 s
  Intervals,                    \* the intervals drawn from between the two
  LQE_MA_EXPECTED_HELLO,        \* 10
  LQE_THRESHOLD,                \* 60: of a product of two counts of tenths
  MaxLosses                     \* bound: HELLOs lost while the link is up

ASSUME LinkAssumption ==
  /\ NDP_MIN_HELLO_INTERVAL \in Nat \ {0}
  /\ NDP_MAX_HELLO_INTERVAL \in Nat /\ NDP_NEIGHBOR_EXPIRE \in Nat \ {0}
  /\ NDP_MIN_HELLO_INTERVAL <= NDP_MAX_HELLO_INTERVAL
  /\ Intervals \subseteq NDP_MIN_HELLO_INTERVAL .. NDP_MAX_HELLO_INTERVAL
  /\ LQE_MA_EXPECTED_HELLO \in Nat \ {0} /\ LQE_THRESHOLD \in Nat
  /\ MaxLosses \in Nat

VARIABLES
  known,        \* whether neighborLookup finds the neighbour
  hellos,       \* Neighbor::helloVector_: the ages of the HELLOs counted
  age,          \* of the HELLO heard last: expire_ less NDP_NEIGHBOR_EXPIRE
  forQuality,   \* Neighbor::forLinkQuality_
  used,         \* whether ASPUTimer found a quality of LQE_THRESHOLD, last
  nextHello, nextCall,          \* time left of the neighbour's HELLO timer
                                \* and of the node's ASPUTimer
  theirs,       \* the neighbour's helloVector_ of the node: empty when it does
                \* not list it
  ourHello, theirCall,          \* time left of the node's HELLO timer and of
                                \* the neighbour's ASPUTimer
  up, losses,
  steady        \* how long they have known each other and heard every HELLO

here == <<known, hellos, age, forQuality, used, nextHello, nextCall>>

there == <<theirs, ourHello, theirCall>>

vars == <<here, there, up, losses, steady>>

\* No age matters beyond this one.
Limit == NDP_NEIGHBOR_EXPIRE + 2 * NDP_MAX_HELLO_INTERVAL

Init ==
  /\ known = FALSE /\ hellos = {} /\ age = Limit /\ forQuality = 0 /\ used = FALSE
  /\ nextHello \in Intervals /\ nextCall \in Intervals
  /\ theirs = {} /\ ourHello \in Intervals /\ theirCall \in Intervals
  /\ up = TRUE /\ losses = 0 /\ steady = 0

Least(x, y) == IF x < y THEN x ELSE y

\* (Mutant: a HELLO counts until another one is heard.)
PurgeHelloNever(H) == H

PurgeHello(H) == {h \in H : h < NDP_NEIGHBOR_EXPIRE}

\* (Mutant: more HELLOs than expected count.)
RevLinkQualityAll(H) == Cardinality(H)

\* A multiset of times, but one neighbour sends no two HELLOs at once.
RevLinkQuality(H) == Least(Cardinality(H), LQE_MA_EXPECTED_HELLO)

\* (Mutant: the vector is made anew for every HELLO.)
HeardOnly ==
  /\ up
  /\ known' = TRUE /\ hellos' = {0} /\ age' = 0 /\ forQuality' = RevLinkQuality(theirs)
  /\ UNCHANGED <<losses, steady>>

\* neighborInsert, of a HELLO in which the neighbour announces its count.
Heard ==
  /\ up
  /\ known' = TRUE
  /\ hellos' = (IF known THEN PurgeHello(hellos) ELSE {}) \cup {0}
  /\ age' = 0
  /\ forQuality' = RevLinkQuality(theirs)
  /\ UNCHANGED <<losses, steady>>

\* A HELLO that is not heard, of a node in range or of one that is gone.
Missed ==
  /\ IF up THEN losses < MaxLosses /\ losses' = losses + 1 ELSE UNCHANGED losses
  /\ steady' = 0

Hello ==
  /\ nextHello = 0
  /\ nextHello' \in Intervals
  /\ Heard \/ (Missed /\ UNCHANGED <<known, hellos, age, forQuality>>)
  /\ UNCHANGED <<used, nextCall, there, up>>

\* The same at the neighbour.
OurHello ==
  /\ ourHello = 0
  /\ ourHello' \in Intervals
  /\ \/ up /\ theirs' = PurgeHello(theirs) \cup {0} /\ UNCHANGED <<losses, steady>>
     \/ Missed /\ UNCHANGED theirs
  /\ UNCHANGED <<here, theirCall, up>>

\* (Mutants: "<" for "<="; a neighbour without HELLOs is kept.)
ExpiredLate == age > NDP_NEIGHBOR_EXPIRE

ExpiredNever == FALSE

Expired == age >= NDP_NEIGHBOR_EXPIRE

(***************************************************************************)
(* ASPUTimer: neighborPurge, and then linkQuality as validateAddress and   *)
(* updateRoutingTable read it.                                             *)
(***************************************************************************)
Call ==
  /\ nextCall = 0
  /\ nextCall' \in Intervals
  /\ known' = (known /\ ~Expired)
  /\ hellos' = IF known' THEN PurgeHello(hellos) ELSE {}
  /\ used' = (known' /\ RevLinkQuality(hellos') * forQuality >= LQE_THRESHOLD)
  /\ UNCHANGED <<age, forQuality, nextHello, there, up, losses, steady>>

\* The neighbour's ASPUTimer; it deletes an entry as its last HELLO expires.
TheirCall ==
  /\ theirCall = 0
  /\ theirCall' \in Intervals
  /\ theirs' = PurgeHello(theirs)
  /\ UNCHANGED <<here, ourHello, up, losses, steady>>

\* The clock of the scheduler goes on to the next event.
Tick ==
  LET d == Least(Least(nextHello, nextCall), Least(ourHello, theirCall))
  IN /\ d > 0
     /\ nextHello' = nextHello - d /\ nextCall' = nextCall - d
     /\ ourHello' = ourHello - d /\ theirCall' = theirCall - d
     /\ hellos' = {h + d : h \in hellos} /\ theirs' = {h + d : h \in theirs}
     /\ age' = Least(age + d, Limit)
     /\ steady' = IF known /\ theirs # {} THEN Least(steady + d, Limit) ELSE 0
     /\ UNCHANGED <<known, forQuality, used, up, losses>>

\* The neighbour leaves, for good; a HELLO will tell.
Cut ==
  /\ up /\ nextHello = 0
  /\ up' = FALSE
  /\ UNCHANGED <<here, there, losses, steady>>

Next == Hello \/ OurHello \/ Call \/ TheirCall \/ Tick \/ Cut

Spec == Init /\ [][Next]_vars
-----------------------------------------------------------------------------
\* The types of the variables; no HELLO is kept much longer than it counts.
TypeOK ==
  /\ known \in BOOLEAN /\ used \in BOOLEAN /\ up \in BOOLEAN
  /\ hellos \subseteq 0 .. Limit /\ theirs \subseteq 0 .. Limit
  /\ age \in 0 .. Limit /\ steady \in 0 .. Limit
  /\ forQuality \in 0 .. LQE_MA_EXPECTED_HELLO
  /\ nextHello \in 0 .. NDP_MAX_HELLO_INTERVAL /\ nextCall \in 0 .. NDP_MAX_HELLO_INTERVAL
  /\ ourHello \in 0 .. NDP_MAX_HELLO_INTERVAL /\ theirCall \in 0 .. NDP_MAX_HELLO_INTERVAL
  /\ losses \in 0 .. MaxLosses

\* A link that loses nothing in either direction is in use once the two nodes
\* have known each other for the time a HELLO counts and two intervals, however
\* the four timers draw: NDP_NEIGHBOR_EXPIRE holds enough of the longest
\* intervals for LQE_THRESHOLD on both sides.  (The counts start at one; one
\* interval passes until the neighbour announces a full one, and another until
\* ASPUTimer looks.)
SteadyLinkIsUsed ==
  steady >= NDP_NEIGHBOR_EXPIRE + 2 * NDP_MAX_HELLO_INTERVAL => used

\* neighborPurge forgets a silent neighbour at the first call after its expiry.
SilenceIsNoticed == known => age <= NDP_NEIGHBOR_EXPIRE + NDP_MAX_HELLO_INTERVAL

\* A silent neighbour stays in the routing table until fewer HELLOs are counted
\* than LQE_THRESHOLD asks for: of those it sent at the shortest interval the
\* sixth last must have aged.  Long before the neighbour expires.
Needed == LQE_THRESHOLD \div LQE_MA_EXPECTED_HELLO

SilentLinkIsLeft ==
  used =>
    age < NDP_NEIGHBOR_EXPIRE - (Needed - 1) * NDP_MIN_HELLO_INTERVAL + NDP_MAX_HELLO_INTERVAL

\* A neighbour that is kept has a HELLO that counts: the two expiries, of the
\* neighbour and of the HELLO heard last, fall together, so the quality of a
\* neighbour in the set is never 0 for want of HELLOs.
KnownIsHeard == known => hellos # {}
=============================================================================
