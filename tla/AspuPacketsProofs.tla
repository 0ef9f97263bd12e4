------------------------- MODULE AspuPacketsProofs -------------------------
(***************************************************************************)
(* Packets have one owner until recvHello or recvDabr lets one come into   *)
(* two hands, for any number of packets, any length of the queue and any   *)
(* messages that nodes send.                                               *)
(***************************************************************************)
EXTENDS AspuPackets, FiniteSetTheorems, SequenceTheorems, TLAPS

(***************************************************************************)
(* Sequences without repetition.                                           *)
(***************************************************************************)
\* One after the other they hold what each of them holds.
LEMMA Joined ==
  ASSUME NEW T, NEW a \in Seq(T), NEW b \in Seq(T), IsInjective(a), IsInjective(b),
         Range(a) \cap Range(b) = {}
  PROVE  /\ a \o b \in Seq(T) /\ IsInjective(a \o b)
         /\ Range(a \o b) = Range(a) \cup Range(b)
<1> DEFINE c == a \o b
<1>1. /\ Len(a) \in Nat /\ DOMAIN a = 1 .. Len(a) /\ Len(b) \in Nat /\ DOMAIN b = 1 .. Len(b)
  OBVIOUS
<1>2. /\ c \in Seq(T) /\ DOMAIN c = 1 .. Len(a) + Len(b)
      /\ \A i \in DOMAIN c : c[i] = IF i <= Len(a) THEN a[i] ELSE b[i - Len(a)]
  OBVIOUS
<1> HIDE DEF c
<1>3. ASSUME NEW i \in DOMAIN c
      PROVE  \/ i \in DOMAIN a /\ c[i] = a[i]
             \/ i - Len(a) \in DOMAIN b /\ c[i] = b[i - Len(a)]
  BY <1>1, <1>2
<1>4. \A i \in DOMAIN a : i \in DOMAIN c /\ c[i] = a[i]
  BY <1>1, <1>2
<1>5. \A i \in DOMAIN b : i + Len(a) \in DOMAIN c /\ c[i + Len(a)] = b[i]
  BY <1>1, <1>2
<1>6. Range(c) = Range(a) \cup Range(b)
  BY <1>3, <1>4, <1>5 DEF Range
<1>7. ASSUME NEW i \in DOMAIN c, NEW j \in DOMAIN c, c[i] = c[j] PROVE i = j
  <2>1. CASE i \in DOMAIN a /\ c[i] = a[i] /\ j \in DOMAIN a /\ c[j] = a[j]
    BY <1>7, <2>1 DEF IsInjective
  <2>2. CASE /\ i - Len(a) \in DOMAIN b /\ c[i] = b[i - Len(a)]
             /\ j - Len(a) \in DOMAIN b /\ c[j] = b[j - Len(a)]
    <3>1. i - Len(a) = j - Len(a)
      BY <1>7, <2>2 DEF IsInjective
    <3> QED BY <1>1, <1>2, <3>1
  <2>3. CASE \/ i \in DOMAIN a /\ c[i] = a[i] /\ j - Len(a) \in DOMAIN b /\ c[j] = b[j - Len(a)]
             \/ j \in DOMAIN a /\ c[j] = a[j] /\ i - Len(a) \in DOMAIN b /\ c[i] = b[i - Len(a)]
    BY <1>7, <2>3 DEF Range
  <2> QED BY <1>3, <2>1, <2>2, <2>3
<1> QED BY <1>2, <1>6, <1>7 DEF IsInjective, c

\* The head of one is not in its tail.
LEMMA Cut ==
  ASSUME NEW T, NEW a \in Seq(T), a # << >>, IsInjective(a)
  PROVE  /\ Tail(a) \in Seq(T) /\ IsInjective(Tail(a))
         /\ Head(a) \in Range(a) /\ Range(Tail(a)) = Range(a) \ {Head(a)}
<1> DEFINE b == Tail(a)
<1>1. /\ Len(a) \in Nat \ {0} /\ DOMAIN a = 1 .. Len(a) /\ Head(a) = a[1]
  OBVIOUS
<1>2. /\ b \in Seq(T) /\ DOMAIN b = 1 .. Len(a) - 1 /\ \A i \in DOMAIN b : b[i] = a[i + 1]
  BY HeadTailProperties
<1> HIDE DEF b
<1>3. \A i \in DOMAIN b : i + 1 \in DOMAIN a /\ i + 1 # 1
  BY <1>1, <1>2
<1>4. \A i \in DOMAIN a : i = 1 \/ (i - 1 \in DOMAIN b /\ b[i - 1] = a[i])
  BY <1>1, <1>2
<1>5. 1 \in DOMAIN a
  BY <1>1
<1>6. IsInjective(b)
  <2> SUFFICES ASSUME NEW i \in DOMAIN b, NEW j \in DOMAIN b, b[i] = b[j] PROVE i = j
    BY DEF IsInjective
  <2>1. i + 1 = j + 1
    BY <1>2, <1>3 DEF IsInjective
  <2> QED BY <1>1, <1>2, <2>1
<1>7. Range(b) = Range(a) \ {Head(a)}
  <2>1. ASSUME NEW i \in DOMAIN b PROVE b[i] \in Range(a) \ {Head(a)}
    BY <1>1, <1>2, <1>3, <1>5 DEF Range, IsInjective
  <2>2. ASSUME NEW i \in DOMAIN a, a[i] # Head(a) PROVE a[i] \in Range(b)
    <3>1. i - 1 \in DOMAIN b /\ b[i - 1] = a[i]
      BY <1>1, <1>4, <2>2
    <3> QED BY <3>1 DEF Range
  <2> QED BY <2>1, <2>2 DEF Range
<1>8. Head(a) \in Range(a)
  BY <1>1, <1>5 DEF Range
<1> QED BY <1>2, <1>6, <1>7, <1>8 DEF b

\* One element.
LEMMA Single ==
  ASSUME NEW T, NEW p \in T
  PROVE  << p >> \in Seq(T) /\ IsInjective(<< p >>) /\ Range(<< p >>) = {p}
BY DEF IsInjective, Range

\* An order of the elements of a set.
LEMMA Orders ==
  ASSUME NEW R, IsFiniteSet(R), NEW order \in SetToSeqs(R)
  PROVE  order \in Seq(R) /\ IsInjective(order) /\ Range(order) = R
<1> DEFINE n == Cardinality(R)
<1>1. n \in Nat
  BY FS_CardinalityType
<1>2. order \in [1 .. n -> R] /\ \A i, j \in 1 .. n : i # j => order[i] # order[j]
  BY DEF SetToSeqs
<1>3. IsFiniteSet(1 .. n) /\ Cardinality(1 .. n) = n
  BY <1>1, FS_Interval
<1> HIDE DEF n
<1>4. IsInjective(order)
  BY <1>2 DEF IsInjective
<1>5. order \in Injection(1 .. n, R)
  BY <1>2, <1>4 DEF Injection
<1>6. order \in Surjection(1 .. n, R)
  BY <1>3, <1>5, FS_Injection DEF n
<1>7. Range(order) = R
  BY <1>2, <1>6 DEF Surjection, Range
<1>8. order \in Seq(R)
  BY <1>1, <1>2
<1> QED BY <1>4, <1>7, <1>8

\* A flag that is set or cleared.
LEMMA FlagPut ==
  ASSUME NEW f \in [Packets -> BOOLEAN], NEW p \in Packets, NEW b \in BOOLEAN
  PROVE  /\ [f EXCEPT ![p] = b] \in [Packets -> BOOLEAN]
         /\ \A q \in Packets : [f EXCEPT ![p] = b][q] = (IF q = p THEN b ELSE f[q])
OBVIOUS

(***************************************************************************)
(* How the packets are shared out while a handler runs.                    *)
(***************************************************************************)
Messages == {"DATA", "ARP", "HELLO", "DARQ", "DARP", "DAUP", "DABR"}

Signs == {-1, 0, 1}

Lists(h) ==
  /\ h.free \in Seq(Packets) /\ IsInjective(h.free)
  /\ h.now \in Seq(Packets) /\ IsInjective(h.now)

Events(h) == DOMAIN h.later \subseteq Packets /\ h.later = [p \in DOMAIN h.later |-> 1]

Flags(h) ==
  /\ h.fflag \in [Packets -> BOOLEAN] /\ h.uid \in [Packets -> Signs]
  /\ h.kind \in [Packets -> Messages]

Fields == {"made", "free", "fflag", "uid", "kind", "handler", "now", "later", "queue", "held",
           "fault", "reused", "shared"}

Parts(h) ==
  /\ DOMAIN h = Fields
  /\ h.made \in 0 .. MaxPackets /\ h.queue \subseteq Packets /\ h.held \subseteq Places \X Packets
  /\ h.fault = "" /\ h.shared = FALSE
  /\ Lists(h) /\ Events(h) /\ Flags(h)

InEvents(h, p) == p \in Range(h.now) \/ p \in DOMAIN h.later

IsHeld(h, p) == \E w \in Places : << w, p >> \in h.held

\* Of one packet: it is free, in the event list once, in the queue, in one
\* place of an interface, or in the hand.  One that is free and elsewhere too
\* was scheduled after it was freed.
Owned(h, hand, p) ==
  /\ p \in Range(h.free) <=> p <= h.made /\ ~h.fflag[p]
  /\ h.fflag[p] => p <= h.made
  /\ InEvents(h, p) <=> h.uid[p] > 0
  /\ ~(p \in Range(h.now) /\ p \in DOMAIN h.later)
  /\ \A v, w \in Places : << v, p >> \in h.held /\ << w, p >> \in h.held => v = w
  /\ InEvents(h, p) => p \notin h.queue /\ ~IsHeld(h, p) /\ p \notin hand
  /\ p \in h.queue => ~IsHeld(h, p) /\ p \notin hand
  /\ IsHeld(h, p) => p \notin hand
  /\ h.fflag[p] => InEvents(h, p) \/ p \in h.queue \/ IsHeld(h, p) \/ p \in hand
  /\ ~h.fflag[p] => /\ h.kind[p] = "DATA" /\ p \notin h.queue
                    /\ InEvents(h, p) \/ IsHeld(h, p) \/ p \in hand => p \in h.reused

\* The packets in hand are those a handler has to see to.
Apart(h, hand) == Parts(h) /\ hand \subseteq Packets /\ \A p \in Packets : Owned(h, hand, p)

\* A state of a handler: the packets are apart, or one has come into two hands
\* when some of R had been scheduled after they were freed.
Good(h, hand, R) ==
  /\ DOMAIN h = Fields /\ h.reused \subseteq R
  /\ (h.shared = TRUE /\ R # {}) \/ Apart(h, hand)

\* What every operation leaves of that.
Keeps(h, g) ==
  /\ DOMAIN g = Fields /\ g.reused \subseteq h.reused
  /\ h.shared = TRUE => g.shared = TRUE

\* The flags of a packet, and whose it is.
LEMMA Flagged ==
  ASSUME NEW h, NEW hand, Apart(h, hand), NEW p \in Packets
  PROVE  /\ Owned(h, hand, p) /\ h.uid[p] \in Signs /\ h.fflag[p] \in BOOLEAN
         /\ h.kind[p] \in Messages
<1>1. Flags(h) /\ Owned(h, hand, p)
  BY DEF Apart, Parts
<1> QED BY <1>1 DEF Flags

\* The members of a sequence of packets are packets.
LEMMA Members ==
  ASSUME NEW a \in Seq(Packets), NEW p \in Range(a)
  PROVE  p \in Packets
BY DEF Range

\* A packet in hand is in no list but, when it was freed, the free list.
LEMMA InHand ==
  ASSUME NEW h, NEW hand, Apart(h, hand), NEW p \in hand
  PROVE  /\ p \in Packets /\ ~(h.uid[p] > 0) /\ ~InEvents(h, p) /\ p \notin h.queue /\ ~IsHeld(h, p)
         /\ h.fflag[p] => p \notin Range(h.free)
         /\ ~h.fflag[p] => p \in h.reused
<1>1. p \in Packets
  BY DEF Apart
<1>2. Owned(h, hand, p)
  BY <1>1, Flagged
<1> QED BY <1>1, <1>2 DEF Owned

(***************************************************************************)
(* Packet and Scheduler.                                                   *)
(***************************************************************************)
\* Packet::free of packets in hand whose flag is set.
LEMMA FreeAllGood ==
  ASSUME NEW h, NEW hand, NEW R, Good(h, hand, R), NEW order \in Seq(Packets), IsInjective(order),
         Range(order) \subseteq hand, h.shared = TRUE \/ \A p \in Range(order) : h.fflag[p]
  PROVE  Good(FreeAll(h, order), hand \ Range(order), R)
<1> DEFINE P == Range(order)
           g == FreeAll(h, order)
<1>1. Keeps(h, g)
  BY DEF FreeAll, Keeps, Good, Fields
<1>2. ASSUME Apart(h, hand) PROVE Apart(g, hand \ P)
  <2>0. Parts(h) /\ hand \subseteq Packets
    BY <1>2 DEF Apart
  <2>1. \A p \in P : p \in Packets /\ ~(h.uid[p] > 0) /\ h.fflag[p] /\ p \notin Range(h.free)
    BY <1>2, <2>0, InHand DEF Parts
  <2> HIDE DEF P
  <2>2. /\ DOMAIN g = Fields /\ g.made = h.made /\ g.free = order \o h.free
        /\ g.fflag = [p \in Packets |-> h.fflag[p] /\ p \notin P]
        /\ g.uid = h.uid /\ g.kind = [p \in Packets |-> IF p \in P THEN "DATA" ELSE h.kind[p]]
        /\ g.now = h.now /\ g.later = h.later /\ g.queue = h.queue /\ g.held = h.held
        /\ g.fault = h.fault /\ g.reused = h.reused /\ g.shared = h.shared
    BY <2>0, <2>1 DEF FreeAll, Parts, Fields, P
  <2> HIDE DEF g
  <2>3. g.free \in Seq(Packets) /\ IsInjective(g.free) /\ Range(g.free) = Range(h.free) \cup P
    <3>1. h.free \in Seq(Packets) /\ IsInjective(h.free) /\ Range(order) \cap Range(h.free) = {}
      BY <2>0, <2>1 DEF Parts, Lists, P
    <3>2. g.free = order \o h.free
      BY <2>2
    <3> QED BY <3>1, <3>2, Joined DEF P
  <2>4. Parts(g)
    <3>1. g.fflag \in [Packets -> BOOLEAN]
      BY <2>2, ZenonT(30)
    <3>2. g.kind \in [Packets -> Messages]
      <4>1. h.kind \in [Packets -> Messages] /\ "DATA" \in Messages
        BY <2>0 DEF Parts, Flags, Messages
      <4> QED BY <2>2, <4>1
    <3> QED BY <2>0, <2>2, <2>3, <3>1, <3>2 DEF Parts, Lists, Events, Flags
  <2>5. ASSUME NEW p \in Packets PROVE Owned(g, hand \ P, p)
    <3>1. (g.fflag[p] <=> h.fflag[p] /\ p \notin P) /\ (p \in P => g.kind[p] = "DATA")
      BY <2>2
    <3>2. p \notin P => g.kind[p] = h.kind[p]
      BY <2>2
    <3>3. Owned(h, hand, p) /\ (p \in P => p \in hand)
      BY <1>2, Flagged DEF P
    <3>4. (InEvents(g, p) <=> InEvents(h, p)) /\ (IsHeld(g, p) <=> IsHeld(h, p))
      BY <2>2 DEF InEvents, IsHeld
    <3>5. p \in P => h.fflag[p] /\ p \notin Range(h.free)
      BY <2>1
    <3> QED BY <2>2, <2>3, <3>1, <3>2, <3>3, <3>4, <3>5, SMTT(30) DEF Owned
  <2> QED BY <2>0, <2>4, <2>5 DEF Apart
<1> QED BY <1>1, <1>2 DEF Good, Keeps

\* Packet::free of a packet in hand.
LEMMA FreeGood ==
  ASSUME NEW h, NEW hand, NEW R, Good(h, hand, R), NEW p \in hand
  PROVE  Good(Free(h, p), hand \ {p}, R)
<1>1. CASE h.shared = TRUE
  <2>1. Keeps(h, Free(h, p)) /\ R # {}
    <3>1. R # {}
      BY <1>1 DEF Good, Apart, Parts
    <3> QED BY <3>1 DEF FreeAll, Free, Keeps, Good, Fields
  <2> QED BY <1>1, <2>1 DEF Good, Keeps
<1>2. CASE Apart(h, hand)
  <2>1. p \in Packets /\ h.fflag[p] \in BOOLEAN
    BY <1>2, InHand, Flagged
  <2>2. CASE h.fflag[p] = TRUE
    <3> DEFINE one == << p >>
    <3>1. one \in Seq(Packets) /\ IsInjective(one) /\ Range(one) = {p}
      BY <2>1, Single
    <3>2. Free(h, p) = FreeAll(h, one)
      BY <2>2 DEF Free
    <3> HIDE DEF one
    <3>3. Good(FreeAll(h, one), hand \ Range(one), R)
      BY <2>2, <3>1, FreeAllGood
    <3> QED BY <3>1, <3>2, <3>3
  <2>3. CASE h.fflag[p] = FALSE
    <3>1. Free(h, p) = h
      BY <2>3 DEF Free
    <3>2. ASSUME NEW q \in Packets PROVE Owned(h, hand \ {p}, q)
      <4>1. Owned(h, hand, q)
        BY <1>2, Flagged
      <4> QED BY <2>3, <4>1 DEF Owned
    <3> QED BY <1>2, <3>1, <3>2 DEF Good, Apart
  <2> QED BY <2>1, <2>2, <2>3
<1> QED BY <1>1, <1>2 DEF Good

\* Scheduler::schedule of packets in hand.
LEMMA ScheduleAllGood ==
  ASSUME NEW h, NEW hand, NEW R, Good(h, hand, R),
         NEW order \in Seq(Packets), IsInjective(order), Range(order) \subseteq hand
  PROVE  Good(ScheduleAll(h, order), hand \ Range(order), R)
<1> DEFINE P == Range(order)
           m == Marked(h, P, "target")
           g == ScheduleAll(h, order)
<1>1. Keeps(h, g)
  BY DEF ScheduleAll, Marked, Keeps, Good, Fields
<1>2. ASSUME Apart(h, hand) PROVE Apart(g, hand \ P)
  <2>0. Parts(h) /\ hand \subseteq Packets
    BY <1>2 DEF Apart
  <2>1. \A p \in P : p \in Packets /\ ~(h.uid[p] > 0) /\ p \notin Range(h.now)
    BY <1>2, InHand DEF InEvents
  <2> HIDE DEF P
  <2>2. /\ DOMAIN m = Fields /\ m.made = h.made /\ m.free = h.free /\ m.fflag = h.fflag
        /\ m.uid = [p \in Packets |-> IF p \in P THEN 1 ELSE h.uid[p]] /\ m.kind = h.kind
        /\ m.now = h.now /\ m.later = h.later /\ m.queue = h.queue /\ m.held = h.held
        /\ m.fault = h.fault /\ m.reused = h.reused /\ m.shared = h.shared
    BY <2>0, <2>1 DEF Marked, Parts, Fields
  <2> HIDE DEF m
  <2>3. /\ DOMAIN g = Fields /\ g.made = h.made /\ g.free = h.free /\ g.fflag = h.fflag
        /\ g.uid = m.uid /\ g.kind = h.kind
        /\ g.now = h.now \o order /\ g.later = h.later /\ g.queue = h.queue /\ g.held = h.held
        /\ g.fault = h.fault /\ g.reused = h.reused /\ g.shared = h.shared
    BY <2>2 DEF ScheduleAll, Fields, P, m
  <2> HIDE DEF g
  <2>4. /\ g.now \in Seq(Packets) /\ IsInjective(g.now) /\ Range(g.now) = Range(h.now) \cup P
    <3>1. h.now \in Seq(Packets) /\ IsInjective(h.now) /\ Range(h.now) \cap Range(order) = {}
      BY <2>0, <2>1 DEF Parts, Lists, P
    <3>2. g.now = h.now \o order
      BY <2>3
    <3> QED BY <3>1, <3>2, Joined DEF P
  <2>5. Parts(g)
    <3>1. g.uid \in [Packets -> Signs]
      <4>1. h.uid \in [Packets -> Signs] /\ 1 \in Signs
        BY <2>0 DEF Parts, Flags, Signs
      <4> QED BY <2>2, <2>3, <4>1
    <3> QED BY <2>0, <2>3, <2>4, <3>1 DEF Parts, Lists, Events, Flags
  <2>6. ASSUME NEW p \in Packets PROVE Owned(g, hand \ P, p)
    <3>1. g.uid[p] = IF p \in P THEN 1 ELSE h.uid[p]
      BY <2>2, <2>3
    <3>2. Owned(h, hand, p) /\ (p \in P => p \in hand)
      BY <1>2, Flagged DEF P
    <3>3. (InEvents(g, p) <=> InEvents(h, p) \/ p \in P) /\ (IsHeld(g, p) <=> IsHeld(h, p))
      BY <2>3, <2>4 DEF InEvents, IsHeld
    <3>4. p \in P => p \notin DOMAIN h.later
      BY <3>2 DEF Owned, InEvents
    <3> QED BY <2>1, <2>3, <2>4, <3>1, <3>2, <3>3, <3>4, SMTT(30) DEF Owned
  <2> QED BY <2>0, <2>5, <2>6 DEF Apart
<1> QED BY <1>1, <1>2 DEF Good, Keeps

\* The same of one packet.
LEMMA ScheduleGood ==
  ASSUME NEW h, NEW hand, NEW R, Good(h, hand, R), NEW p \in hand
  PROVE  Good(Schedule(h, p), hand \ {p}, R)
<1>1. CASE h.shared = TRUE
  <2>1. R # {}
    BY <1>1 DEF Good, Apart, Parts
  <2>2. Keeps(h, Schedule(h, p))
    BY DEF Schedule, ScheduleAll, Marked, Keeps, Good, Fields
  <2> QED BY <1>1, <2>1, <2>2 DEF Good, Keeps
<1>2. CASE Apart(h, hand)
  <2>1. p \in Packets
    BY <1>2 DEF Apart
  <2> QED BY <2>1, Single, ScheduleAllGood DEF Schedule
<1> QED BY <1>1, <1>2 DEF Good

\* An interface schedules its own event.
LEMMA ScheduleLaterGood ==
  ASSUME NEW h, NEW hand, NEW R, Good(h, hand, R), NEW p \in hand, NEW to
  PROVE  Good(ScheduleLater(h, p, to), hand \ {p}, R)
<1> DEFINE m == Marked(h, {p}, to)
           g == ScheduleLater(h, p, to)
<1>1. Keeps(h, g)
  BY DEF ScheduleLater, Marked, Keeps, Good, Fields
<1>2. ASSUME Apart(h, hand) PROVE Apart(g, hand \ {p})
  <2>0. Parts(h) /\ hand \subseteq Packets
    BY <1>2 DEF Apart
  <2>1. /\ p \in Packets /\ ~(h.uid[p] > 0) /\ p \notin Range(h.now) /\ p \notin DOMAIN h.later
    BY <1>2, InHand DEF InEvents
  <2>2. /\ DOMAIN m = Fields /\ m.made = h.made /\ m.free = h.free /\ m.fflag = h.fflag
        /\ m.uid = [q \in Packets |-> IF q \in {p} THEN 1 ELSE h.uid[q]] /\ m.kind = h.kind
        /\ m.now = h.now /\ m.later = h.later /\ m.queue = h.queue /\ m.held = h.held
        /\ m.fault = h.fault /\ m.reused = h.reused /\ m.shared = h.shared
    BY <2>0, <2>1 DEF Marked, Parts, Fields
  <2> HIDE DEF m
  <2>3. /\ DOMAIN g = Fields /\ g.made = h.made /\ g.free = h.free /\ g.fflag = h.fflag
        /\ g.uid = m.uid /\ g.kind = h.kind
        /\ g.now = h.now /\ g.later = h.later (+) SetToBag({p}) /\ g.queue = h.queue
        /\ g.held = h.held
        /\ g.fault = h.fault /\ g.reused = h.reused /\ g.shared = h.shared
    BY <2>2 DEF ScheduleLater, Fields, m
  <2> HIDE DEF g
  <2>4. DOMAIN g.later = DOMAIN h.later \cup {p} /\ g.later = [q \in DOMAIN g.later |-> 1]
    <3>1. h.later = [q \in DOMAIN h.later |-> 1]
      BY <2>0 DEF Parts, Events
    <3> QED BY <2>1, <2>3, <3>1 DEF (+), SetToBag
  <2>5. Parts(g)
    <3>1. g.uid \in [Packets -> Signs]
      <4>1. h.uid \in [Packets -> Signs] /\ 1 \in Signs
        BY <2>0 DEF Parts, Flags, Signs
      <4> QED BY <2>2, <2>3, <4>1
    <3> QED BY <2>0, <2>1, <2>3, <2>4, <3>1 DEF Parts, Lists, Events, Flags
  <2>6. ASSUME NEW q \in Packets PROVE Owned(g, hand \ {p}, q)
    <3>1. g.uid[q] = IF q = p THEN 1 ELSE h.uid[q]
      BY <2>2, <2>3
    <3>2. Owned(h, hand, q)
      BY <1>2, Flagged
    <3>3. (InEvents(g, q) <=> InEvents(h, q) \/ q = p) /\ (IsHeld(g, q) <=> IsHeld(h, q))
      BY <2>3, <2>4 DEF InEvents, IsHeld
    <3> QED BY <2>1, <2>3, <2>4, <3>1, <3>2, <3>3, SMTT(30) DEF Owned
  <2> QED BY <2>0, <2>5, <2>6 DEF Apart
<1> QED BY <1>1, <1>2 DEF Good, Keeps

\* A packet that is not free.
Live(h, p) == h.fflag[p] = TRUE

\* Packet::alloc: the packet is nobody's, or it had been scheduled after it was
\* freed and is shared now.
LEMMA AllocGood ==
  ASSUME NEW h, NEW hand, NEW R, Good(h, hand, R), CanAlloc(h), NEW k,
         h.shared = TRUE \/ (k \in Messages /\ \A p \in hand : h.fflag[p])
  PROVE  /\ Good(Alloc(h, k), hand \cup {Fresh(h)}, R)
         /\ \/ Alloc(h, k).shared = TRUE
            \/ /\ Fresh(h) \in Packets /\ Fresh(h) \notin hand
               /\ Live(Alloc(h, k), Fresh(h))
<1> DEFINE g == Alloc(h, k)
           p == Fresh(h)
<1>1. Keeps(h, g)
  BY DEF Alloc, Keeps, Good, Fields
<1>2. CASE h.shared = TRUE
  <2>1. R # {}
    BY <1>2 DEF Good, Apart, Parts
  <2> QED BY <1>1, <1>2, <2>1 DEF Good, Keeps
<1>3. CASE Apart(h, hand) /\ h.shared = FALSE
  <2>0. Parts(h) /\ hand \subseteq Packets /\ MaxPackets \in Nat /\ h.made \in 0 .. MaxPackets
    BY <1>3, PacketsAssumption DEF Apart, Parts
  <2>1. /\ p \in Packets /\ ~h.fflag[p]
        /\ h.free # << >> => p <= h.made /\ p \in Range(h.free)
        /\ h.free = << >> => p = h.made + 1
    <3>1. CASE h.free # << >>
      <4>0. h.free \in Seq(Packets) /\ IsInjective(h.free)
        BY <2>0 DEF Parts, Lists
      <4>1. p = Head(h.free) /\ p \in Range(h.free)
        BY <3>1, <4>0, Cut DEF Fresh
      <4>2. p \in Packets
        BY <4>0, <4>1, Members
      <4>3. Owned(h, hand, p)
        BY <1>3, <4>2, Flagged
      <4> QED BY <3>1, <4>1, <4>2, <4>3 DEF Owned
    <3>2. CASE h.free = << >>
      <4>1. p = h.made + 1 /\ h.made < MaxPackets
        BY <3>2 DEF Fresh, CanAlloc
      <4>2. p \in Packets /\ ~(p <= h.made)
        BY <2>0, <4>1 DEF Packets
      <4>3. Owned(h, hand, p)
        BY <1>3, <4>2, Flagged
      <4> QED BY <3>2, <4>1, <4>2, <4>3 DEF Owned
    <3> QED BY <3>1, <3>2
  <2>2. p \notin hand /\ Owned(h, hand, p)
    BY <1>3, <2>1, Flagged
  <2>3. CASE Busy(h, p)
    <3>1. p \in h.reused
      BY <2>1, <2>2, <2>3 DEF Busy, Owned, IsHeld
    <3>2. g.shared = TRUE
      BY <1>3, <2>0, <2>3 DEF Alloc, Parts, Fields
    <3> QED BY <1>1, <3>1, <3>2 DEF Good, Keeps
  <2>4. CASE ~Busy(h, p)
    <3>1. ~(h.uid[p] > 0) /\ p \notin h.queue /\ ~IsHeld(h, p) /\ ~InEvents(h, p)
      BY <2>2, <2>4 DEF Busy, IsHeld, Owned
    <3>2. /\ DOMAIN g = Fields
          /\ g.made = (IF h.free # << >> THEN h.made ELSE p)
          /\ g.free = (IF h.free # << >> THEN Tail(h.free) ELSE h.free)
          /\ g.fflag = [h.fflag EXCEPT ![p] = TRUE] /\ g.uid = [h.uid EXCEPT ![p] = 0]
          /\ g.kind = [h.kind EXCEPT ![p] = k] /\ g.now = h.now /\ g.later = h.later
          /\ g.queue = h.queue /\ g.held = h.held /\ g.fault = h.fault
          /\ g.reused = h.reused \ {p} /\ g.shared = FALSE
      BY <1>3, <2>0, <2>4 DEF Alloc, Parts, Fields
    <3> HIDE DEF g
    <3>3. g.free \in Seq(Packets) /\ IsInjective(g.free) /\ Range(g.free) = Range(h.free) \ {p}
      <4>1. CASE h.free # << >>
        <5>1. p = Head(h.free)
          BY <4>1 DEF Fresh
        <5>2. h.free \in Seq(Packets) /\ IsInjective(h.free) /\ g.free = Tail(h.free)
          BY <2>0, <3>2, <4>1 DEF Parts, Lists
        <5> QED BY <4>1, <5>1, <5>2, Cut
      <4>2. CASE h.free = << >>
        <5>1. Range(h.free) = {}
          BY <4>2 DEF Range
        <5> QED BY <2>0, <3>2, <4>2, <5>1 DEF Parts, Lists
      <4> QED BY <4>1, <4>2
    <3> HIDE DEF p
    <3>4. g.made \in 0 .. MaxPackets /\ p <= g.made /\ \A q \in Packets \ {p} : q <= g.made <=> q <= h.made
      BY <2>0, <2>1, <3>2 DEF Packets
    <3>5. /\ g.fflag \in [Packets -> BOOLEAN] /\ g.uid \in [Packets -> Signs]
          /\ g.kind \in [Packets -> Messages]
      <4>1. /\ h.fflag \in [Packets -> BOOLEAN] /\ h.uid \in [Packets -> Signs] /\ 0 \in Signs
            /\ h.kind \in [Packets -> Messages] /\ k \in Messages
        BY <1>3, <2>0 DEF Parts, Flags, Signs
      <4>2. g.fflag \in [Packets -> BOOLEAN]
        BY <2>1, <3>2, <4>1, FlagPut
      <4> QED BY <3>2, <4>1, <4>2
    <3>6. Parts(g)
      BY <2>0, <3>2, <3>3, <3>4, <3>5 DEF Parts, Lists, Events, Flags
    <3>7. ASSUME NEW q \in Packets
          PROVE  /\ g.fflag[q] = (IF q = p THEN TRUE ELSE h.fflag[q])
                 /\ g.uid[q] = (IF q = p THEN 0 ELSE h.uid[q])
                 /\ q # p => g.kind[q] = h.kind[q]
      <4>1. /\ h.fflag \in [Packets -> BOOLEAN] /\ h.uid \in [Packets -> Signs]
            /\ h.kind \in [Packets -> Messages]
        BY <2>0 DEF Parts, Flags
      <4>2. g.fflag[q] = (IF q = p THEN TRUE ELSE h.fflag[q])
        <5>1. [h.fflag EXCEPT ![p] = TRUE][q] = (IF q = p THEN TRUE ELSE h.fflag[q])
          BY <2>1, <4>1, FlagPut
        <5> QED BY <3>2, <5>1
      <4> QED BY <2>1, <3>2, <4>1, <4>2
    <3>8. ASSUME NEW q \in Packets PROVE Owned(g, hand \cup {p}, q)
      <4>1. Owned(h, hand, q) /\ h.fflag[q] \in BOOLEAN
        BY <1>3, Flagged
      <4>2. (InEvents(g, q) <=> InEvents(h, q)) /\ (IsHeld(g, q) <=> IsHeld(h, q))
        BY <3>2 DEF InEvents, IsHeld
      <4>3. CASE q = p
        <5>1. /\ g.fflag[q] = TRUE /\ g.uid[q] = 0 /\ q \notin Range(g.free) /\ q <= g.made
              /\ ~InEvents(g, q) /\ q \notin g.queue /\ ~IsHeld(g, q)
          BY <3>1, <3>2, <3>3, <3>4, <3>7, <4>2, <4>3
        <5> QED BY <4>3, <5>1, SMTT(30) DEF Owned, IsHeld, InEvents
      <4>4. CASE q # p
        BY <3>2, <3>3, <3>4, <3>7, <4>1, <4>2, <4>4, SMTT(30) DEF Owned
      <4> QED BY <4>3, <4>4
    <3>9. Apart(g, hand \cup {p})
      BY <2>0, <2>1, <3>6, <3>8 DEF Apart
    <3>10. Live(g, p)
      BY <2>1, <3>7 DEF Live
    <3> QED BY <1>1, <2>1, <2>2, <3>9, <3>10 DEF Good, Keeps, g, p
  <2> QED BY <2>3, <2>4
<1>4. Apart(h, hand) => h.shared = FALSE
  BY DEF Apart, Parts
<1> QED BY <1>2, <1>3, <1>4 DEF Good

\* The same with no packet in hand.
LEMMA AllocAlone ==
  ASSUME NEW h, NEW R, Good(h, {}, R), CanAlloc(h), NEW k, h.shared = TRUE \/ k \in Messages
  PROVE  Good(Alloc(h, k), {Fresh(h)}, R) /\ (Alloc(h, k).shared = TRUE \/ Live(Alloc(h, k), Fresh(h)))
<1>1. PICK hand : hand = {}
  OBVIOUS
<1>2. Good(h, hand, R) /\ (h.shared = TRUE \/ (k \in Messages /\ \A p \in hand : h.fflag[p]))
  BY <1>1
<1>3. /\ Good(Alloc(h, k), hand \cup {Fresh(h)}, R)
      /\ Alloc(h, k).shared = TRUE \/ Live(Alloc(h, k), Fresh(h))
  BY <1>2, AllocGood
<1>4. hand \cup {Fresh(h)} = {Fresh(h)}
  BY <1>1
<1> QED BY <1>3, <1>4

\* Scheduler::dispatch of an event that is due.
LEMMA DispatchGood ==
  ASSUME NEW h, NEW R, Good(h, {}, R), NEW p \in Due(h)
  PROVE  Good(Dispatch(h, p), {p}, R)
<1> DEFINE g == Dispatch(h, p)
           first == h.now # << >> /\ p = Head(h.now)
<1>1. Keeps(h, g)
  BY DEF Dispatch, Keeps, Good, Fields
<1>2. ASSUME Apart(h, {}) PROVE Apart(g, {p})
  <2>0. Parts(h) /\ h.now \in Seq(Packets) /\ IsInjective(h.now)
    BY <1>2 DEF Apart, Parts, Lists
  <2>1. CASE first
    <3>1. p \in Range(h.now) /\ p \in Packets
      BY <2>0, <2>1, Cut, Members
    <3>2. Owned(h, {}, p)
      BY <1>2, <3>1, Flagged
    <3>3. p \notin DOMAIN h.later /\ h.uid[p] > 0
      BY <3>1, <3>2 DEF Owned, InEvents
    <3>4. g = [h EXCEPT !.now = Tail(h.now), !.uid = [h.uid EXCEPT ![p] = -h.uid[p]]]
      BY <2>0, <2>1 DEF Dispatch, Parts, Fields
    <3> QED
      <4>1. /\ DOMAIN g = Fields /\ g.made = h.made /\ g.free = h.free /\ g.fflag = h.fflag
            /\ g.uid = [h.uid EXCEPT ![p] = -h.uid[p]] /\ g.kind = h.kind
            /\ g.now = Tail(h.now) /\ g.later = h.later /\ g.queue = h.queue /\ g.held = h.held
            /\ g.fault = h.fault /\ g.reused = h.reused /\ g.shared = h.shared
        BY <2>0, <3>4 DEF Parts, Fields
      <4> HIDE DEF g
      <4>2. /\ g.now \in Seq(Packets) /\ IsInjective(g.now) /\ Range(g.now) = Range(h.now) \ {p}
        BY <2>0, <2>1, <4>1, Cut
      <4>3. h.uid \in [Packets -> Signs] /\ h.uid[p] = 1 /\ -1 \in Signs
        <5>1. h.uid \in [Packets -> Signs] /\ -1 \in Signs
          BY <2>0 DEF Parts, Flags, Signs
        <5>2. h.uid[p] \in Signs
          BY <3>1, <5>1
        <5> QED BY <3>3, <5>1, <5>2 DEF Signs
      <4>4. g.uid = [h.uid EXCEPT ![p] = -1]
        BY <4>1, <4>3
      <4>5. Parts(g)
        <5>1. g.uid \in [Packets -> Signs]
          BY <3>1, <4>3, <4>4
        <5> QED BY <2>0, <4>1, <4>2, <5>1 DEF Parts, Lists, Events, Flags
      <4>6. ASSUME NEW q \in Packets PROVE Owned(g, {p}, q)
        <5>1. g.uid[q] = IF q = p THEN -1 ELSE h.uid[q]
          BY <3>1, <4>3, <4>4
        <5>2. Owned(h, {}, q)
          BY <1>2, Flagged
        <5>3. (InEvents(g, q) <=> InEvents(h, q) /\ q # p) /\ (IsHeld(g, q) <=> IsHeld(h, q))
          BY <3>3, <4>1, <4>2 DEF InEvents, IsHeld
        <5> QED BY <3>1, <4>1, <4>2, <5>1, <5>2, <5>3, SMTT(30) DEF Owned, InEvents
      <4> QED BY <3>1, <4>5, <4>6 DEF Apart
  <2>2. CASE ~first
    <3>1. p \in DOMAIN h.later /\ p \in Packets
      BY <2>0, <2>2 DEF Due, BagToSet, Parts, Events
    <3>2. Owned(h, {}, p)
      BY <1>2, <3>1, Flagged
    <3>3. p \notin Range(h.now) /\ h.uid[p] > 0
      BY <3>1, <3>2 DEF Owned, InEvents
    <3>4. /\ DOMAIN g = Fields /\ g.made = h.made /\ g.free = h.free /\ g.fflag = h.fflag
          /\ g.uid = [h.uid EXCEPT ![p] = -h.uid[p]] /\ g.kind = h.kind
          /\ g.now = h.now /\ g.later = h.later (-) SetToBag({p}) /\ g.queue = h.queue
          /\ g.held = h.held /\ g.fault = h.fault /\ g.reused = h.reused /\ g.shared = h.shared
      BY <2>0, <2>2 DEF Dispatch, Parts, Fields
    <3> HIDE DEF g, first
    <3>5. /\ DOMAIN g.later = DOMAIN h.later \ {p} /\ g.later = [q \in DOMAIN g.later |-> 1]
      <4>1. h.later = [q \in DOMAIN h.later |-> 1]
        BY <2>0 DEF Parts, Events
      <4> QED BY <3>4, <4>1 DEF (-), SetToBag
    <3>6. h.uid \in [Packets -> Signs] /\ h.uid[p] = 1 /\ -1 \in Signs
      <4>1. h.uid \in [Packets -> Signs] /\ -1 \in Signs
        BY <2>0 DEF Parts, Flags, Signs
      <4>2. h.uid[p] \in Signs
        BY <3>1, <4>1
      <4> QED BY <3>3, <4>1, <4>2 DEF Signs
    <3>7. g.uid = [h.uid EXCEPT ![p] = -1]
      BY <3>4, <3>6
    <3>8. Parts(g)
      <4>1. g.uid \in [Packets -> Signs]
        BY <3>1, <3>6, <3>7
      <4>2. Events(g)
        BY <2>0, <3>5, <3>4 DEF Parts, Events
      <4> QED BY <2>0, <3>4, <4>1, <4>2 DEF Parts, Lists, Flags
    <3>9. ASSUME NEW q \in Packets PROVE Owned(g, {p}, q)
      <4>1. g.uid[q] = IF q = p THEN -1 ELSE h.uid[q]
        BY <3>1, <3>6, <3>7
      <4>2. Owned(h, {}, q)
        BY <1>2, Flagged
      <4>3. (InEvents(g, q) <=> InEvents(h, q) /\ q # p) /\ (IsHeld(g, q) <=> IsHeld(h, q))
        BY <3>3, <3>4, <3>5 DEF InEvents, IsHeld
      <4> QED BY <3>1, <3>4, <3>5, <4>1, <4>2, <4>3, SMTT(30) DEF Owned, InEvents
    <3> QED BY <3>1, <3>8, <3>9 DEF Apart
  <2> QED BY <2>1, <2>2
<1> QED BY <1>1, <1>2 DEF Good, Keeps

(***************************************************************************)
(* What the handlers and the interface do with packets.                    *)
(***************************************************************************)
\* Packets that go from the hand to the queue, or back.
LEMMA RequeueGood ==
  ASSUME NEW h, NEW hand, NEW R, Good(h, hand, R), NEW Q \in SUBSET (h.queue \cup hand),
         h.shared = TRUE \/ \A p \in Q \cap hand : h.fflag[p]
  PROVE  Good([h EXCEPT !.queue = Q], (h.queue \cup hand) \ Q, R)
<1> DEFINE g == [h EXCEPT !.queue = Q]
<1>1. Keeps(h, g)
  BY DEF Keeps, Good, Fields
<1>2. ASSUME Apart(h, hand) PROVE Apart(g, (h.queue \cup hand) \ Q)
  <2>0. Parts(h) /\ h.queue \subseteq Packets /\ hand \subseteq Packets
    BY <1>2 DEF Apart, Parts
  <2>1. /\ DOMAIN g = Fields /\ g.made = h.made /\ g.free = h.free /\ g.fflag = h.fflag
        /\ g.uid = h.uid /\ g.kind = h.kind /\ g.now = h.now /\ g.later = h.later /\ g.queue = Q
        /\ g.held = h.held /\ g.fault = h.fault /\ g.reused = h.reused /\ g.shared = h.shared
    BY <2>0 DEF Parts, Fields
  <2> HIDE DEF g
  <2>2. Parts(g)
    BY <2>0, <2>1 DEF Parts, Lists, Events, Flags
  <2>3. ASSUME NEW q \in Packets PROVE Owned(g, (h.queue \cup hand) \ Q, q)
    <3>1. Owned(h, hand, q)
      BY <1>2, Flagged
    <3>2. (InEvents(g, q) <=> InEvents(h, q)) /\ (IsHeld(g, q) <=> IsHeld(h, q))
      BY <2>1 DEF InEvents, IsHeld
    <3>3. q \in Q => h.fflag[q]
      BY <1>2, <2>0, <3>1 DEF Owned, Parts
    <3> QED BY <2>1, <3>1, <3>2, <3>3, SMTT(30) DEF Owned
  <2> QED BY <2>0, <2>2, <2>3 DEF Apart
<1> QED BY <1>1, <1>2 DEF Good, Keeps

\* An interface keeps a packet, or takes it up again.
LEMMA HoldGood ==
  ASSUME NEW h, NEW hand, NEW R, Good(h, hand, R), NEW w \in Places, NEW p \in hand
  PROVE  Good(Hold(h, w, p), hand \ {p}, R)
<1> DEFINE g == Hold(h, w, p)
<1>1. Keeps(h, g)
  BY DEF Hold, Keeps, Good, Fields
<1>2. ASSUME Apart(h, hand) PROVE Apart(g, hand \ {p})
  <2>0. Parts(h) /\ hand \subseteq Packets /\ p \in Packets
    BY <1>2 DEF Apart
  <2>1. /\ DOMAIN g = Fields /\ g.made = h.made /\ g.free = h.free /\ g.fflag = h.fflag
        /\ g.uid = h.uid /\ g.kind = h.kind /\ g.now = h.now /\ g.later = h.later
        /\ g.queue = h.queue /\ g.held = h.held \cup {<< w, p >>}
        /\ g.fault = h.fault /\ g.reused = h.reused /\ g.shared = h.shared
    BY <2>0 DEF Hold, Parts, Fields
  <2> HIDE DEF g
  <2>2. Parts(g)
    <3>1. << w, p >> \in Places \X Packets
      BY <2>0
    <3>2. g.held \subseteq Places \X Packets
      BY <2>0, <2>1, <3>1 DEF Parts
    <3> QED BY <2>0, <2>1, <3>2 DEF Parts, Lists, Events, Flags
  <2>3. ASSUME NEW q \in Packets PROVE Owned(g, hand \ {p}, q)
    <3>1. Owned(h, hand, q)
      BY <1>2, Flagged
    <3>2. /\ InEvents(g, q) <=> InEvents(h, q)
          /\ IsHeld(g, q) <=> IsHeld(h, q) \/ q = p
      BY <2>1 DEF InEvents, IsHeld
    <3>3. \A v, u \in Places : << v, q >> \in g.held /\ << u, q >> \in g.held => v = u
      <4>1. CASE q = p
        <5>1. ~IsHeld(h, p)
          BY <1>2, InHand
        <5> QED BY <2>1, <4>1, <5>1 DEF IsHeld
      <4>2. CASE q # p
        BY <2>1, <3>1, <4>2 DEF Owned
      <4> QED BY <4>1, <4>2
    <3> QED BY <2>1, <3>1, <3>2, <3>3, SMTT(30) DEF Owned
  <2> QED BY <2>0, <2>2, <2>3 DEF Apart
<1> QED BY <1>1, <1>2 DEF Good, Keeps

\* The same the other way.
LEMMA LetGoGood ==
  ASSUME NEW h, NEW hand, NEW R, Good(h, hand, R), NEW w \in Places, NEW p \in Packets,
         << w, p >> \in h.held
  PROVE  Good(LetGo(h, w, p), hand \cup {p}, R)
<1> DEFINE g == LetGo(h, w, p)
<1>1. Keeps(h, g)
  BY DEF LetGo, Keeps, Good, Fields
<1>2. ASSUME Apart(h, hand) PROVE Apart(g, hand \cup {p})
  <2>0. Parts(h) /\ hand \subseteq Packets
    BY <1>2 DEF Apart
  <2>1. /\ DOMAIN g = Fields /\ g.made = h.made /\ g.free = h.free /\ g.fflag = h.fflag
        /\ g.uid = h.uid /\ g.kind = h.kind /\ g.now = h.now /\ g.later = h.later
        /\ g.queue = h.queue /\ g.held = h.held \ {<< w, p >>}
        /\ g.fault = h.fault /\ g.reused = h.reused /\ g.shared = h.shared
    BY <2>0 DEF LetGo, Parts, Fields
  <2> HIDE DEF g
  <2>2. Parts(g)
    BY <2>0, <2>1 DEF Parts, Lists, Events, Flags
  <2>3. ASSUME NEW q \in Packets PROVE Owned(g, hand \cup {p}, q)
    <3>1. Owned(h, hand, q)
      BY <1>2, Flagged
    <3>2. IsHeld(h, p) /\ \A v \in Places : << v, p >> \in h.held => v = w
      <4>1. Owned(h, hand, p)
        BY <1>2, Flagged
      <4> QED BY <4>1 DEF IsHeld, Owned
    <3>3. /\ InEvents(g, q) <=> InEvents(h, q)
          /\ IsHeld(g, q) <=> IsHeld(h, q) /\ q # p
      BY <2>1, <3>2 DEF InEvents, IsHeld
    <3>4. \A v, u \in Places : << v, q >> \in g.held /\ << u, q >> \in g.held => v = u
      BY <2>1, <3>1 DEF Owned
    <3> QED BY <2>1, <3>1, <3>2, <3>3, <3>4, SMTT(30) DEF Owned
  <2> QED BY <2>0, <2>2, <2>3 DEF Apart
<1> QED BY <1>1, <1>2 DEF Good, Keeps

\* A queue of an interface links a packet.
LEMMA LinkedGood ==
  ASSUME NEW h, NEW R, NEW p, Good(h, {p}, R)
  PROVE  Good(Linked(h, p), {}, R)
<1> DEFINE H == Hold(h, "mac", p)
           g == Linked(h, p)
<1>1. Good(H, {}, R)
  <2>1. Good(H, {p} \ {p}, R)
    BY HoldGood DEF Places
  <2>2. {p} \ {p} = {}
    OBVIOUS
  <2> QED BY <2>1, <2>2
<1>2. DOMAIN H = Fields /\ H.reused = h.reused /\ H.shared = h.shared
  BY DEF Hold, Good, Fields
<1> HIDE DEF H
<1>3. /\ DOMAIN g = Fields /\ g.reused = H.reused
      /\ h.fflag[p] => g = H
      /\ ~h.fflag[p] => g.shared = TRUE
      /\ H.shared = TRUE => g.shared = TRUE
  BY <1>2 DEF Linked, H, Fields
<1>4. CASE h.shared = TRUE
  <2>1. R # {}
    BY <1>4 DEF Good, Apart, Parts
  <2>2. g.shared = TRUE
    BY <1>2, <1>3, <1>4
  <2> QED BY <1>1, <1>3, <2>1, <2>2 DEF Good
<1>5. CASE Apart(h, {p}) /\ h.shared = FALSE
  <2>1. h.fflag[p] \in BOOLEAN
    BY <1>5, InHand, Flagged
  <2>2. CASE h.fflag[p] = FALSE
    <3>1. p \in h.reused
      BY <1>5, <2>2, InHand
    <3>2. g.shared = TRUE
      BY <1>3, <2>2
    <3> QED BY <1>1, <1>2, <1>3, <3>1, <3>2 DEF Good
  <2>3. CASE h.fflag[p] = TRUE
    <3> QED BY <1>1, <1>3, <2>3
  <2> QED BY <2>1, <2>2, <2>3
<1>6. Apart(h, {p}) => h.shared = FALSE
  BY DEF Apart, Parts
<1> QED BY <1>4, <1>5, <1>6 DEF Good

\* Packets released from the queue are freed or scheduled.
LEMMA LearntGood ==
  ASSUME NEW h, NEW hand, NEW R, Good(h, hand, R), NEW g \in Learnt(h)
  PROVE  Good(g, hand, R)
<1>1. PICK A \in SUBSET h.queue, D \in SUBSET h.queue : g \in Released(h, A, D)
  BY DEF Learnt
<1> DEFINE F == {p \in D : h.fflag[p]}
           h1 == [h EXCEPT !.queue = h.queue \ (A \cup D)]
<1>2. PICK dropped \in SetToSeqs(F), sent \in SetToSeqs(A \ D) :
        g = ScheduleAll(FreeAll(h1, dropped), sent)
  BY <1>1 DEF Released
<1>3. CASE h.shared = TRUE
  <2>1. R # {}
    BY <1>3 DEF Good, Apart, Parts
  <2>2. Keeps(h, h1)
    BY DEF Keeps, Good, Fields
  <2> HIDE DEF h1
  <2>3. Keeps(h1, FreeAll(h1, dropped))
    BY <2>2 DEF FreeAll, Keeps, Fields
  <2> DEFINE h2 == FreeAll(h1, dropped)
  <2> HIDE DEF h2
  <2>4. Keeps(h2, ScheduleAll(h2, sent))
    BY <2>3 DEF ScheduleAll, Marked, Keeps, Fields, h2
  <2> QED BY <1>2, <1>3, <2>1, <2>2, <2>3, <2>4 DEF Good, Keeps, h2
<1>4. CASE Apart(h, hand)
  <2>1. h.queue \subseteq Packets /\ h.shared = FALSE /\ DOMAIN h = Fields
    BY <1>4 DEF Apart, Parts
  <2>2. \A p \in h.queue : p \notin hand /\ h.fflag[p]
    <3> TAKE p \in h.queue
    <3>1. Owned(h, hand, p)
      BY <1>4, <2>1, Flagged
    <3> QED BY <3>1 DEF Owned
  <2>3. F = D
    BY <2>2
  <2> HIDE DEF F
  <2>4. IsFiniteSet(D) /\ IsFiniteSet(A \ D)
    <3>1. IsFiniteSet(Packets)
      BY PacketsAssumption, FS_Interval DEF Packets
    <3> QED BY <2>1, <3>1, FS_Subset
  <2>5. /\ dropped \in Seq(Packets) /\ IsInjective(dropped) /\ Range(dropped) = D
        /\ sent \in Seq(Packets) /\ IsInjective(sent) /\ Range(sent) = A \ D
    <3>1. dropped \in Seq(D) /\ IsInjective(dropped) /\ Range(dropped) = D
      BY <1>2, <2>3, <2>4, Orders
    <3>2. sent \in Seq(A \ D) /\ IsInjective(sent) /\ Range(sent) = A \ D
      BY <1>2, <2>4, Orders
    <3> QED BY <2>1, <3>1, <3>2
  <2>6. Good(h1, hand \cup A \cup D, R)
    <3> DEFINE Q == h.queue \ (A \cup D)
    <3>1. h1 = [h EXCEPT !.queue = Q]
      BY <2>1
    <3>2. (h.queue \cup hand) \ Q = hand \cup A \cup D
      BY <2>2
    <3>3. Q \in SUBSET (h.queue \cup hand) /\ \A p \in Q \cap hand : h.fflag[p]
      BY <2>2
    <3> HIDE DEF Q
    <3>4. Good([h EXCEPT !.queue = Q], (h.queue \cup hand) \ Q, R)
      BY <3>3, RequeueGood
    <3> QED BY <3>1, <3>2, <3>4
  <2>7. h1.fflag = h.fflag
    BY <2>1 DEF Fields
  <2> HIDE DEF h1
  <2>8. Good(FreeAll(h1, dropped), (hand \cup A \cup D) \ D, R)
    <3>1. Range(dropped) \subseteq hand \cup A \cup D /\ \A p \in Range(dropped) : h1.fflag[p]
      BY <2>2, <2>5, <2>7
    <3> QED BY <2>5, <2>6, <3>1, FreeAllGood
  <2>9. (hand \cup A \cup D) \ D = hand \cup (A \ D) /\ (hand \cup (A \ D)) \ (A \ D) = hand
    BY <2>2
  <2>10. Good(g, (hand \cup (A \ D)) \ (A \ D), R)
    <3>1. Good(FreeAll(h1, dropped), hand \cup (A \ D), R)
      BY <2>8, <2>9
    <3> QED BY <1>2, <2>5, <3>1, ScheduleAllGood
  <2> QED BY <2>9, <2>10
<1> QED BY <1>3, <1>4 DEF Good

\* The handler sends the packet on, or is done with it.
LEMMA RelayOrDropGood ==
  ASSUME NEW h, NEW hand, NEW R, Good(h, hand, R), NEW p \in hand, NEW t \in RelayOrDrop(h, p)
  PROVE  Good(t, hand \ {p}, R)
BY ScheduleGood, FreeGood DEF RelayOrDrop

\* forward, and what it releases.
LEMMA ForwardGood ==
  ASSUME NEW h, NEW hand, NEW R, Good(h, hand, R), NEW p \in hand, NEW t \in Forward(h, p)
  PROVE  Good(t, hand \ {p}, R)
<1>1. PICK g \in Learnt(h) : t \in RelayOrDrop(g, p)
  BY DEF Forward
<1> QED BY <1>1, LearntGood, RelayOrDropGood

\* macFailed.
LEMMA FailedGood ==
  ASSUME NEW h, NEW hand, NEW R, Good(h, hand, R), NEW p \in hand, NEW t \in Failed(h, p)
  PROVE  Good(t, hand \ {p}, R) /\ ~h.shared
<1>1. t \in MacFailed(h, p) /\ ~h.shared
  BY DEF Failed
<1> QED BY <1>1, FreeGood, ForwardGood DEF MacFailed

\* ASPUQueue::enque.
LEMMA EnqueGood ==
  ASSUME NEW h, NEW R, NEW p, Good(h, {p}, R), h.shared = TRUE \/ h.fflag[p], NEW t \in Enque(h, p)
  PROVE  Good(t, {}, R)
<1>1. PICK g : /\ t = [g EXCEPT !.queue = g.queue \cup {p}]
               /\ \/ g = h
                  \/ \E q \in h.queue : g = Free([h EXCEPT !.queue = h.queue \ {q}], q)
  BY DEF Enque
<1>2. Good(g, {p}, R) /\ (g.shared = TRUE \/ g.fflag[p])
  <2>1. CASE g = h
    BY <2>1
  <2>2. ASSUME NEW q \in h.queue, g = Free([h EXCEPT !.queue = h.queue \ {q}], q)
        PROVE  Good(g, {p}, R) /\ (g.shared = TRUE \/ g.fflag[p])
    <3> DEFINE h1 == [h EXCEPT !.queue = h.queue \ {q}]
    <3>1. CASE h.shared = TRUE
      <4>1. R # {} /\ Keeps(h, h1)
        BY <3>1 DEF Good, Apart, Parts, Keeps, Fields
      <4> HIDE DEF h1
      <4>2. Keeps(h1, Free(h1, q))
        BY <4>1 DEF Free, FreeAll, Keeps, Fields
      <4> QED BY <2>2, <3>1, <4>1, <4>2 DEF Good, Keeps, h1
    <3>2. CASE Apart(h, {p}) /\ h.shared = FALSE
      <4>1. p \in Packets /\ p \notin h.queue /\ q \in Packets /\ p # q
        BY <3>2, InHand DEF Apart, Parts
      <4>2. (h.queue \cup {p}) \ (h.queue \ {q}) = {p, q} /\ {p, q} \ {q} = {p}
        BY <4>1
      <4>3. Good(h1, {p, q}, R)
        <5>1. \A x \in (h.queue \ {q}) \cap {p} : h.fflag[x]
          BY <4>1
        <5>2. Good(h1, (h.queue \cup {p}) \ (h.queue \ {q}), R)
          BY <5>1, RequeueGood
        <5> QED BY <4>2, <5>2
      <4>4. h1.fflag = h.fflag
        BY DEF Good, Fields
      <4> HIDE DEF h1
      <4>5. Good(g, {p, q} \ {q}, R)
        BY <2>2, <4>3, FreeGood DEF h1
      <4>6. g.shared = TRUE \/ g.fflag[p]
        <5>1. CASE h1.fflag[q]
          <6>1. FreeAll(h1, << q >>).fault = "" => FreeAll(h1, << q >>).fflag[p]
            <7>1. Range(<< q >>) = {q} /\ DOMAIN h1 = Fields
              BY <4>1, <4>3, Single DEF Good
            <7>2. h1.fflag[p] /\ p \notin {q}
              BY <3>2, <4>1, <4>4
            <7> QED BY <4>1, <7>1, <7>2 DEF FreeAll, Fields
          <6>2. g = FreeAll(h1, << q >>)
            BY <2>2, <5>1 DEF Free, h1
          <6>3. g.shared = TRUE \/ g.fault = ""
            BY <4>5 DEF Good, Apart, Parts
          <6> QED BY <6>1, <6>2, <6>3
        <5>2. CASE ~h1.fflag[q]
          BY <2>2, <3>2, <4>4, <5>2 DEF Free, h1
        <5> QED BY <5>1, <5>2
      <4> QED BY <4>2, <4>5, <4>6
    <3>3. Apart(h, {p}) => h.shared = FALSE
      BY DEF Apart, Parts
    <3> QED BY <3>1, <3>2, <3>3 DEF Good
  <2> QED BY <1>1, <2>1, <2>2
<1>3. Good(t, (g.queue \cup {p}) \ (g.queue \cup {p}), R)
  BY <1>1, <1>2, RequeueGood
<1>4. (g.queue \cup {p}) \ (g.queue \cup {p}) = {}
  OBVIOUS
<1> QED BY <1>3, <1>4

\* A node sends a message of its own.
LEMMA SentGood ==
  ASSUME NEW h, NEW R, Good(h, {}, R), NEW k \in Messages, NEW t \in Sent(h, k)
  PROVE  Good(t, {}, R)
<1> DEFINE q == Fresh(h)
           a == Alloc(h, k)
<1>1. CanAlloc(h) /\ t = Schedule(a, q)
  BY DEF Sent
<1>2. Good(a, {q}, R)
  BY <1>1, AllocAlone
<1>3. {q} \ {q} = {}
  OBVIOUS
<1> HIDE DEF a, q
<1>4. Good(t, {q} \ {q}, R)
  BY <1>1, <1>2, ScheduleGood
<1> QED BY <1>3, <1>4

\* sendDarp: the answer is another packet.
LEMMA AnswerGood ==
  ASSUME NEW h, NEW R, NEW p, Good(h, {p}, R), h.shared = TRUE \/ h.fflag[p], NEW t \in Answer(h, p)
  PROVE  Good(t, {}, R)
<1> DEFINE a == Alloc(h, "DARP")
           q == Fresh(h)
<1>1. CanAlloc(h) /\ t = Schedule(Free(a, p), q)
  BY DEF Answer
<1>2. Good(a, {p} \cup {q}, R) /\ (a.shared = TRUE \/ q \notin {p})
  BY <1>1, AllocGood DEF Messages
<1> HIDE DEF a, q
<1>3. Good(Free(a, p), ({p} \cup {q}) \ {p}, R)
  BY <1>2, FreeGood
<1>4. CASE a.shared = TRUE
  <2>1. Keeps(a, Free(a, p)) /\ R # {}
    BY <1>2, <1>4 DEF Free, FreeAll, Keeps, Good, Apart, Parts, Fields
  <2> DEFINE b == Free(a, p)
  <2> HIDE DEF b
  <2>2. Keeps(b, Schedule(b, q))
    BY <2>1 DEF Schedule, ScheduleAll, Marked, Keeps, Fields, b
  <2> QED BY <1>1, <1>2, <1>4, <2>1, <2>2 DEF Good, Keeps, b
<1>5. CASE q # p
  <2>1. ({p} \cup {q}) \ {p} = {q} /\ {q} \ {q} = {}
    BY <1>5
  <2>2. Good(Free(a, p), {q}, R)
    BY <1>3, <2>1
  <2>3. Good(t, {q} \ {q}, R)
    BY <1>1, <2>2, ScheduleGood
  <2> QED BY <2>1, <2>3
<1> QED BY <1>2, <1>4, <1>5

\* What a step leaves: a packet comes into two hands only if some of R had been
\* scheduled after they were freed.
Outcome(t, R) == \E Q : Good(t, {}, Q) /\ (t.shared = TRUE => R # {})

\* Good states are outcomes.
LEMMA GoodOutcome ==
  ASSUME NEW t, NEW R, Good(t, {}, R)
  PROVE  Outcome(t, R)
<1>1. t.shared = TRUE => R # {}
  BY DEF Good, Apart, Parts
<1> QED BY <1>1 DEF Outcome

\* recvHello and recvDabr.
LEMMA FreeAndScheduleGood ==
  ASSUME NEW h, NEW R, NEW p, Good(h, {p}, R), NEW t \in FreeAndSchedule(h, p)
  PROVE  Outcome(t, R)
<1> DEFINE f == Free(h, p)
           g == [f EXCEPT !.reused = @ \cup {p}]
           Q == R \cup {p}
<1>1. Good(f, {p} \ {p}, R)
  BY FreeGood
<1>2. t = Schedule(g, p)
  BY DEF FreeAndSchedule
<1>3. DOMAIN f = Fields /\ f.shared = h.shared
  BY DEF Free, FreeAll, Good, Fields
<1>4. /\ DOMAIN g = Fields /\ g.reused = f.reused \cup {p} /\ g.shared = f.shared
      /\ g.made = f.made /\ g.free = f.free /\ g.fflag = f.fflag /\ g.uid = f.uid /\ g.kind = f.kind
      /\ g.now = f.now /\ g.later = f.later /\ g.queue = f.queue /\ g.held = f.held
      /\ g.fault = f.fault
  BY <1>3 DEF Fields
<1>5. Good(g, {p}, Q)
  <2>1. CASE h.shared = TRUE
    BY <1>1, <1>3, <1>4, <2>1 DEF Good
  <2>2. CASE Apart(h, {p}) /\ h.shared = FALSE
    <3>1. Apart(f, {})
      BY <1>1, <1>3, <2>2 DEF Good
    <3>2. /\ p \in Packets /\ ~InEvents(f, p) /\ p \notin f.queue /\ ~IsHeld(f, p) /\ ~f.fflag[p]
      <4>1. /\ p \in Packets /\ ~(h.uid[p] > 0) /\ ~InEvents(h, p) /\ p \notin h.queue /\ ~IsHeld(h, p)
        BY <2>2, InHand
      <4>2. /\ f.now = h.now /\ f.later = h.later /\ f.queue = h.queue /\ f.held = h.held
        BY <1>3 DEF Free, FreeAll, Good, Fields
      <4>3. ~InEvents(f, p) /\ p \notin f.queue /\ ~IsHeld(f, p)
        BY <4>1, <4>2 DEF InEvents, IsHeld
      <4>4. Owned(f, {}, p)
        BY <3>1, <4>1, Flagged
      <4> QED BY <4>1, <4>3, <4>4 DEF Owned
    <3>3. Parts(f)
      BY <3>1 DEF Apart
    <3> HIDE DEF f, g
    <3>4. Parts(g)
      BY <1>4, <3>3 DEF Parts, Lists, Events, Flags
    <3>5. ASSUME NEW q \in Packets PROVE Owned(g, {p}, q)
      <4>1. Owned(f, {}, q)
        BY <3>1, Flagged
      <4>2. (InEvents(g, q) <=> InEvents(f, q)) /\ (IsHeld(g, q) <=> IsHeld(f, q))
        BY <1>4 DEF InEvents, IsHeld
      <4> QED BY <1>4, <3>2, <4>1, <4>2, SMTT(30) DEF Owned
    <3> QED BY <1>1, <1>4, <3>2, <3>4, <3>5 DEF Good, Apart
  <2>3. Apart(h, {p}) => h.shared = FALSE
    BY DEF Apart, Parts
  <2> QED BY <2>1, <2>2, <2>3 DEF Good
<1> HIDE DEF f, g, Q
<1>6. Good(t, {p} \ {p}, Q) /\ {p} \ {p} = {}
  BY <1>2, <1>5, ScheduleGood
<1>7. Keeps(g, t) /\ t.shared = g.shared
  BY <1>2, <1>4 DEF Schedule, ScheduleAll, Marked, Keeps, Fields
<1>8. t.shared = TRUE => R # {}
  BY <1>3, <1>4, <1>7 DEF Good, Apart, Parts
<1> QED BY <1>6, <1>8 DEF Outcome

\* Every handler sees to its packet.
LEMMA HandledGood ==
  ASSUME NEW h, NEW R, NEW p, Good(h, {p}, R), NEW t \in Handled(h, p)
  PROVE  Outcome(t, R)
<1>1. CASE t \in FreeAndSchedule(h, p)
  BY <1>1, FreeAndScheduleGood
<1>2. CASE t \in RelayOrDrop(h, p)
  <2>1. Good(t, {p} \ {p}, R) /\ {p} \ {p} = {}
    BY <1>2, RelayOrDropGood
  <2> QED BY <2>1, GoodOutcome
<1>3. CASE h.kind[p] = "DARQ" /\ t \in Answer(h, p)
  <2>1. h.shared = TRUE \/ h.fflag[p]
    <3>1. Apart(h, {p}) => h.fflag[p]
      <4> SUFFICES ASSUME Apart(h, {p}) PROVE h.fflag[p]
        OBVIOUS
      <4>1. Owned(h, {p}, p)
        BY InHand, Flagged
      <4> QED BY <1>3, <4>1 DEF Owned
    <3> QED BY <3>1 DEF Good
  <2> QED BY <1>3, <2>1, AnswerGood, GoodOutcome
<1> QED BY <1>1, <1>2, <1>3 DEF Handled

(***************************************************************************)
(* The steps.                                                              *)
(***************************************************************************)
\* At first there is no packet at all.
LEMMA InitGood == Init => Good(s, {}, {})
<1> SUFFICES ASSUME Init PROVE Good(s, {}, {})
  OBVIOUS
<1>1. MaxPackets \in Nat /\ 0 \in 0 .. MaxPackets /\ \A p \in Packets : p \in Nat /\ p > 0
  BY PacketsAssumption DEF Packets
<1>2. /\ s.free = << >> /\ s.now = << >>
      /\ Range(s.free) = {} /\ Range(s.now) = {} /\ IsInjective(s.free) /\ IsInjective(s.now)
  <2>1. s.free = << >> /\ s.now = << >>
    BY DEF Init
  <2>2. DOMAIN s.free = {} /\ DOMAIN s.now = {}
    BY <2>1
  <2> QED BY <2>1, <2>2 DEF Range, IsInjective
<1>3. DOMAIN s.later = {} /\ s.later = [p \in DOMAIN s.later |-> 1]
  BY DEF Init, EmptyBag, SetToBag
<1>4. Parts(s)
  <2>1. Lists(s)
    BY <1>2 DEF Lists
  <2>2. Events(s)
    BY <1>3 DEF Events
  <2>3. Flags(s)
    BY DEF Flags, Init, Messages, Signs
  <2> QED BY <1>1, <2>1, <2>2, <2>3 DEF Parts, Fields, Init
<1>5. ASSUME NEW p \in Packets PROVE Owned(s, {}, p)
  <2>1. /\ s.made = 0 /\ s.fflag[p] = FALSE /\ s.uid[p] = 0 /\ s.queue = {} /\ s.held = {}
        /\ s.kind[p] = "DATA"
    BY DEF Init
  <2> QED BY <1>1, <1>2, <1>3, <2>1 DEF Owned, InEvents, IsHeld
<1>6. s.reused = {} /\ DOMAIN s = Fields
  BY DEF Init, Fields
<1> QED BY <1>4, <1>5, <1>6 DEF Good, Apart

\* The agent or an interface takes an event.
LEMMA EventGood ==
  ASSUME NEW R, Good(s, {}, R), NEW p \in Due(s), Recv(p) \/ Target(p) \/ Queued(p) \/ Arrive(p)
  PROVE  Outcome(s', R)
<1> DEFINE h == Dispatch(s, p)
<1>1. Good(h, {p}, R) /\ {p} \ {p} = {}
  BY DispatchGood
<1>2. Good(Free(h, p), {}, R)
  <2> HIDE DEF h
  <2>1. Good(Free(h, p), {p} \ {p}, R)
    BY <1>1, FreeGood
  <2> QED BY <1>1, <2>1
<1>3. CASE Recv(p)
  <2>1. PICK g \in Learnt(h) : s' \in Handled(g, p)
    BY <1>3 DEF Recv
  <2> HIDE DEF h
  <2> QED BY <1>1, <2>1, LearntGood, HandledGood
<1>4. CASE Target(p)
  <2>1. s' \in {ScheduleLater(h, p, "ifq"), Free(h, p), Asked(Hold(h, "arp", p))} \cup Failed(h, p)
    BY <1>4 DEF Target
  <2> HIDE DEF h
  <2>2. Good(ScheduleLater(h, p, "ifq"), {p} \ {p}, R)
    BY <1>1, ScheduleLaterGood
  <2>3. ASSUME s' \in Failed(h, p) PROVE Good(s', {p} \ {p}, R)
    BY <1>1, <2>3, FailedGood
  <2>4. Good(Asked(Hold(h, "arp", p)), {}, R)
    <3> DEFINE H == Hold(h, "arp", p)
               a == Alloc(H, "ARP")
               q == Fresh(H)
    <3>1. Good(H, {p} \ {p}, R)
      BY <1>1, HoldGood DEF Places
    <3>2. Good(H, {}, R)
      BY <1>1, <3>1
    <3>3. Asked(H) = IF CanAlloc(H) THEN ScheduleLater(a, q, "ifq") ELSE H
      BY DEF Asked
    <3> HIDE DEF H
    <3>4. ASSUME CanAlloc(H) PROVE Good(ScheduleLater(a, q, "ifq"), {}, R)
      <4>1. Good(a, {} \cup {q}, R)
        BY <3>2, <3>4, AllocGood DEF Messages
      <4>2. {} \cup {q} = {q} /\ {q} \ {q} = {}
        OBVIOUS
      <4> HIDE DEF a, q
      <4>3. Good(a, {q}, R)
        BY <4>1, <4>2
      <4>4. Good(ScheduleLater(a, q, "ifq"), {q} \ {q}, R)
        BY <4>3, ScheduleLaterGood
      <4> QED BY <4>2, <4>4
    <3> QED BY <3>2, <3>3, <3>4 DEF H
  <2> QED BY <1>1, <1>2, <2>1, <2>2, <2>3, <2>4, GoodOutcome
<1>5. CASE Queued(p)
  <2>1. s' \in {Free(h, p), Linked(h, p)}
    BY <1>5 DEF Queued
  <2> HIDE DEF h
  <2> QED BY <1>1, <1>2, <2>1, LinkedGood, GoodOutcome
<1>6. CASE Arrive(p)
  <2>1. s' \in {Free(h, p), Hold(h, "phy", p)}
    BY <1>6 DEF Arrive
  <2> HIDE DEF h
  <2>2. Good(Hold(h, "phy", p), {p} \ {p}, R)
    BY <1>1, HoldGood DEF Places
  <2> QED BY <1>1, <1>2, <2>1, <2>2, GoodOutcome
<1> QED BY <1>3, <1>4, <1>5, <1>6

\* An interface goes on with a packet that it holds.
LEMMA HeldGood ==
  ASSUME NEW R, Good(s, {}, R), NEW p \in Packets, Resolve(p) \/ Received(p) \/ Done(p)
  PROVE  Outcome(s', R)
<1>1. {} \cup {p} = {p} /\ {p} \ {p} = {}
  OBVIOUS
<1>2. ASSUME NEW w \in Places, << w, p >> \in s.held
      PROVE  /\ Good(LetGo(s, w, p), {p}, R) /\ Good(Free(LetGo(s, w, p), p), {}, R)
             /\ \A to : Good(ScheduleLater(LetGo(s, w, p), p, to), {}, R)
             /\ \A t \in Failed(LetGo(s, w, p), p) : Good(t, {}, R)
  <2> DEFINE h == LetGo(s, w, p)
  <2>1. Good(h, {} \cup {p}, R)
    BY <1>2, LetGoGood
  <2> HIDE DEF h
  <2>2. Good(h, {p}, R)
    BY <1>1, <2>1
  <2>3. Good(Free(h, p), {p} \ {p}, R) /\ \A to : Good(ScheduleLater(h, p, to), {p} \ {p}, R)
    BY <2>2, FreeGood, ScheduleLaterGood
  <2>4. \A t \in Failed(h, p) : Good(t, {p} \ {p}, R)
    BY <2>2, FailedGood
  <2> QED BY <1>1, <2>2, <2>3, <2>4 DEF h
<1>3. CASE Resolve(p)
  <2> DEFINE h == LetGo(s, "arp", p)
  <2>1. << "arp", p >> \in s.held /\ s' \in {Free(h, p), ScheduleLater(h, p, "ifq")} \cup Failed(h, p)
    BY <1>3 DEF Resolve
  <2>2. "arp" \in Places
    BY DEF Places
  <2>3. Good(s', {}, R)
    BY <1>2, <2>1, <2>2
  <2> QED BY <2>3, GoodOutcome
<1>4. CASE Received(p)
  <2> DEFINE h == LetGo(s, "phy", p)
  <2>1. PICK to : << "phy", p >> \in s.held /\ s' \in {Free(h, p), ScheduleLater(h, p, to)}
    BY <1>4 DEF Received
  <2>2. "phy" \in Places
    BY DEF Places
  <2>3. Good(s', {}, R)
    BY <1>2, <2>1, <2>2
  <2> QED BY <2>3, GoodOutcome
<1>5. CASE Done(p)
  <2>1. << "mac", p >> \in s.held /\ "mac" \in Places
    BY <1>5 DEF Done, Places
  <2>2. CASE s' = Free(LetGo(s, "mac", p), p)
    BY <1>2, <2>1, <2>2, GoodOutcome
  <2>3. CASE /\ CanAlloc(s)
             /\ \E g \in Failed(LetGo(Alloc(s, "DATA"), "mac", p), Fresh(s)) : s' = Free(g, p)
    <3> DEFINE a == Alloc(s, "DATA")
               q == Fresh(s)
               h == LetGo(a, "mac", p)
    <3>1. PICK g \in Failed(h, q) : s' = Free(g, p)
      BY <2>3
    <3>2. Good(a, {} \cup {q}, R)
      BY <2>3, AllocGood DEF Messages
    <3>3. {} \cup {q} = {q}
      OBVIOUS
    <3>4. << "mac", p >> \in a.held
      BY <2>1 DEF Alloc, Good, Fields
    <3> HIDE DEF a, q
    <3>5. Good(a, {q}, R)
      BY <3>2, <3>3
    <3>6. Good(h, {q} \cup {p}, R)
      BY <2>1, <3>4, <3>5, LetGoGood
    <3>7. h.shared = a.shared
      BY <3>5 DEF LetGo, Good, Fields
    <3> HIDE DEF h
    <3>8. Good(g, ({q} \cup {p}) \ {q}, R) /\ ~h.shared
      BY <3>1, <3>6, FailedGood
    <3>9. q # p
      <4>1. Apart(a, {q})
        BY <3>5, <3>7, <3>8 DEF Good
      <4>2. Owned(a, {q}, p) /\ IsHeld(a, p)
        BY <2>1, <3>4, <4>1, Flagged DEF IsHeld
      <4> QED BY <4>2 DEF Owned
    <3>10. ({q} \cup {p}) \ {q} = {p}
      BY <3>9
    <3>11. Good(s', {p} \ {p}, R)
      <4>1. Good(g, {p}, R)
        BY <3>8, <3>10
      <4> QED BY <3>1, <4>1, FreeGood
    <3> QED BY <1>1, <3>11, GoodOutcome
  <2> QED BY <1>5, <2>2, <2>3 DEF Done
<1> QED BY <1>3, <1>4, <1>5

\* Mac802_11 sends a copy.
LEMMA TransmitGood ==
  ASSUME NEW R, Good(s, {}, R), NEW p \in Packets, Transmit(p)
  PROVE  Good(s', {}, R)
<1> DEFINE k == s.kind[p]
           h == Alloc(s, k)
           copy == Fresh(s)
           g == Alloc(h, k)
           q == Fresh(h)
<1>1. /\ CanAlloc(s)
      /\ \/ s' = Free(h, copy)
         \/ CanAlloc(h) /\ s' = Free(ScheduleLater(g, q, "netif"), copy)
  BY DEF Transmit
<1>2. s.shared = TRUE \/ k \in Messages
  BY Flagged DEF Good
<1> HIDE DEF k
<1>3. Good(h, {copy}, R) /\ (h.shared = TRUE \/ Live(h, copy))
  BY <1>1, <1>2, AllocAlone
<1>4. h.shared = TRUE \/ k \in Messages
  <2>1. s.shared = TRUE => h.shared = TRUE
    BY DEF Alloc, Good, Fields
  <2> QED BY <1>2, <2>1
<1>5. {copy} \ {copy} = {}
  OBVIOUS
<1> HIDE DEF h, copy
<1>6. Good(h, {copy}, R)
  BY <1>3
<1>7. CASE s' = Free(h, copy)
  <2>1. Good(s', {copy} \ {copy}, R)
    BY <1>6, <1>7, FreeGood
  <2> QED BY <1>5, <2>1
<1>8. CASE CanAlloc(h) /\ s' = Free(ScheduleLater(g, q, "netif"), copy)
  <2>0. h.shared = TRUE \/ \A x \in {copy} : h.fflag[x]
    BY <1>3 DEF Live
  <2>1. Good(g, {copy} \cup {q}, R) /\ (g.shared = TRUE \/ q \notin {copy})
    BY <1>4, <1>6, <1>8, <2>0, AllocGood
  <2> HIDE DEF g, q
  <2> DEFINE l == ScheduleLater(g, q, "netif")
  <2>2. Good(l, ({copy} \cup {q}) \ {q}, R)
    BY <2>1, ScheduleLaterGood
  <2>3. CASE g.shared = TRUE
    <3>1. R # {} /\ Keeps(g, l)
      BY <2>1, <2>3 DEF ScheduleLater, Marked, Keeps, Good, Apart, Parts, Fields
    <3> HIDE DEF l
    <3>2. Keeps(l, Free(l, copy))
      BY <3>1 DEF Free, FreeAll, Keeps, Fields
    <3> QED BY <1>8, <2>1, <2>3, <3>1, <3>2 DEF Good, Keeps, l
  <2>4. CASE q # copy
    <3>1. ({copy} \cup {q}) \ {q} = {copy}
      BY <2>4
    <3> HIDE DEF l
    <3>2. Good(l, {copy}, R)
      BY <2>2, <3>1
    <3>3. Good(s', {copy} \ {copy}, R)
      BY <1>8, <3>2, FreeGood DEF l
    <3> QED BY <1>5, <3>3
  <2> QED BY <2>1, <2>3, <2>4
<1> QED BY <1>1, <1>7, <1>8

\* An application's packet comes.
LEMMA FormatGood ==
  ASSUME NEW R, Good(s, {}, R), Format
  PROVE  Good(s', {}, R)
<1> DEFINE q == Fresh(s)
           a == Alloc(s, "DATA")
<1>1. /\ CanAlloc(s)
      /\ s' \in Forward(a, q) \cup UNION {{g} \cup Sent(g, "DARQ") : g \in Enque(a, q)}
  BY DEF Format
<1>2. Good(a, {q}, R) /\ (a.shared = TRUE \/ Live(a, q))
  <2>1. "DATA" \in Messages
    BY DEF Messages
  <2> QED BY <1>1, <2>1, AllocAlone
<1>3. {q} \ {q} = {}
  OBVIOUS
<1>7. a.shared = TRUE \/ a.fflag[q]
  BY <1>2 DEF Live
<1> HIDE DEF a, q
<1>4. Good(a, {q}, R)
  BY <1>2
<1>5. CASE s' \in Forward(a, q)
  <2>1. Good(s', {q} \ {q}, R)
    BY <1>4, <1>5, ForwardGood
  <2> QED BY <1>3, <2>1
<1>6. ASSUME NEW g \in Enque(a, q), s' = g \/ s' \in Sent(g, "DARQ")
      PROVE  Good(s', {}, R)
  <2>1. Good(g, {}, R)
    BY <1>7, <1>4, EnqueGood
  <2>2. "DARQ" \in Messages
    BY DEF Messages
  <2> QED BY <1>6, <2>1, <2>2, SentGood
<1> QED BY <1>1, <1>5, <1>6

\* Every step.
LEMMA StepGood ==
  ASSUME NEW R, Good(s, {}, R), [Next]_s
  PROVE  Outcome(s', R)
<1>1. ASSUME NEW p \in Due(s), Recv(p) \/ Target(p) \/ Queued(p) \/ Arrive(p) PROVE Outcome(s', R)
  BY <1>1, EventGood
<1>2. ASSUME NEW p \in Packets, Resolve(p) \/ Received(p) \/ Done(p) PROVE Outcome(s', R)
  BY <1>2, HeldGood
<1>3. ASSUME NEW p \in Packets, Transmit(p) PROVE Outcome(s', R)
  BY <1>3, TransmitGood, GoodOutcome
<1>4. ASSUME NEW k \in Kinds, Send(k) PROVE Outcome(s', R)
  <2>1. PICK h \in Learnt(s) : s' \in {h} \cup Sent(h, k)
    BY <1>4 DEF Send
  <2>2. Good(h, {}, R)
    BY <2>1, LearntGood
  <2>3. k \in Messages
    BY PacketsAssumption DEF Messages
  <2> QED BY <2>1, <2>2, <2>3, SentGood, GoodOutcome
<1>5. CASE Format
  BY <1>5, FormatGood, GoodOutcome
<1>6. CASE s' = s
  BY <1>6, GoodOutcome
<1> QED BY <1>1, <1>2, <1>3, <1>4, <1>5, <1>6 DEF Next

-----------------------------------------------------------------------------
\* The inductive invariant: the packets are apart, or one is in two hands.
Steady == \E R : Good(s, {}, R)

\* A step keeps it, and what a step shares had been scheduled after it was freed.
LEMMA SteadyStep ==
  ASSUME Steady, [Next]_s
  PROVE  Steady' /\ (~s.shared /\ s'.shared => s.reused # {})
<1>1. PICK R : Good(s, {}, R)
  BY DEF Steady
<1>2. Outcome(s', R)
  BY <1>1, StepGood
<1>3. Steady'
  BY <1>2 DEF Outcome, Steady
<1>4. ASSUME ~s.shared, s'.shared PROVE s.reused # {}
  <2>1. Good(s, {}, s.reused)
    BY <1>1, <1>4 DEF Good
  <2>2. Outcome(s', s.reused)
    BY <2>1, StepGood
  <2>3. s'.shared = TRUE
    BY <1>4, <2>2 DEF Outcome, Good, Apart, Parts
  <2> QED BY <2>2, <2>3 DEF Outcome
<1> QED BY <1>3, <1>4

\* It holds at every moment.
LEMMA AlwaysSteady == Spec => []Steady
<1>1. Init => Steady
  BY InitGood DEF Steady
<1>2. Steady /\ [Next]_s => Steady'
  BY SteadyStep
<1> QED BY <1>1, <1>2, PTL DEF Spec

\* The accounts as the property states them.
LEMMA ApartMeansOneOwner == Apart(s, {}) => OneOwner
<1> SUFFICES ASSUME Apart(s, {}), NEW p \in Packets
             PROVE  /\ p \in Range(s.free) <=> p <= s.made /\ ~s.fflag[p]
                    /\ Times(p) = (IF s.uid[p] > 0 THEN 1 ELSE 0)
                    /\ s.fflag[p] => Hands(p) = 1
                    /\ ~s.fflag[p] => /\ Hands(p) <= (IF p \in s.reused THEN 1 ELSE 0)
                                      /\ p \notin s.queue
  BY DEF OneOwner
<1>1. Owned(s, {}, p)
  BY Flagged
<1> DEFINE I == {i \in DOMAIN s.now : s.now[i] = p}
           l == IF BagIn(p, s.later) THEN s.later[p] ELSE 0
           W == {w \in Places : << w, p >> \in s.held}
<1>2. Cardinality(I) = IF p \in Range(s.now) THEN 1 ELSE 0
  <2>1. IsInjective(s.now)
    BY DEF Apart, Parts, Lists
  <2>2. CASE p \in Range(s.now)
    <3>1. PICK i \in DOMAIN s.now : s.now[i] = p
      BY <2>2 DEF Range
    <3>2. I = {i}
      BY <2>1, <3>1 DEF IsInjective
    <3> HIDE DEF I
    <3> QED BY <2>2, <3>2, FS_Singleton
  <2>3. CASE p \notin Range(s.now)
    <3>1. I = {}
      BY <2>3 DEF Range
    <3> HIDE DEF I
    <3> QED BY <2>3, <3>1, FS_EmptySet
  <2> QED BY <2>2, <2>3
<1>3. l = IF p \in DOMAIN s.later THEN 1 ELSE 0
  <2>1. s.later = [q \in DOMAIN s.later |-> 1]
    BY DEF Apart, Parts, Events
  <2> QED BY <2>1 DEF BagIn, BagToSet
<1>4. Cardinality(W) = IF IsHeld(s, p) THEN 1 ELSE 0
  <2>1. CASE IsHeld(s, p)
    <3>1. PICK w \in Places : << w, p >> \in s.held
      BY <2>1 DEF IsHeld
    <3>2. W = {w}
      BY <1>1, <3>1 DEF Owned
    <3> HIDE DEF W
    <3> QED BY <2>1, <3>2, FS_Singleton
  <2>2. CASE ~IsHeld(s, p)
    <3>1. W = {}
      BY <2>2 DEF IsHeld
    <3> HIDE DEF W
    <3> QED BY <2>2, <3>1, FS_EmptySet
  <2> QED BY <2>1, <2>2
<1>5. Times(p) = Cardinality(I) + l
  BY DEF Times
<1>6. Hands(p) = Times(p) + Cardinality(W) + (IF p \in s.queue THEN 1 ELSE 0)
  BY DEF Hands
<1> HIDE DEF I, l, W
<1>7. Times(p) = IF InEvents(s, p) THEN 1 ELSE 0
  BY <1>1, <1>2, <1>3, <1>5 DEF Owned, InEvents
<1>8. Hands(p) = IF InEvents(s, p) \/ IsHeld(s, p) \/ p \in s.queue THEN 1 ELSE 0
  BY <1>1, <1>4, <1>6, <1>7 DEF Owned
<1> QED BY <1>1, <1>7, <1>8 DEF Owned

\* Neither check of ns-2's event list stops the program before a packet has
\* come into two hands, whatever the handlers and the interfaces release, drop,
\* answer, copy or give up (packet.h, scheduler.cc).
THEOREM NothingStopsUntilShared == Spec => []SoundUntilShared
<1>1. Steady => SoundUntilShared
  BY DEF Steady, Good, Apart, Parts, SoundUntilShared, EventUidValid
<1> QED BY <1>1, AlwaysSteady, PTL

\* Until then the free list, the event list, the queue of ASPU and the
\* interfaces share the packets out: no handler of src/aspu.cc loses a packet,
\* or keeps one that it gave away.
THEOREM PacketsHaveOneOwner == Spec => []OneOwner
<1>1. Steady => OneOwner
  <2>1. ASSUME NEW R, Good(s, {}, R) PROVE OneOwner
    BY <2>1, ApartMeansOneOwner DEF Good, OneOwner
  <2> QED BY <2>1 DEF Steady
<1> QED BY <1>1, AlwaysSteady, PTL

\* Only a packet that recvHello or recvDabr has scheduled after freeing it ever
\* comes into two hands.
THEOREM SharingIsReuse == Spec => OnlyReusedIsShared
<1>1. Steady /\ [Next]_s => [~s.shared /\ s'.shared => s.reused # {}]_s
  BY SteadyStep
<1> QED BY <1>1, AlwaysSteady, PTL DEF Spec, OnlyReusedIsShared
=============================================================================
