---------------------------- MODULE AspuPackets -----------------------------
(***************************************************************************)
(* Who owns a packet.  The handlers of src/aspu.cc share one pool of       *)
(* packets (Packet::alloc, Packet::free) and one event list                *)
(* (Scheduler::schedule) with the interfaces of all nodes, and a packet is *)
(* an event.  The uid_ of an event is positive while it is in the list and *)
(* negated when it is dispatched; ns-2 stops when an event is scheduled or *)
(* freed whose uid_ is positive.                                           *)
(*                                                                         *)
(* Of a handler only what it does with packets is left: it schedules,      *)
(* frees or queues the one it got, answers it with another one, and        *)
(* forwards those that wait for what it learnt.  Of an interface (LL, ARP, *)
(* the queue, Mac802_11, the channel) the same: it holds a packet by a     *)
(* pointer, schedules it, copies it and frees it.                          *)
(*                                                                         *)
(* recvHello and recvDabr schedule the packet that they have just freed.   *)
(* It is then in the free list and in the event list, and nothing worse    *)
(* has happened yet.  That comes when the pool hands it out again before   *)
(* the interface has done with it, or when a queue of the interface links  *)
(* it by the field next_ that links the free list too.                     *)
(*                                                                         *)
(* The state s of the simulator is a record:                               *)
(*   made, free     how many packets exist; the free list                  *)
(*   fflag, uid     of every packet: fflag_; the sign of uid_               *)
(*   kind, handler  of every packet: the message in it; handler_           *)
(*   now, later     the event list: events of delay 0, in order, and       *)
(*                  those of the interfaces, in any order                  *)
(*   queue          the packets that wait for an address in a node         *)
(*   held           those that an interface has a pointer to, each with    *)
(*                  the place: ARP, the queue and MAC, or the receiver     *)
(*   fault          why the program stopped                                *)
(* and two parts for the properties only:                                  *)
(*   reused         the packets scheduled after they were freed, until the *)
(*                  pool hands them out                                    *)
(*   shared         whether a packet has come into two hands               *)
(***************************************************************************)
EXTENDS Integers, Bags, FiniteSets, SequencesExt

CONSTANTS
  MaxPackets,       \* bound: the objects that the pool makes
  ASPU_QUEUE_LEN,
  Kinds,            \* the control messages that nodes send of their own
  GoOn              \* whether the model goes on when a packet is shared, until
                    \* a list is damaged

ASSUME PacketsAssumption ==
  /\ MaxPackets \in Nat /\ ASPU_QUEUE_LEN \in Nat \ {0}
  /\ Kinds \subseteq {"HELLO", "DARQ", "DAUP", "DABR"} /\ GoOn \in BOOLEAN

VARIABLE s

Packets == 1 .. MaxPackets

Places == {"arp", "mac", "phy"}

Init ==
  s = [made |-> 0, free |-> << >>, fflag |-> [p \in Packets |-> FALSE],
       uid |-> [p \in Packets |-> 0], kind |-> [p \in Packets |-> "DATA"],
       handler |-> [p \in Packets |-> "recv"], now |-> << >>, later |-> EmptyBag,
       queue |-> {}, held |-> {}, fault |-> "", reused |-> {}, shared |-> FALSE]

(***************************************************************************)
(* Packet and Scheduler.                                                   *)
(***************************************************************************)
CanAlloc(h) == h.free # << >> \/ h.made < MaxPackets

\* The packet that the next alloc returns.
Fresh(h) == IF h.free # << >> THEN Head(h.free) ELSE h.made + 1

Busy(h, p) == h.uid[p] > 0 \/ p \in h.queue \/ \E w \in Places : << w, p >> \in h.held

Alloc(h, k) ==
  LET p == Fresh(h)
  IN [h EXCEPT !.made = IF h.free # << >> THEN @ ELSE p,
               !.free = IF @ # << >> THEN Tail(@) ELSE @,
               !.fflag[p] = TRUE, !.uid[p] = 0, !.kind[p] = k,
               !.reused = @ \ {p}, !.shared = @ \/ Busy(h, p)]

\* Packets whose fflag_ is set, one after another.  The headers are zeroed;
\* packet type 0 is a type of data.
FreeAll(h, order) ==
  IF \E p \in Range(order) : h.uid[p] > 0 THEN [h EXCEPT !.fault = "assert(p->uid_ <= 0)"]
  ELSE [h EXCEPT !.free = order \o @,
                 !.fflag = [p \in Packets |-> @[p] /\ p \notin Range(order)],
                 !.kind = [p \in Packets |-> IF p \in Range(order) THEN "DATA" ELSE @[p]]]

Free(h, p) == IF h.fflag[p] THEN FreeAll(h, << p >>) ELSE h

\* Packets become events: their uid_ is positive then, or the program stops.
Marked(h, P, to) ==
  IF \E p \in P : h.uid[p] > 0 THEN [h EXCEPT !.fault = "Event UID not valid!"]
  ELSE [h EXCEPT !.uid = [p \in Packets |-> IF p \in P THEN 1 ELSE @[p]],
                 !.handler = [p \in Packets |-> IF p \in P THEN to ELSE @[p]]]

\* schedule(target_, p, 0.0), for the packets of a sequence one after another,
\* and the same of an interface with its own delay.
ScheduleAll(h, order) == [Marked(h, Range(order), "target") EXCEPT !.now = @ \o order]

Schedule(h, p) == ScheduleAll(h, << p >>)

ScheduleLater(h, p, to) == [Marked(h, {p}, to) EXCEPT !.later = @ (+) SetToBag({p})]

Dispatch(h, p) ==
  IF h.now # << >> /\ p = Head(h.now)
  THEN [h EXCEPT !.now = Tail(@), !.uid[p] = -@]
  ELSE [h EXCEPT !.later = @ (-) SetToBag({p}), !.uid[p] = -@]

\* The events that Scheduler::run may take next: another one may be due at the
\* time of those of delay 0.
Due(h) == (IF h.now # << >> THEN {Head(h.now)} ELSE {}) \cup BagToSet(h.later)

(***************************************************************************)
(* What the handlers of the agent do with the packet p.                    *)
(***************************************************************************)
\* forward, and the ends of recvDarq, recvDarp and recvDaup: the packet goes
\* on, or it is done.
RelayOrDrop(h, p) == {Schedule(h, p), Free(h, p)}

\* (Mutant: deque leaves them in the queue.)
ReleasedKeeping(h, R, D) ==
  UNION {{ScheduleAll(FreeAll(h, dropped), sent) : sent \in SetToSeqs(R \ D)} :
           dropped \in SetToSeqs({p \in D : h.fflag[p]})}

\* addEntry: packets that wait are dequeued and forwarded, in any order; those
\* of D are dropped there.  What two of them do to the lists does not overlap.
Released(h, R, D) ==
  LET g == [h EXCEPT !.queue = @ \ (R \cup D)]
  IN UNION {{ScheduleAll(FreeAll(g, dropped), sent) : sent \in SetToSeqs(R \ D)} :
              dropped \in SetToSeqs({p \in D : h.fflag[p]})}

\* All that the addEntry calls of a handler may come to.
Learnt(h) == UNION {Released(h, R, D) : R \in SUBSET h.queue, D \in SUBSET h.queue}

Forward(h, p) == UNION {RelayOrDrop(g, p) : g \in Learnt(h)}

MacFailed(h, p) == {Free(h, p)} \cup Forward(h, p)

\* ASPUQueue::enque; a full queue drops a packet.
Enque(h, p) ==
  LET room == IF Cardinality(h.queue) < ASPU_QUEUE_LEN THEN {h}
              ELSE {Free([h EXCEPT !.queue = @ \ {q}], q) : q \in h.queue}
  IN {[g EXCEPT !.queue = @ \cup {p}] : g \in room}

\* sendHello, sendDarq, sendDaup, sendDabr.
Sent(h, k) == IF CanAlloc(h) THEN {Schedule(Alloc(h, k), Fresh(h))} ELSE {}

\* (Mutants: sendDarp writes the answer over the request; it keeps the request.)
AnswerInPlace(h, p) == {Schedule(Free(h, p), p)}

AnswerKeeping(h, p) == IF CanAlloc(h) THEN {Schedule(Alloc(h, "DARP"), Fresh(h))} ELSE {}

\* sendDarp.
Answer(h, p) == IF CanAlloc(h) THEN {Schedule(Free(Alloc(h, "DARP"), p), Fresh(h))} ELSE {}

\* recvHello and recvDabr.
FreeAndSchedule(h, p) == {Schedule([Free(h, p) EXCEPT !.reused = @ \cup {p}], p)}

Handled(h, p) ==
  CASE h.kind[p] \in {"HELLO", "DABR"} -> FreeAndSchedule(h, p)
    [] h.kind[p] = "DARQ" -> RelayOrDrop(h, p) \cup Answer(h, p)
    [] OTHER -> RelayOrDrop(h, p)

Recv(p) ==
  /\ s.handler[p] = "recv"
  /\ \E h \in Learnt(Dispatch(s, p)) : s' \in Handled(h, p)

\* The timers of a node: addEntry of its own address, and what it sends.
Send(k) == \E h \in Learnt(s) : s' \in {h} \cup Sent(h, k)

\* ASPU::recv of an application's packet: format.
Format ==
  /\ CanAlloc(s)
  /\ LET h == Alloc(s, "DATA")
         p == Fresh(s)
     IN s' \in Forward(h, p) \cup UNION {{g} \cup Sent(g, "DARQ") : g \in Enque(h, p)}

(***************************************************************************)
(* The interface.                                                          *)
(***************************************************************************)
Hold(h, w, p) == [h EXCEPT !.held = @ \cup {<< w, p >>}]

LetGo(h, w, p) == [h EXCEPT !.held = @ \ {<< w, p >>}]

\* The callback that forward puts into data packets (the model leaves it out
\* when a packet is shared).
Failed(h, p) == IF h.kind[p] = "DATA" /\ h.fflag[p] /\ ~h.shared THEN MacFailed(h, p) ELSE {}

\* ARPTable::arprequest.
Asked(h) == IF CanAlloc(h) THEN ScheduleLater(Alloc(h, "ARP"), Fresh(h), "ifq") ELSE h

\* LL::recv of a packet that goes down: it goes to the queue, or ARP drops it,
\* gives it up, or keeps it and asks for the receiver.
Target(p) ==
  /\ s.handler[p] = "target"
  /\ LET h == Dispatch(s, p)
     IN s' \in {ScheduleLater(h, p, "ifq"), Free(h, p), Asked(Hold(h, "arp", p))} \cup Failed(h, p)

\* The packet that ARP keeps.
Resolve(p) ==
  /\ << "arp", p >> \in s.held
  /\ LET h == LetGo(s, "arp", p)
     IN s' \in {Free(h, p), ScheduleLater(h, p, "ifq")} \cup Failed(h, p)

\* Queue::recv links the packet to the others, or drops it.
Linked(h, p) ==
  LET g == Hold(h, "mac", p) IN IF h.fflag[p] THEN g ELSE [g EXCEPT !.shared = TRUE]

Queued(p) ==
  /\ s.handler[p] = "ifq"
  /\ LET h == Dispatch(s, p) IN s' \in {Free(h, p), Linked(h, p)}

\* Mac802_11::transmit hands a copy to the channel, which frees it when it has
\* scheduled a copy of it at a receiver, if there is one.
Transmit(p) ==
  /\ << "mac", p >> \in s.held /\ CanAlloc(s)
  /\ LET k == s.kind[p]
         h == Alloc(s, k)
         copy == Fresh(s)
     IN \/ s' = Free(h, copy)
        \/ CanAlloc(h) /\ s' = Free(ScheduleLater(Alloc(h, k), Fresh(h), "netif"), copy)

\* The packet was acknowledged, or it is given up, and a copy returned.
Done(p) ==
  /\ << "mac", p >> \in s.held
  /\ \/ s' = Free(LetGo(s, "mac", p), p)
     \/ /\ CanAlloc(s) /\ s.kind[p] = "DATA"
        /\ LET h == LetGo(Alloc(s, "DATA"), "mac", p)
           IN \E g \in Failed(h, Fresh(s)) : s' = Free(g, p)

\* WirelessPhy and Mac802_11 drop what they receive, or keep it for its time.
Arrive(p) ==
  /\ s.handler[p] = "netif"
  /\ LET h == Dispatch(s, p) IN s' \in {Free(h, p), Hold(h, "phy", p)}

\* It is dropped or goes up; ARP may send its own back as an answer.
Received(p) ==
  /\ << "phy", p >> \in s.held
  /\ LET h == LetGo(s, "phy", p)
         to == IF s.kind[p] = "ARP" THEN "ifq" ELSE "recv"
     IN s' \in {Free(h, p), ScheduleLater(h, p, to)}

Times(p) ==
  Cardinality({i \in DOMAIN s.now : s.now[i] = p}) + (IF BagIn(p, s.later) THEN s.later[p] ELSE 0)

\* A packet that is in the event list twice, or linked in two lists.
Damaged == \E p \in Packets : Times(p) > 1 \/ (<< "mac", p >> \in s.held /\ p \in Range(s.free))

Next ==
  /\ s.fault = "" /\ (s.shared => GoOn /\ ~Damaged)
  /\ \/ \E p \in Due(s) : Recv(p) \/ Target(p) \/ Queued(p) \/ Arrive(p)
     \/ \E p \in Packets : Resolve(p) \/ Transmit(p) \/ Done(p) \/ Received(p)
     \/ \E k \in Kinds : Send(k)
     \/ Format

Spec == Init /\ [][Next]_s
-----------------------------------------------------------------------------
\* The two checks of ns-2 that a packet is not freed while it is in the event
\* list (packet.h, "assert(p->uid_ <= 0)") and not scheduled while it is
\* (scheduler.cc, "Event UID not valid!") never stop the program.
EventUidValid == s.fault = ""

\* Neither of them stops it before a packet has come into two hands.
SoundUntilShared == s.shared \/ EventUidValid

\* Until then every packet made has one owner: the free list, the event list,
\* where it is once, the queue of a node, or one place of an interface; fflag_
\* and uid_ say which.  Only a packet that recvHello or recvDabr has scheduled
\* is still on its way while it is in the free list, and never in a queue.
Hands(p) ==
  Times(p) + Cardinality({w \in Places : << w, p >> \in s.held}) + (IF p \in s.queue THEN 1 ELSE 0)

OneOwner ==
  s.shared \/
  \A p \in Packets :
     /\ p \in Range(s.free) <=> p <= s.made /\ ~s.fflag[p]
     /\ Times(p) = (IF s.uid[p] > 0 THEN 1 ELSE 0)
     /\ s.fflag[p] => Hands(p) = 1
     /\ ~s.fflag[p] => Hands(p) <= (IF p \in s.reused THEN 1 ELSE 0) /\ p \notin s.queue

\* A packet comes into two hands only if recvHello or recvDabr has scheduled one
\* that it had freed: whatever the other handlers release, drop, answer or
\* queue, they never share a packet with the pool or with each other.
OnlyReusedIsShared == [][~s.shared /\ s'.shared => s.reused # {}]_s
=============================================================================
