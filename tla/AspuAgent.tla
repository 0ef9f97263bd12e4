----------------------------- MODULE AspuAgent ------------------------------
(***************************************************************************)
(* One ASPU routing agent in an open environment: applications that send,  *)
(* neighbours that relay data and send control messages, an interface that *)
(* transmits or fails, the address and the routing table that NDP comes up *)
(* with, and the timers of the agent.  Every action is one event that the  *)
(* ns-2 scheduler dispatches to the agent.                                 *)
(***************************************************************************)
EXTENDS AspuNode

CONSTANTS
  Self,                     \* the node
  LocalDsts,                \* destinations of the node's own applications
  Transit,                  \* headers of data packets that neighbours relay
  Hellos, Darqs, Darps, Daups, Dabrs,   \* control messages that may arrive
  Tables,                   \* routing tables that NDP may build
  NewAddrs,                 \* addresses that NDP may select
  ASPU_DHT_PURGE_INTERVAL

ASSUME AgentAssumption ==
  /\ Self \in Ids
  /\ LocalDsts \subseteq (Ids \cup {IP_BROADCAST}) \ {Self}
  /\ ASPU_DHT_PURGE_INTERVAL \in Nat \ {0}
  /\ NewAddrs \subseteq Addrs
  /\ \A t \in Tables : /\ t \subseteq RoutingEntry /\ OneEntryPerAddress(t)
                        /\ \A e \in t : ~e.macFailed
  /\ \A h \in Transit : /\ h.dst \in Ids \cup {IP_BROADCAST} /\ h.dstAdd \in Addrs
                        /\ h.src \in Ids /\ h.srcAdd \in Addrs
                        /\ h.forId \in Ids /\ h.forAdd \in Addrs /\ h.ttl \in Nat
  /\ \A m \in Hellos : m.src \in Ids /\ m.srcAdd \in Addrs
  /\ Darqs \subseteq [type : {"DARQ"}, to : Ids, src : Ids, srcAdd : Addrs, forId : Ids,
                     forAdd : Addrs, dstAdd : Addrs, req : Ids]
  /\ Darps \subseteq [type : {"DARP"}, to : Ids, src : Ids, srcAdd : Addrs, forId : Ids,
                     forAdd : Addrs, dst : Ids, dstAdd : Addrs, req : Ids, reqAdd : Addrs]
  /\ Daups \subseteq [type : {"DAUP"}, to : Ids, src : Ids, srcAdd : Addrs, forId : Ids,
                     forAdd : Addrs, dstAdd : Addrs]
  /\ Dabrs \subseteq Seq([id : Ids, add : Addrs, age : Int])

VARIABLES
  now,          \* Scheduler::clock(), in units of ADP_DARQ_CHECK_FREQ
  address, dht, queue, pkt, table, out,     \* see AspuNode
  nextUid,      \* the uid of the next data packet
  dabr,         \* the entries of a DABR that recvDabr has not yet read
  checks,       \* which of ADPDaupTimer, ADPDarqTimer have run at this time
  purgeAt,      \* when DHTTimer is due
  counter       \* DHTTimer::counter

node == <<address, dht, queue, pkt, table, out>>
vars == <<now, node, nextUid, dabr, checks, purgeAt, counter>>

S == [id |-> Self, now |-> now, address |-> address, dht |-> dht, queue |-> queue,
      pkt |-> pkt, table |-> table, out |-> << >>]

Become(s) ==
  /\ address' = s.address /\ dht' = s.dht /\ queue' = s.queue
  /\ pkt' = s.pkt /\ table' = s.table /\ out' = s.out

\* The agent is single-threaded: nothing runs while recvDabr does.
Idle == dabr = << >>

\* The timers of ADP and DHT run once in their constructors, where they only
\* count: the first checkDarq is one period away, the first purge three calls.
Init ==
  /\ now = 0
  /\ address = ZeroAdd
  /\ dht = [x \in {} |-> 0]
  /\ queue = {}
  /\ pkt = [u \in Uids |-> Blank]
  /\ table = {}
  /\ out = << >>
  /\ nextUid = 1
  /\ dabr = << >>
  /\ checks = {"daup", "darq"}
  /\ purgeAt = ASPU_DHT_PURGE_INTERVAL
  /\ counter = 1

Born(s, p) == [s EXCEPT !.pkt[nextUid] = p]

NewPacket == Idle /\ nextUid \in Uids /\ nextUid' = nextUid + 1

\* ASPU::recv of a data packet of the node's own: format.
RecvLocal(d) ==
  /\ NewPacket
  /\ Become(Format(Born(S, [Blank EXCEPT !.dst = d, !.src = Self, !.fate = "new"]), nextUid))
  /\ UNCHANGED <<now, dabr, checks, purgeAt, counter>>

(***************************************************************************)
(* ASPU::recv of a data packet that a neighbour sent.                      *)
(***************************************************************************)
Relayed(h) ==
  [Blank EXCEPT !.dst = h.dst, !.dstAdd = h.dstAdd, !.src = h.src, !.srcAdd = h.srcAdd,
                !.forId = h.forId, !.forAdd = h.forAdd, !.up = TRUE, !.fate = "new"]

\* (Mutant: a packet of the node's own that comes back is sent as if new.)
RecvDataNoLoop(s, h) ==
  IF h.src = s.id THEN Format(Born(s, [Relayed(h) EXCEPT !.up = FALSE]), nextUid)
  ELSE IF h.ttl - 1 = 0 THEN Born(s, [Relayed(h) EXCEPT !.fate = "DROP_RTR_TTL"])
  ELSE Forward(Born(s, Relayed(h)), nextUid)

RecvData(s, h) ==
  IF h.src = s.id THEN Born(s, [Relayed(h) EXCEPT !.fate = "DROP_RTR_ROUTE_LOOP"])
  ELSE IF h.ttl - 1 = 0 THEN Born(s, [Relayed(h) EXCEPT !.fate = "DROP_RTR_TTL"])
  ELSE Forward(Born(s, Relayed(h)), nextUid)

RecvTransit(h) ==
  /\ NewPacket
  /\ Become(RecvData(S, h))
  /\ UNCHANGED <<now, dabr, checks, purgeAt, counter>>

\* The interface reports that it could not deliver packet u to its next hop.
MacFailed(u) ==
  /\ Idle
  /\ pkt[u].fate = "mac"
  /\ Become(LinkFailed(S, u))
  /\ UNCHANGED <<now, nextUid, dabr, checks, purgeAt, counter>>

\* The interface delivered it: no callback, the packet is not seen again.
MacDone(u) ==
  /\ Idle
  /\ pkt[u].fate = "mac"
  /\ Become([S EXCEPT !.pkt[u].fate = "sent"])
  /\ UNCHANGED <<now, nextUid, dabr, checks, purgeAt, counter>>

(***************************************************************************)
(* recvASPU.  The neighbour table that a HELLO also updates shows in this  *)
(* module only through the tables that AspuTimer installs.                 *)
(***************************************************************************)
RecvControl(s) ==
  /\ Idle
  /\ Become(s)
  /\ UNCHANGED <<now, nextUid, dabr, checks, purgeAt, counter>>

\* (Mutant: caches dstAdd_, which is DATYPE_BROADCAST, for srcAdd_.)
RecvHelloDst(m) == RecvControl(AddEntry(S, m.src, NoAdd))

RecvHello(m) == RecvControl(AddEntry(S, m.src, m.srcAdd))

RecvDARQ(m) == RecvControl(RecvDarq(S, m))

RecvDARP(m) == RecvControl(RecvDarp(S, m))

RecvDAUP(m) == RecvControl(RecvDaup(S, m))

\* recvDabr reads the entries of the message one by one, in the order in which
\* the sender's std::set<DHT_Entry*> held them: the order of their pointers.
RecvDABR(m) ==
  /\ Idle /\ m # << >>
  /\ dabr' = m
  /\ Become(S)
  /\ UNCHANGED <<now, nextUid, checks, purgeAt, counter>>

\* An entry keeps the sender's expiry, given here by its distance from now.
Expiry(e) == IF now + e.age >= 0 THEN now + e.age ELSE 0

DabrEntry ==
  /\ dabr # << >>
  /\ Become(AddEntryUntil(S, Head(dabr).id, Head(dabr).add, Expiry(Head(dabr))))
  /\ dabr' = Tail(dabr)
  /\ UNCHANGED <<now, nextUid, checks, purgeAt, counter>>

(***************************************************************************)
(* ASPUTimer: NDP validates the address, selects another one if it must,   *)
(* and builds the routing table anew.  Which address and which table is    *)
(* the environment's choice; an entry leads out of the node's own subtree. *)
(* updateAdd runs on a half-built table, here the empty one: it reads      *)
(* none, since no packet of the queue is for the node itself.              *)
(***************************************************************************)
TableFor(a, t) == \A e \in t : e.nextHopAdd # a /\ e.level >= DiffBit(a, e.nextHopAdd)

AddressKept(t) ==
  /\ Idle
  /\ TableFor(address, t)
  /\ Become([S EXCEPT !.table = t])
  /\ UNCHANGED <<now, nextUid, dabr, checks, purgeAt, counter>>

AddressSelected(a, t) ==
  /\ Idle
  /\ TableFor(a, t)
  /\ Become([UpdateAdd([S EXCEPT !.address = a, !.table = {}]) EXCEPT !.table = t])
  /\ UNCHANGED <<now, nextUid, dabr, checks, purgeAt, counter>>

(***************************************************************************)
(* The other timers.  ADPDaupTimer and ADPDarqTimer both call checkDarq.   *)
(***************************************************************************)
DarqTimer(t) ==
  /\ Idle
  /\ t \notin checks
  /\ checks' = checks \cup {t}
  /\ Become(CheckDarq(S))
  /\ UNCHANGED <<now, nextUid, dabr, purgeAt, counter>>

DHTTimer ==
  /\ Idle
  /\ now = purgeAt
  /\ purgeAt' = purgeAt + ASPU_DHT_PURGE_INTERVAL
  /\ counter' = IF counter > 1 THEN counter ELSE counter + 1
  /\ Become([S EXCEPT !.dht = IF counter > 1 THEN DHTPurged(@, now) ELSE @])
  /\ UNCHANGED <<now, nextUid, dabr, checks>>

\* Time passes when every timer that is due has run.
Tick ==
  /\ Idle
  /\ checks = {"daup", "darq"} /\ now < purgeAt /\ now < MaxTime
  /\ now' = now + 1
  /\ checks' = {}
  /\ Become(S)
  /\ UNCHANGED <<nextUid, dabr, purgeAt, counter>>

Next ==
  \/ \E d \in LocalDsts : RecvLocal(d)
  \/ \E h \in Transit : RecvTransit(h)
  \/ \E u \in Uids : MacFailed(u) \/ MacDone(u)
  \/ \E m \in Hellos : RecvHello(m)
  \/ \E m \in Darqs : RecvDARQ(m)
  \/ \E m \in Darps : RecvDARP(m)
  \/ \E m \in Daups : RecvDAUP(m)
  \/ \E m \in Dabrs : RecvDABR(m)
  \/ DabrEntry
  \/ \E t \in Tables : AddressKept(t)
  \/ \E a \in NewAddrs, t \in Tables : AddressSelected(a, t)
  \/ \E t \in {"daup", "darq"} : DarqTimer(t)
  \/ DHTTimer
  \/ Tick

Spec == Init /\ [][Next]_vars

(***************************************************************************)
(* Properties.                                                             *)
(***************************************************************************)
Timers == {"daup", "darq"}

\* Every variable has its type: the cache maps identifiers to addresses, the
\* queue holds packets that arrived, headers are headers.
TypeOK ==
  /\ now \in Nat /\ now <= MaxTime
  /\ address \in Addrs
  /\ DOMAIN dht \subseteq Ids /\ dht \in [DOMAIN dht -> DHT_Entry]
  /\ queue \subseteq Uids
  /\ pkt \in [Uids -> Header]
  /\ table \subseteq RoutingEntry
  /\ nextUid \in 1 .. (MaxPkts + 1)
  /\ dabr \in Seq([id : Ids, add : Addrs, age : Int])
  /\ checks \subseteq Timers
  /\ purgeAt \in Nat /\ counter \in 1 .. 2

\* No packet waits for an address that the cache holds.  ADP::addEntry, which
\* also runs nested in its own forward calls, leaves no packet behind for any
\* identifier it writes, and format queues only for identifiers it misses.
NoWaitingForKnown == \A u \in queue : pkt[u].dst \notin DOMAIN dht

\* The queue holds exactly the packets nobody else holds or disposed of: format
\* puts a packet in, and addEntry or removeHead takes it out as it changes hands.
\* The queue never exceeds ASPU_QUEUE_LEN.
QueueOwnsItsPackets ==
  /\ queue = {u \in Uids : pkt[u].fate = "queued"}
  /\ Cardinality(queue) <= ASPU_QUEUE_LEN
  /\ \A u \in Uids : pkt[u].fate = "unborn" <=> u >= nextUid

\* A packet in the queue is one of the node's own, to another node, that no one
\* ever forwarded.  So the addEntry(forId_, forAdd_) of its first forward is
\* addEntry(0, 0), whatever node 0's address really is.
QueuedIsFresh ==
  \A u \in queue :
    /\ pkt[u].src = Self /\ pkt[u].dst # Self
    /\ pkt[u].forId = 0 /\ pkt[u].forAdd = ZeroAdd
    /\ pkt[u].txCount = 0 /\ ~pkt[u].up

DataOut == {i \in DOMAIN out : out[i].type = "DATA"}

\* One event hands a packet to the interface at most once, although forward and
\* addEntry call each other: ns-2 aborts on an event that is scheduled twice.
ScheduledOnce ==
  \A i, j \in DataOut : out[i].uid = out[j].uid => i = j

\* A next hop that the interface reported dead is not used again, for any packet
\* and on any level of the table, until NDP rebuilds the routing table.
NoFailedHopUsed ==
  \A i \in DataOut : \A e \in table : e.nextHopId = out[i].to => ~e.macFailed

\* Sending a data packet renews the cache entry of its destination, and writes
\* back into it the address from the packet's header, however old that is: an
\* entry that is used never expires, and a retransmission can bring back an
\* address that a newer message had replaced.  (The address: of the node's own
\* packets, not released from the queue, to another node than node 0.)
TrafficTeaches ==
  \A i \in DOMAIN out' : out'[i].type = "DATA" =>
    LET u == out'[i].uid
        p == pkt'[u]
    IN /\ p.dst \in DOMAIN dht'
       /\ dht'[p.dst].expire = now' + ASPU_DHT_ENTRY_TIMEOUT
       /\ u \notin queue /\ p.src = Self /\ p.dst # 0 => dht'[p.dst].add = p.dstAdd

CacheFollowsTraffic == [][TrafficTeaches]_vars

\* The waiting packets of a destination are sent newest first: each is taken
\* from the queue, in order, before the one taken earlier is scheduled.
NewestSentFirst ==
  \A i, j \in DOMAIN out' :
    LET u == out'[i].uid
        v == out'[j].uid
    IN (/\ out'[i].type = "DATA" /\ out'[j].type = "DATA"
        /\ u \in queue /\ v \in queue /\ pkt[u].dst = pkt[v].dst
        /\ i < j) => u > v

ReleaseNewestFirst == [][NewestSentFirst]_vars

\* A request for an address is sent, repeated or relayed only while the node
\* itself does not know the address, and only to a neighbour that its table holds
\* a working entry for: checkDarq and recvDarq never ask in vain.
RequestsAreNeeded ==
  \A i \in DOMAIN out : out[i].type = "DARQ" =>
    /\ out[i].req \notin DOMAIN dht
    /\ \E e \in table : e.nextHopId = out[i].to /\ ~e.macFailed

\* The k-th retry of a request waits k - 1 back-off periods: lifetime_ is never
\* earlier than the time of queueing plus the first timeout plus the sum of the
\* back-offs so far.
BackoffGrows ==
  \A u \in queue :
    2 * (pkt[u].lifetime - (pkt[u].ts - ASPU_QUEUE_TIMEOUT) - ADP_DARQ_TIMEOUT)
      >= ADP_DARQ_EB_TIMEOUT * (pkt[u].darqCount * (pkt[u].darqCount - 1))

\* When both timers have run no waiting packet is overdue for a request.  The
\* first back-off is of length zero and the timers run at the same instants, so
\* the first two retries always go out together: no packet is left with one.
RetriesOnTime ==
  checks = Timers => \A u \in queue : pkt[u].lifetime > now /\ pkt[u].darqCount # 1

\* An entry outlives its expiry by two purge intervals at most, or by one more than
\* the expiries that neighbours announce in DABRs are old, if that is longer: a
\* neighbour announces what it has not purged, past expiries included, and recvDabr
\* takes them over, so along a chain of DABRs an address nobody renews grows older
\* by at most one interval at each hop.
AnnouncedWithin(b) == \A m \in Dabrs : \A i \in DOMAIN m : m[i].age >= -b

DhtStaleBound ==
  \A b \in 0 .. MaxTime : AnnouncedWithin(b) =>
    \A x \in DOMAIN dht :
       \/ now <= dht[x].expire + 2 * ASPU_DHT_PURGE_INTERVAL
       \/ now <= dht[x].expire + ASPU_DHT_PURGE_INTERVAL + b

(***************************************************************************)
(* What the cache and the queue together promise.                          *)
(***************************************************************************)
Resolution == INSTANCE AddressResolution WITH
  Capacity <- ASPU_QUEUE_LEN, known <- DOMAIN dht,
  waiting <- [u \in queue |-> pkt[u].dst]

\* Seen from its applications the agent is an address resolver: packets wait
\* exactly for unknown destinations, and leave the queue only all together when
\* their destination becomes known, or as the oldest when the queue is full.
ImplementsResolution == Resolution!Spec
=============================================================================
