------------------------------ MODULE AspuNode ------------------------------
(***************************************************************************)
(* The handlers of one ASPU node as functions from the state of the node   *)
(* to the state they leave (src/aspu.cc, src/aspu_rtable.cc).  A node is   *)
(* run by the single-threaded ns-2 scheduler, so a handler is atomic; but  *)
(* it makes many nested calls that all write the same objects, and the     *)
(* order of these writes matters.  Passing the state from call to call     *)
(* keeps that order visible.                                               *)
(*                                                                         *)
(* The state s of a node is a record:                                      *)
(*   id       ASPU::id_                                                    *)
(*   address  ASPU::address_                                               *)
(*   now      CURRENT_TIME, the scheduler's clock                          *)
(*   dht      DHT::table_, a function from the identifiers it holds to     *)
(*            their [add, expire]                                          *)
(*   queue    ASPUQueue::queue_, as the set of the uids of the packets in  *)
(*            it: packets are numbered as they arrive and join the queue   *)
(*            at most once, at its back, so the uids give its order        *)
(*   pkt      the header of every data packet the node ever held           *)
(*   table    RoutingTable::table_, the entries of all levels              *)
(*   out      what the handler gave to Scheduler::schedule(target_, ...),  *)
(*            in the order it did                                          *)
(***************************************************************************)
EXTENDS AspuFunction, FiniteSets, Sequences, FiniteSetsExt, SequencesExt

CONSTANTS
  Ids,                      \* identifiers (IP addresses) a header may carry
  NoAdd,                    \* IP_BROADCAST where an address is expected
  MaxPkts,                  \* bound: data packets the node ever sees
  MaxTime,                  \* bound: the scheduler's clock
  macFailed_,               \* the bound Tcl variable: 1 in ns-default.tcl
  ASPU_QUEUE_LEN, ASPU_QUEUE_TIMEOUT, ASPU_DHT_ENTRY_TIMEOUT,
  ADP_DARQ_TIMEOUT, ADP_DARQ_EB_TIMEOUT, MAC_FAILED_ALLOWED_LOSS

ASSUME NodeAssumption ==
  /\ Ids \subseteq Nat /\ 0 \in Ids
  /\ NoAdd \notin Addrs
  /\ MaxPkts \in Nat /\ MaxTime \in Nat
  /\ macFailed_ \in BOOLEAN
  /\ ASPU_QUEUE_LEN \in Nat \ {0}
  /\ ASPU_QUEUE_TIMEOUT \in Nat
  /\ ASPU_DHT_ENTRY_TIMEOUT \in Nat
  /\ ADP_DARQ_TIMEOUT \in Nat
  /\ ADP_DARQ_EB_TIMEOUT \in Nat
  /\ MAC_FAILED_ALLOWED_LOSS \in Nat

Uids == 1 .. MaxPkts

IP_BROADCAST == -1

(***************************************************************************)
(* RoutingTable.  An entry of level i is a way out of the subtree that the *)
(* node shares with the addresses that first differ from its own at bit i. *)
(***************************************************************************)
RoutingEntry ==
  [level : Bits, nextHopAdd : Addrs, nextHopId : Ids, etx : Nat, macFailed : BOOLEAN]

\* The entries of a level are a std::set<RoutingEntry*, setCompare>.
OneEntryPerAddress(t) ==
  \A e, f \in t : e.level = f.level /\ e.nextHopAdd = f.nextHopAdd => e = f

\* (Mutant: getEntry forgets to look at macFailed().)
UsableIfFailed(s, i) == {e \in s.table : e.level = i}

Usable(s, i) == {e \in s.table : e.level = i /\ ~e.macFailed}

\* One pass over the entries of a level, in the order of setCompare, keeps the
\* first entry that no other beats: closest to dst, then of least etx.
Better(e, f, dst) ==
  LET de == DiffBit(dst, e.nextHopAdd)
      df == DiffBit(dst, f.nextHopAdd)
  IN \/ de < df
     \/ de = df /\ e.etx < f.etx
     \/ de = df /\ e.etx = f.etx /\ Below(e.nextHopAdd, f.nextHopAdd)

Best(E, dst) == CHOOSE e \in E : \A f \in E \ {e} : Better(e, f, dst)

\* getEntry climbs from the level of dst to the first level with an entry that
\* works; DAGetEntry looks at the level of dst only.
LevelsWithin(s, dst, top) ==
  {i \in DiffBit(s.address, dst) .. top : Usable(s, i) # {}}

GetEntry(s, dst) ==
  IF dst = s.address \/ LevelsWithin(s, dst, ADDR_SIZE - 1) = {} THEN IP_BROADCAST
  ELSE Best(Usable(s, Min(LevelsWithin(s, dst, ADDR_SIZE - 1))), dst).nextHopId

DAGetEntry(s, dst) ==
  IF dst = s.address \/ Usable(s, DiffBit(s.address, dst)) = {} THEN IP_BROADCAST
  ELSE Best(Usable(s, DiffBit(s.address, dst)), dst).nextHopId

\* RoutingTable::macFailed marks the neighbour's entries on every level.
TableMacFailed(s, hop) ==
  [s EXCEPT !.table =
     {IF e.nextHopId = hop THEN [e EXCEPT !.macFailed = TRUE, !.etx = @ + 1] ELSE e : e \in @}]

(***************************************************************************)
(* Headers of data packets: hdr_cmn, hdr_ip and hdr_aspu_encp.  fate says  *)
(* who holds the packet: "queued" the ASPUQueue, "mac" the interface that  *)
(* may still report a failure, otherwise how the node was rid of it.       *)
(***************************************************************************)
Held == {"new", "queued", "mac"}

Gone == {"sent", "dmux", "DROP_RTR_DADD", "DROP_RTR_ADPNRT", "DROP_IP_BROADCAST",
         "DROP_RTR_QFULL", "DROP_RTR_QTIMEOUT", "DROP_RTR_TX_COUNT",
         "DROP_RTR_MAC_CALLBACK", "DROP_RTR_ROUTE_LOOP", "DROP_RTR_TTL"}

Header ==
  [dst : Ids \cup {IP_BROADCAST}, dstAdd : Addrs \cup {NoAdd}, src : Ids, srcAdd : Addrs,
   forId : Ids, forAdd : Addrs, up : BOOLEAN, nextHop : Ids \cup {IP_BROADCAST},
   ts : Nat, lifetime : Nat, darqCount : Nat, txCount : Nat,
   fate : Held \cup Gone \cup {"unborn"}]

\* Packet::alloc clears the headers: a packet that was never forwarded carries
\* the forwarder 0 with the address 0.
Blank ==
  [dst |-> 0, dstAdd |-> ZeroAdd, src |-> 0, srcAdd |-> ZeroAdd,
   forId |-> 0, forAdd |-> ZeroAdd, up |-> FALSE, nextHop |-> IP_BROADCAST,
   ts |-> 0, lifetime |-> 0, darqCount |-> 0, txCount |-> 0, fate |-> "unborn"]

Emit(s, m) == [s EXCEPT !.out = Append(@, m)]

Data(u, p) == [type |-> "DATA", uid |-> u, to |-> p.nextHop]

\* The end of ASPU::forward, from the test of dstAdd_ on.
Routed(s, p) ==
  LET nextHop == GetEntry(s, p.dstAdd)
  IN IF p.dstAdd = s.address THEN [p EXCEPT !.up = FALSE, !.fate = "DROP_RTR_DADD"]
     ELSE IF nextHop = IP_BROADCAST THEN [p EXCEPT !.up = FALSE, !.fate = "DROP_RTR_ADPNRT"]
     ELSE [p EXCEPT !.up = FALSE, !.fate = "mac", !.nextHop = nextHop,
                    !.forId = s.id, !.forAdd = s.address]

(***************************************************************************)
(* DHT: the cache of the dynamic addresses of other nodes.                 *)
(***************************************************************************)
DHT_Entry == [add : Addrs, expire : Nat]

FindAdd(s, id) == IF id \in DOMAIN s.dht THEN s.dht[id].add ELSE NoAdd

\* (Mutant: an entry that is there is only prolonged.)
DHTAddEntryOnce(dht, id, address, expire) ==
  [x \in DOMAIN dht \cup {id} |->
     IF x \in DOMAIN dht THEN [dht[x] EXCEPT !.expire = IF x = id THEN expire ELSE @]
     ELSE [add |-> address, expire |-> expire]]

DHTAddEntry(dht, id, address, expire) ==
  [x \in DOMAIN dht \cup {id} |->
     IF x = id THEN [add |-> address, expire |-> expire] ELSE dht[x]]

\* (Mutant: purge takes expire_ for the time of the last use.)
DHTPurgedLate(dht, t) ==
  [x \in {y \in DOMAIN dht : ~(dht[y].expire + ASPU_DHT_ENTRY_TIMEOUT < t)} |-> dht[x]]

\* What DHT::purge leaves at time t.
DHTPurged(dht, t) == [x \in {y \in DOMAIN dht : ~(dht[y].expire < t)} |-> dht[x]]

(***************************************************************************)
(* ADP::addEntry, in both its forms.  It writes the entry and then, while  *)
(* the queue holds a packet for id, takes the first one and forwards it.   *)
(* But forward first calls addEntry again, for the destination, the source *)
(* and the last forwarder that the header names.  The inner call for the   *)
(* destination takes the next packet before the first one is sent, and so  *)
(* on to the last: the packets are sent as the recursion unwinds, newest   *)
(* first.  A packet in the queue was never forwarded, so the call for the  *)
(* last forwarder is addEntry(0, 0): it maps node 0 to address 0 and sends *)
(* there whatever waits for node 0.  The call for the source maps the node *)
(* itself to the address it had when it formatted the packet; the last one *)
(* to do so is the packet that waited longest, or, when it was alone, the  *)
(* one that waited longest for node 0.                                     *)
(*                                                                         *)
(* AddEntryUntil is what the recursion comes to.  The module AspuRecursion *)
(* spells the recursion out, and a run compares the two.                   *)
(***************************************************************************)
\* (Mutant: addEntry takes one packet, "if" for "while".)
WaitingFirst(s, id) ==
  {u \in s.queue : s.pkt[u].dst = id /\ \A v \in s.queue : s.pkt[v].dst = id => u <= v}

Waiting(s, id) == {u \in s.queue : s.pkt[u].dst = id}

\* (Mutants: addEntry(0, 0) finds no packet, or packets already taken.)
ForZeroNone(s, id) == {}

ForZeroTwice(s, id) == Waiting(s, 0)

\* The packets that wait for node 0 and not for id.
ForZero(s, id) == Waiting(s, 0) \ Waiting(s, id)

\* The packets of S in the order in which they joined the queue.  (Mutant of
\* NewestFirst: the loop sends a packet before it takes the next.)
OldestFirst(S) ==
  [i \in 1 .. Cardinality(S) |-> CHOOSE u \in S : Cardinality({v \in S : v <= u}) = i]

NewestFirst(S) == Reverse(OldestFirst(S))

\* What the loop gives to the interface, of the packets P with the headers pkts.
SentOf(P, pkts) ==
  LET sent == NewestFirst({u \in P : pkts[u].fate = "mac"})
  IN [i \in DOMAIN sent |-> Data(sent[i], pkts[sent[i]])]

AddEntryUntil(s, id, address, expire) ==
  LET mine == Waiting(s, id)
      zero == ForZero(s, id)
      fresh == s.now + ASPU_DHT_ENTRY_TIMEOUT
      last == IF zero # {} /\ mine = {Min(mine)} THEN Min(zero) ELSE Min(mine)
      pkts == [u \in Uids |->
                 IF u \in mine THEN Routed(s, [s.pkt[u] EXCEPT !.dstAdd = address])
                 ELSE IF u \in zero THEN Routed(s, [s.pkt[u] EXCEPT !.dstAdd = ZeroAdd])
                 ELSE s.pkt[u]]
  IN IF mine = {}
     THEN [s EXCEPT !.dht = DHTAddEntry(@, id, address, expire)]
     ELSE [s EXCEPT
             !.dht = DHTAddEntry(DHTAddEntry(DHTAddEntry(@, id, address, fresh),
                                             s.id, s.pkt[last].srcAdd, fresh),
                                 0, ZeroAdd, fresh),
             !.queue = @ \ (mine \cup zero),
             !.pkt = pkts,
             !.out = @ \o SentOf(zero, pkts) \o SentOf(mine, pkts)]

AddEntry(s, id, address) ==
  AddEntryUntil(s, id, address, s.now + ASPU_DHT_ENTRY_TIMEOUT)

\* (Mutant: forward learns where the packet came from only.)
LearnOrigin(s, p) == AddEntry(AddEntry(s, p.src, p.srcAdd), p.forId, p.forAdd)

\* ADP_DATA_CACHING: what forward learns from the header of a data packet.
LearnHeader(s, p) ==
  AddEntry(AddEntry(AddEntry(s, p.dst, p.dstAdd), p.src, p.srcAdd), p.forId, p.forAdd)

\* ASPU::forward, of packet u.
Forward(s, u) ==
  LET p == s.pkt[u]
      learnt == LearnHeader(s, p)
      routed == Routed(learnt, p)
      put(t, q) == [t EXCEPT !.pkt[u] = q]
  IN IF p.up /\ p.dst \in {s.id, IP_BROADCAST} THEN put(s, [p EXCEPT !.fate = "dmux"])
     ELSE IF p.dst = IP_BROADCAST
     THEN put(s, [p EXCEPT !.up = FALSE, !.fate = "DROP_IP_BROADCAST"])
     ELSE IF routed.fate = "mac" THEN Emit(put(learnt, routed), Data(u, routed))
     ELSE put(learnt, routed)

\* ASPU::macFailed: the interface could not deliver packet u to its next hop.
LinkFailed(s, u) ==
  LET t == TableMacFailed(s, s.pkt[u].nextHop)
      counted == [t EXCEPT !.pkt[u].txCount = @ + 1]
  IN IF ~macFailed_ THEN [s EXCEPT !.pkt[u].fate = "DROP_RTR_MAC_CALLBACK"]
     ELSE IF s.pkt[u].txCount < MAC_FAILED_ALLOWED_LOSS THEN Forward(counted, u)
     ELSE [counted EXCEPT !.pkt[u].fate = "DROP_RTR_TX_COUNT"]

(***************************************************************************)
(* ASPUQueue.                                                              *)
(***************************************************************************)
\* (Mutant: the newest packet makes room.)
RemoveTail(s) ==
  LET tail == Max(s.queue)
  IN [s EXCEPT !.queue = @ \ {tail}, !.pkt[tail].fate = "DROP_RTR_QFULL"]

RemoveHead(s) ==
  LET head == Min(s.queue)
      why == IF s.pkt[head].ts <= s.now THEN "DROP_RTR_QTIMEOUT" ELSE "DROP_RTR_QFULL"
  IN [s EXCEPT !.queue = @ \ {head}, !.pkt[head].fate = why]

\* (Mutant: one packet too many.)
EnqueOver(s, u) ==
  LET r == IF Cardinality(s.queue) > ASPU_QUEUE_LEN THEN RemoveHead(s) ELSE s
  IN [r EXCEPT !.queue = @ \cup {u},
               !.pkt[u] = [@ EXCEPT !.fate = "queued",
                                    !.ts = s.now + ASPU_QUEUE_TIMEOUT,
                                    !.lifetime = s.now + ADP_DARQ_TIMEOUT]]

Enque(s, u) ==
  LET r == IF Cardinality(s.queue) >= ASPU_QUEUE_LEN THEN RemoveHead(s) ELSE s
  IN [r EXCEPT !.queue = @ \cup {u},
               !.pkt[u] = [@ EXCEPT !.fate = "queued",
                                    !.ts = s.now + ASPU_QUEUE_TIMEOUT,
                                    !.lifetime = s.now + ADP_DARQ_TIMEOUT]]

\* (Mutant: "<" for "<=".)
ExpiredStrictly(s) == {u \in s.queue : s.pkt[u].lifetime < s.now}

\* isExpired answers TRUE for these, and moves their next deadline.
Expired(s) == {u \in s.queue : s.pkt[u].lifetime <= s.now}

\* (Mutant: the same pause before every retry.)
BackedOffEvenly(s) ==
  [s EXCEPT !.pkt = [u \in Uids |->
     IF u \in Expired(s)
     THEN [s.pkt[u] EXCEPT !.lifetime = s.now + ADP_DARQ_EB_TIMEOUT, !.darqCount = @ + 1]
     ELSE s.pkt[u]]]

BackedOff(s) ==
  [s EXCEPT !.pkt = [u \in Uids |->
     IF u \in Expired(s)
     THEN [s.pkt[u] EXCEPT !.lifetime = s.now + s.pkt[u].darqCount * ADP_DARQ_EB_TIMEOUT,
                           !.darqCount = @ + 1]
     ELSE s.pkt[u]]]

(***************************************************************************)
(* ADP: the messages that look up and spread dynamic addresses.            *)
(***************************************************************************)
\* The loop that clears bits from below until DAGetEntry answers with a node
\* not in bad, or no bit is left.
Redirect(s, dst, bad) ==
  LET good == {k \in 0 .. ADDR_SIZE : DAGetEntry(s, ResetBelow(dst, k)) \notin bad}
  IN ResetBelow(dst, IF good = {} THEN ADDR_SIZE ELSE Min(good))

\* The DARQ that sendDarq(reqId) gives to the interface: none or one.
Darq(s, reqId) ==
  LET dst == Redirect(s, Hash(reqId), {IP_BROADCAST})
      nextHop == DAGetEntry(s, dst)
  IN IF Hash(reqId) = s.address \/ nextHop = IP_BROADCAST THEN << >>
     ELSE << [type |-> "DARQ", to |-> nextHop, src |-> s.id, srcAdd |-> s.address,
              forId |-> s.id, forAdd |-> s.address, dstAdd |-> dst, req |-> reqId] >>

SendDarq(s, reqId) == [s EXCEPT !.out = @ \o Darq(s, reqId)]

\* (Mutant: findAdd does not answer with an expired entry.)
FormatIfFresh(s, u) ==
  LET d == s.pkt[u].dst
      p == [s.pkt[u] EXCEPT !.dstAdd = FindAdd(s, d), !.src = s.id, !.srcAdd = s.address]
      f == [s EXCEPT !.pkt[u] = p]
  IN IF d \in DOMAIN s.dht /\ s.dht[d].expire >= s.now
     THEN Forward(f, u) ELSE SendDarq(Enque(f, u), d)

\* ASPU::format forwards a packet if the cache knows its destination, and
\* otherwise queues it and asks for the address.
Format(s, u) ==
  LET d == s.pkt[u].dst
      p == [s.pkt[u] EXCEPT !.dstAdd = FindAdd(s, d), !.src = s.id, !.srcAdd = s.address]
      f == [s EXCEPT !.pkt[u] = p]
  IN IF d \in DOMAIN s.dht THEN Forward(f, u) ELSE SendDarq(Enque(f, u), d)

\* ADP::checkDarq: one more request for every packet that waited long enough.
CheckDarq(s) ==
  LET late == OldestFirst({u \in Expired(s) : Darq(s, s.pkt[u].dst) # << >>})
  IN [BackedOff(s) EXCEPT !.out =
        @ \o [i \in DOMAIN late |-> Head(Darq(s, s.pkt[late[i]].dst))]]

\* sendDarp does not look whether getEntry found a way back.
SendDarp(s, m) ==
  Emit(s, [type |-> "DARP", to |-> GetEntry(s, m.srcAdd), src |-> s.id, srcAdd |-> s.address,
           forId |-> s.id, forAdd |-> s.address, dst |-> m.src, dstAdd |-> m.srcAdd,
           req |-> m.req, reqAdd |-> FindAdd(s, m.req)])

\* A DARQ, DARP or DAUP sent on.  (Mutant: with the forwarder's old address.)
RelayKeeping(s, m, nextHop, dst) ==
  Emit(s, [m EXCEPT !.to = nextHop, !.forId = s.id, !.dstAdd = dst])

Relay(s, m, nextHop, dst) ==
  Emit(s, [m EXCEPT !.to = nextHop, !.forId = s.id, !.forAdd = s.address, !.dstAdd = dst])

\* ADP_DAXX_CACHING: the source and the last forwarder of a message.
LearnSender(s, m) == AddEntry(AddEntry(s, m.src, m.srcAdd), m.forId, m.forAdd)

\* Where recvDarq and recvDaup send a message on to, and whether they changed
\* its destination on the way.
Changed(s, m) == DAGetEntry(s, m.dstAdd) = IP_BROADCAST

Onward(s, m) ==
  IF Changed(s, m) THEN Redirect(s, m.dstAdd, {IP_BROADCAST, m.forId}) ELSE m.dstAdd

Stuck(s, m) ==
  LET nextHop == DAGetEntry(s, Onward(s, m))
  IN nextHop = IP_BROADCAST \/ (nextHop = m.forId /\ ~Changed(s, m))

SendOn(s, m) == Relay(s, m, DAGetEntry(s, Onward(s, m)), Onward(s, m))

\* (Mutant: looks for the answer before it learns from the request.)
RecvDarqEarly(s, m) ==
  LET l == LearnSender(s, m)
  IN IF m.req \in DOMAIN s.dht THEN SendDarp(l, m)
     ELSE IF m.dstAdd = l.address \/ Stuck(l, m) THEN l
     ELSE SendOn(l, m)

RecvDarq(s, m) ==
  LET l == LearnSender(s, m)
  IN IF m.req \in DOMAIN l.dht THEN SendDarp(l, m)
     ELSE IF m.dstAdd = l.address \/ Stuck(l, m) THEN l
     ELSE SendOn(l, m)

RecvDarp(s, m) ==
  LET l == AddEntry(AddEntry(LearnSender(s, m), m.dst, m.dstAdd), m.req, m.reqAdd)
      nextHop == GetEntry(l, m.dstAdd)
  IN IF m.dstAdd = l.address THEN AddEntry(l, m.req, m.reqAdd)
     ELSE IF nextHop \in {IP_BROADCAST, m.forId} THEN l
     ELSE Relay(l, m, nextHop, m.dstAdd)

RecvDaup(s, m) ==
  LET l == LearnSender(s, m)
  IN IF m.dstAdd = l.address \/ Stuck(l, m) THEN AddEntry(l, m.src, m.srcAdd)
     ELSE SendOn(l, m)

\* updateAdd, called with a newly selected address in place: learn it, and send
\* the whole cache to the neighbours.
UpdateAdd(s) ==
  LET l == AddEntry(s, s.id, s.address)
  IN Emit(l, [type |-> "DABR", to |-> IP_BROADCAST, src |-> l.id, srcAdd |-> l.address,
              dht |-> l.dht])
=============================================================================
