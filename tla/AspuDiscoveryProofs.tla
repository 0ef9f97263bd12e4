------------------------ MODULE AspuDiscoveryProofs -------------------------
(***************************************************************************)
(* Discovery never makes an address up, in any network, with any tables,   *)
(* however messages are delayed, lost or overtaken by changes.             *)
(***************************************************************************)
EXTENDS AspuDiscovery, AspuNodeProofs

(***************************************************************************)
(* What nodes say of each other.                                           *)
(***************************************************************************)
\* Node x has or had the address a, when the nodes are in the epochs ep.  Of
\* node 0 anything may be said: addEntry(0, 0) says that its address is 0.
Had(ep, x, a) == x = 0 \/ (x \in Nodes /\ \E k \in 1 .. ep[x] : a = Addresses[k][x])

Request == {"type", "to", "src", "srcAdd", "forId", "forAdd", "dstAdd", "req"}

Answer == Request \cup {"dst", "reqAdd"}

\* What a DARQ and a DARP say of the node that sent them first or last.
Signed(ep, m) == Had(ep, m.src, m.srcAdd) /\ Had(ep, m.forId, m.forAdd)

IsRequest(ep, m) == m.type = "DARQ" /\ DOMAIN m = Request /\ Signed(ep, m)

IsAnswer(ep, m) ==
  /\ m.type = "DARP" /\ DOMAIN m = Answer /\ Signed(ep, m)
  /\ Had(ep, m.dst, m.dstAdd) /\ Had(ep, m.req, m.reqAdd)

IsBroadcast(ep, m) ==
  /\ m.type = "DABR" /\ IsFiniteSet(DOMAIN m.dht)
  /\ \A x \in DOMAIN m.dht : Had(ep, x, m.dht[x].add)

\* Everything that a control message says is or was true.
Says(ep, m) == IsRequest(ep, m) \/ IsAnswer(ep, m) \/ IsBroadcast(ep, m)

\* The messages that a handler has sent so far.
Spoken(ep, q) == Sequence(q) /\ \A i \in DOMAIN q : q[i].type = "DATA" \/ Says(ep, q[i])

Fields == {"id", "now", "address", "dht", "queue", "pkt", "table", "out"}

\* A data packet carries an address that its sender has or had; at an interface
\* also one of its destination, and one of the node that sent it last.
Carries(ep, u, p) ==
  DOMAIN p = DOMAIN Blank /\ p.src = Wants[u][1] /\ Had(ep, p.src, p.srcAdd)

Tells(ep, u, p) == Carries(ep, u, p) /\ Had(ep, p.dst, p.dstAdd) /\ Had(ep, p.forId, p.forAdd)

\* The packets of node n: those that wait are its own.
Holding(ep, n, queue, pkt) ==
  /\ queue \subseteq Uids /\ DOMAIN pkt = Uids
  /\ \A u \in queue : Wants[u][1] = n /\ Carries(ep, u, pkt[u])
  /\ \A u \in Uids : pkt[u].fate = "mac" => Tells(ep, u, pkt[u])

\* Node n in state s holds nothing else, between any two calls of a handler.
Truthful(ep, n, s) ==
  /\ DOMAIN s = Fields /\ s.id = n /\ Had(ep, n, s.address)
  /\ IsFiniteSet(DOMAIN s.dht) /\ \A x \in DOMAIN s.dht : Had(ep, x, s.dht[x].add)
  /\ Holding(ep, n, s.queue, s.pkt)
  /\ Spoken(ep, s.out)

\* Of node 0 anything may be said.
LEMMA AnyZero == \A ep, a : Had(ep, 0, a)
BY DEF Had

\* What is true stays so as nodes go through more epochs.
LEMMA HadLater ==
  ASSUME NEW ep \in [Nodes -> Nat], NEW ep_ \in [Nodes -> Nat], \A x \in Nodes : ep[x] <= ep_[x],
         NEW x, NEW a, Had(ep, x, a)
  PROVE  Had(ep_, x, a)
BY DEF Had

\* The same of messages.
LEMMA SaysLater ==
  ASSUME NEW ep \in [Nodes -> Nat], NEW ep_ \in [Nodes -> Nat], \A x \in Nodes : ep[x] <= ep_[x],
         NEW m, Says(ep, m)
  PROVE  Says(ep_, m)
<1>1. \A x, a : Had(ep, x, a) => Had(ep_, x, a)
  BY HadLater
<1> QED BY <1>1 DEF Says, IsRequest, IsAnswer, IsBroadcast, Signed

\* The same of what nodes hold.
LEMMA TruthfulLater ==
  ASSUME NEW ep \in [Nodes -> Nat], NEW ep_ \in [Nodes -> Nat], \A x \in Nodes : ep[x] <= ep_[x],
         NEW n, NEW s, Truthful(ep, n, s)
  PROVE  Truthful(ep_, n, s)
<1>1. \A x, a : Had(ep, x, a) => Had(ep_, x, a)
  BY HadLater
<1>2. \A m : Says(ep, m) => Says(ep_, m)
  BY SaysLater
<1>3. Holding(ep, n, s.queue, s.pkt) => Holding(ep_, n, s.queue, s.pkt)
  BY <1>1 DEF Holding, Tells, Carries
<1> QED BY <1>1, <1>2, <1>3 DEF Truthful, Spoken

\* Batches of messages, one after the other.
LEMMA SpokenTogether ==
  ASSUME NEW ep, NEW p, NEW q, Spoken(ep, p), Spoken(ep, q)
  PROVE  Spoken(ep, p \o q)
<1> DEFINE r == p \o q
<1>1. /\ Sequence(r) /\ Len(p) \in Nat /\ Len(q) \in Nat
      /\ DOMAIN p = 1 .. Len(p) /\ DOMAIN q = 1 .. Len(q)
      /\ DOMAIN r = 1 .. (Len(p) + Len(q))
      /\ \A i \in 1 .. Len(p) : r[i] = p[i]
      /\ \A i \in (Len(p) + 1) .. (Len(p) + Len(q)) : r[i] = q[i - Len(p)] /\ i - Len(p) \in 1 .. Len(q)
  BY Together DEF Spoken
<1> HIDE DEF r
<1>2. ASSUME NEW i \in DOMAIN r PROVE r[i].type = "DATA" \/ Says(ep, r[i])
  <2>1. CASE i \in 1 .. Len(p)
    BY <1>1, <2>1 DEF Spoken
  <2>2. CASE i \in (Len(p) + 1) .. (Len(p) + Len(q))
    BY <1>1, <2>2 DEF Spoken
  <2> QED BY <1>1, <2>1, <2>2
<1> QED BY <1>1, <1>2 DEF Spoken, r

\* Silence.
LEMMA SpokenNothing == \A ep : Spoken(ep, << >>)
<1>1. << >> \in Seq({}) /\ DOMAIN << >> = {}
  OBVIOUS
<1> QED BY <1>1 DEF Spoken, Sequence

\* One message, and one more message.
LEMMA SpokenOne ==
  ASSUME NEW ep, NEW m, m.type = "DATA" \/ Says(ep, m)
  PROVE  /\ Spoken(ep, << m >>)
         /\ \A q : Spoken(ep, q) => Spoken(ep, Append(q, m))
<1>1. << m >> \in Seq({m}) /\ DOMAIN << m >> = {1} /\ << m >>[1] = m
  OBVIOUS
<1>2. Spoken(ep, << m >>)
  BY <1>1 DEF Spoken, Sequence
<1>3. ASSUME NEW q, Spoken(ep, q) PROVE Spoken(ep, Append(q, m))
  <2>1. PICK T : q \in Seq(T)
    BY <1>3 DEF Spoken, Sequence
  <2>2. q \in Seq(T \cup {m}) /\ Append(q, m) = q \o << m >>
    BY <2>1
  <2> QED BY <1>2, <1>3, <2>2, SpokenTogether
<1> QED BY <1>2, <1>3

(***************************************************************************)
(* The calls.                                                              *)
(***************************************************************************)
\* forward of a packet to an address that its destination has or had.
LEMMA RoutedTells ==
  ASSUME NEW ep, NEW n, NEW s, s.id = n, Had(ep, n, s.address), NEW u, NEW p,
         Carries(ep, u, p), Had(ep, p.dst, p.dstAdd)
  PROVE  /\ Carries(ep, u, Routed(s, p))
         /\ Routed(s, p).fate = "mac" => Tells(ep, u, Routed(s, p))
<1> DEFINE r == Routed(s, p)
<1>1. /\ DOMAIN r = DOMAIN p /\ r.src = p.src /\ r.srcAdd = p.srcAdd
      /\ r.dst = p.dst /\ r.dstAdd = p.dstAdd
      /\ r.fate = "mac" => r.forId = s.id /\ r.forAdd = s.address
  BY DEF Routed, Carries, Blank
<1> HIDE DEF r
<1>2. Carries(ep, u, r)
  BY <1>1 DEF Carries
<1>3. r.fate = "mac" => Tells(ep, u, r)
  BY <1>1, <1>2 DEF Tells
<1> QED BY <1>2, <1>3 DEF r

\* The same of a packet that addEntry takes from the queue.
LEMMA TakenTells ==
  ASSUME NEW ep, NEW n, NEW s, Truthful(ep, n, s), NEW u \in s.queue, NEW a,
         Had(ep, s.pkt[u].dst, a)
  PROVE  LET r == Routed(s, [s.pkt[u] EXCEPT !.dstAdd = a])
         IN r.fate = "mac" => Tells(ep, u, r)
<1> DEFINE p == [s.pkt[u] EXCEPT !.dstAdd = a]
<1>1. Carries(ep, u, s.pkt[u])
  BY DEF Truthful, Holding
<1>2. Carries(ep, u, p) /\ p.dst = s.pkt[u].dst /\ p.dstAdd = a
  BY <1>1 DEF Carries, Blank
<1> HIDE DEF p
<1>3. s.id = n /\ Had(ep, n, s.address)
  BY DEF Truthful
<1>4. Routed(s, p).fate = "mac" => Tells(ep, u, Routed(s, p))
  BY <1>2, <1>3, RoutedTells
<1> QED BY <1>4 DEF p

\* addEntry teaches what it was told, that node 0 has address 0, and an address
\* of the node that it wrote into the header of a packet.
LEMMA AddEntryUntilTruthful ==
  ASSUME NEW ep, NEW n \in Nodes, NEW s, Truthful(ep, n, s),
         NEW id, NEW address, Had(ep, id, address), NEW expire
  PROVE  LET t == AddEntryUntil(s, id, address, expire)
         IN Truthful(ep, n, t) /\ t.address = s.address
<1> DEFINE t == AddEntryUntil(s, id, address, expire)
           mine == Waiting(s, id)
           zero == ForZero(s, id)
           fresh == s.now + ASPU_DHT_ENTRY_TIMEOUT
           oldest == IF zero # {} /\ mine = {Min(mine)} THEN Min(zero) ELSE Min(mine)
           own == s.pkt[oldest].srcAdd
           pkts == [u \in Uids |->
                      IF u \in mine THEN Routed(s, [s.pkt[u] EXCEPT !.dstAdd = address])
                      ELSE IF u \in zero THEN Routed(s, [s.pkt[u] EXCEPT !.dstAdd = ZeroAdd])
                      ELSE s.pkt[u]]
           dht == DHTAddEntry(DHTAddEntry(DHTAddEntry(s.dht, id, address, fresh),
                                          s.id, own, fresh), 0, ZeroAdd, fresh)
<1>1. /\ mine \subseteq s.queue /\ zero \subseteq s.queue /\ s.queue \subseteq Uids
      /\ \A u \in mine : s.pkt[u].dst = id
      /\ \A u \in zero : s.pkt[u].dst = 0
  BY DEF Waiting, ForZero, Truthful, Holding
<1>2. CASE mine = {}
  <2>1. /\ DOMAIN t = DOMAIN s /\ t.id = s.id /\ t.address = s.address /\ t.queue = s.queue
        /\ t.pkt = s.pkt /\ t.out = s.out /\ t.dht = DHTAddEntry(s.dht, id, address, expire)
    BY <1>2 DEF AddEntryUntil, Truthful, Fields
  <2> HIDE DEF t
  <2>2. \A x \in DOMAIN t.dht : Had(ep, x, t.dht[x].add)
    BY <2>1 DEF DHTAddEntry, Truthful
  <2>3. IsFiniteSet(DOMAIN t.dht)
    <3>1. DOMAIN t.dht = DOMAIN s.dht \cup {id}
      BY <2>1 DEF DHTAddEntry
    <3> QED BY <3>1, FS_AddElement DEF Truthful
  <2> QED BY <2>1, <2>2, <2>3 DEF Truthful, t
<1>3. CASE mine # {}
  <2>1. /\ DOMAIN t = DOMAIN s /\ t.id = s.id /\ t.address = s.address
        /\ t.queue = s.queue \ (mine \cup zero) /\ t.pkt = pkts /\ t.dht = dht
        /\ t.out = s.out \o SentOf(zero, pkts) \o SentOf(mine, pkts)
    <3>1. t = [s EXCEPT !.dht = dht, !.queue = @ \ (mine \cup zero), !.pkt = pkts,
                        !.out = @ \o SentOf(zero, pkts) \o SentOf(mine, pkts)]
      <4> HIDE DEF mine, zero
      <4> QED BY <1>3 DEF AddEntryUntil, mine, zero
    <3> HIDE DEF t, dht, mine, zero, pkts
    <3> QED BY <3>1 DEF Truthful, Fields
  <2> HIDE DEF t
  <2>2. Had(ep, n, own)
    <3>1. Min(mine) \in mine /\ (zero # {} => Min(zero) \in zero)
      <4> HIDE DEF mine, zero
      <4> QED BY <1>1, <1>3, MinOfUids
    <3>2. oldest \in s.queue
      <4> HIDE DEF mine, zero
      <4> QED BY <1>1, <3>1
    <3> HIDE DEF oldest
    <3> QED BY <3>2 DEF Truthful, Holding, Carries
  <2>3. \A x \in DOMAIN dht : Had(ep, x, dht[x].add)
    <3>1. Had(ep, 0, ZeroAdd) /\ s.id = n
      BY AnyZero DEF Truthful
    <3> HIDE DEF own, fresh, mine, zero
    <3> QED BY <2>2, <3>1 DEF DHTAddEntry, Truthful
  <2>4. Spoken(ep, t.out)
    <3>1. \A P \in SUBSET Uids : Spoken(ep, SentOf(P, pkts))
      <4> HIDE DEF pkts
      <4> QED BY SentOfSends DEF Spoken
    <3>2. mine \in SUBSET Uids /\ zero \in SUBSET Uids
      BY <1>1
    <3> HIDE DEF mine, zero, pkts
    <3>3. Spoken(ep, s.out \o SentOf(zero, pkts))
      BY <3>1, <3>2, SpokenTogether DEF Truthful
    <3> QED BY <2>1, <3>1, <3>2, <3>3, SpokenTogether
  <2>5. Holding(ep, n, t.queue, t.pkt)
    <3>1. ASSUME NEW u \in t.queue PROVE Wants[u][1] = n /\ Carries(ep, u, t.pkt[u])
      <4>1. u \in s.queue /\ u \in Uids /\ u \notin mine /\ u \notin zero
        BY <1>1, <2>1
      <4>2. t.pkt[u] = s.pkt[u]
        <5> HIDE DEF mine, zero
        <5> QED BY <2>1, <4>1
      <4> QED BY <4>1, <4>2 DEF Truthful, Holding
    <3>2. ASSUME NEW u \in Uids, t.pkt[u].fate = "mac" PROVE Tells(ep, u, t.pkt[u])
      <4>1. CASE u \in mine
        <5>1. t.pkt[u] = Routed(s, [s.pkt[u] EXCEPT !.dstAdd = address])
          <6> HIDE DEF mine, zero
          <6> QED BY <2>1, <4>1
        <5>2. u \in s.queue /\ Had(ep, s.pkt[u].dst, address)
          <6> HIDE DEF mine, zero
          <6> QED BY <1>1, <4>1
        <5> QED BY <3>2, <5>1, <5>2, TakenTells
      <4>2. CASE u \notin mine /\ u \in zero
        <5>1. t.pkt[u] = Routed(s, [s.pkt[u] EXCEPT !.dstAdd = ZeroAdd])
          <6> HIDE DEF mine, zero
          <6> QED BY <2>1, <4>2
        <5>2. u \in s.queue /\ Had(ep, s.pkt[u].dst, ZeroAdd)
          <6> HIDE DEF mine, zero
          <6> QED BY <1>1, <4>2, AnyZero
        <5> QED BY <3>2, <5>1, <5>2, TakenTells
      <4>3. CASE u \notin mine /\ u \notin zero
        <5>1. t.pkt[u] = s.pkt[u]
          <6> HIDE DEF mine, zero
          <6> QED BY <2>1, <4>3
        <5> QED BY <3>2, <5>1 DEF Truthful, Holding
      <4> QED BY <4>1, <4>2, <4>3
    <3>3. t.queue \subseteq Uids /\ DOMAIN t.pkt = Uids
      <4> HIDE DEF mine, zero
      <4> QED BY <1>1, <2>1
    <3> QED BY <3>1, <3>2, <3>3 DEF Holding
  <2>6. IsFiniteSet(DOMAIN dht)
    <3>1. DOMAIN dht = ((DOMAIN s.dht \cup {id}) \cup {s.id}) \cup {0}
      BY DEF DHTAddEntry
    <3>2. IsFiniteSet(DOMAIN s.dht \cup {id})
      BY FS_AddElement DEF Truthful
    <3>3. IsFiniteSet((DOMAIN s.dht \cup {id}) \cup {s.id})
      BY <3>2, FS_AddElement
    <3> HIDE DEF dht
    <3> QED BY <3>1, <3>3, FS_AddElement
  <2> HIDE DEF dht, pkts, mine, zero
  <2> QED BY <2>1, <2>3, <2>4, <2>5, <2>6 DEF Truthful, t
<1> QED BY <1>2, <1>3

\* The form of addEntry that takes the entry's lifetime from the clock.
LEMMA AddEntryTruthful ==
  ASSUME NEW ep, NEW n \in Nodes, NEW s, Truthful(ep, n, s),
         NEW id, NEW address, Had(ep, id, address)
  PROVE  LET t == AddEntry(s, id, address)
         IN Truthful(ep, n, t) /\ t.address = s.address
BY AddEntryUntilTruthful DEF AddEntry

\* A message that says what is true.
LEMMA EmitTruthful ==
  ASSUME NEW ep, NEW n, NEW s, Truthful(ep, n, s), NEW m, m.type = "DATA" \/ Says(ep, m)
  PROVE  Truthful(ep, n, Emit(s, m))
<1>1. Spoken(ep, Append(s.out, m))
  BY SpokenOne DEF Truthful
<1> DEFINE t == Emit(s, m)
<1>2. /\ DOMAIN t = DOMAIN s /\ t.id = s.id /\ t.address = s.address /\ t.dht = s.dht
      /\ t.queue = s.queue /\ t.pkt = s.pkt /\ t.out = Append(s.out, m)
  BY DEF Emit, Truthful, Fields
<1> HIDE DEF t
<1> QED BY <1>1, <1>2 DEF Truthful, t

\* LearnSender.
LEMMA LearnSenderTruthful ==
  ASSUME NEW ep, NEW n \in Nodes, NEW s, Truthful(ep, n, s), NEW m, Signed(ep, m)
  PROVE  Truthful(ep, n, LearnSender(s, m)) /\ LearnSender(s, m).address = s.address
<1> DEFINE t == AddEntry(s, m.src, m.srcAdd)
<1>1. Truthful(ep, n, t) /\ t.address = s.address
  BY AddEntryTruthful DEF Signed
<1> HIDE DEF t
<1>2. Truthful(ep, n, AddEntry(t, m.forId, m.forAdd)) /\ AddEntry(t, m.forId, m.forAdd).address = t.address
  BY <1>1, AddEntryTruthful DEF Signed
<1> QED BY <1>1, <1>2 DEF LearnSender, t

(***************************************************************************)
(* Control messages.                                                       *)
(***************************************************************************)
\* sendDarp, of what the node knows.
LEMMA SendDarpTruthful ==
  ASSUME NEW ep, NEW n \in Nodes, NEW s, Truthful(ep, n, s), NEW m, IsRequest(ep, m),
         m.req \in DOMAIN s.dht
  PROVE  Truthful(ep, n, SendDarp(s, m))
<1> DEFINE a == [type |-> "DARP", to |-> GetEntry(s, m.srcAdd), src |-> s.id, srcAdd |-> s.address,
                 forId |-> s.id, forAdd |-> s.address, dst |-> m.src, dstAdd |-> m.srcAdd,
                 req |-> m.req, reqAdd |-> FindAdd(s, m.req)]
<1>1. /\ a.type = "DARP" /\ DOMAIN a = Answer
      /\ a.src = n /\ a.srcAdd = s.address /\ a.forId = n /\ a.forAdd = s.address
      /\ a.dst = m.src /\ a.dstAdd = m.srcAdd /\ a.req = m.req /\ a.reqAdd = s.dht[m.req].add
  BY DEF Truthful, Answer, Request, FindAdd
<1> HIDE DEF a
<1>2. IsAnswer(ep, a)
  BY <1>1 DEF IsAnswer, Signed, IsRequest, Truthful
<1> QED BY <1>2, EmitTruthful DEF Says, SendDarp, a

\* A request or an answer is sent on under the name of the node.
LEMMA RelayTruthful ==
  ASSUME NEW ep, NEW n \in Nodes, NEW s, Truthful(ep, n, s), NEW m, NEW to, NEW dst,
         \/ IsRequest(ep, m)
         \/ IsAnswer(ep, m) /\ dst = m.dstAdd
  PROVE  Truthful(ep, n, Relay(s, m, to, dst))
<1> DEFINE a == [m EXCEPT !.to = to, !.forId = s.id, !.forAdd = s.address, !.dstAdd = dst]
<1>1. DOMAIN m \in {Request, Answer}
  BY DEF IsRequest, IsAnswer
<1>2. /\ DOMAIN a = DOMAIN m /\ a.type = m.type /\ a.src = m.src /\ a.srcAdd = m.srcAdd
      /\ a.forId = n /\ a.forAdd = s.address /\ a.dstAdd = dst /\ a.req = m.req
  BY <1>1 DEF Request, Answer, Truthful
<1>3. DOMAIN m = Answer => a.dst = m.dst /\ a.reqAdd = m.reqAdd
  BY DEF Answer
<1> HIDE DEF a
<1>4. CASE IsRequest(ep, m)
  <2>1. IsRequest(ep, a)
    BY <1>2, <1>4 DEF IsRequest, Signed, Truthful
  <2> QED BY <2>1, EmitTruthful DEF Says, Relay, a
<1>5. CASE IsAnswer(ep, m) /\ dst = m.dstAdd
  <2>1. IsAnswer(ep, a)
    BY <1>2, <1>3, <1>5 DEF IsAnswer, Signed, Truthful
  <2> QED BY <2>1, EmitTruthful DEF Says, Relay, a
<1> QED BY <1>4, <1>5

\* recvDarq answers from the cache, sends the request on, or drops it.
LEMMA RecvDarqTruthful ==
  ASSUME NEW ep, NEW n \in Nodes, NEW s, Truthful(ep, n, s), NEW m, IsRequest(ep, m)
  PROVE  Truthful(ep, n, RecvDarq(s, m))
<1> DEFINE l == LearnSender(s, m)
<1>1. Truthful(ep, n, l)
  BY LearnSenderTruthful DEF IsRequest
<1>2. \/ RecvDarq(s, m) \in {l, SendOn(l, m)}
      \/ m.req \in DOMAIN l.dht /\ RecvDarq(s, m) = SendDarp(l, m)
  BY DEF RecvDarq
<1> HIDE DEF l
<1>3. Truthful(ep, n, SendOn(l, m))
  BY <1>1, RelayTruthful DEF SendOn
<1> QED BY <1>1, <1>2, <1>3, SendDarpTruthful

\* recvDarp keeps the answer, and sends it on unless it has arrived or is lost.
LEMMA RecvDarpTruthful ==
  ASSUME NEW ep, NEW n \in Nodes, NEW s, Truthful(ep, n, s), NEW m, IsAnswer(ep, m)
  PROVE  Truthful(ep, n, RecvDarp(s, m))
<1> DEFINE k == LearnSender(s, m)
           i == AddEntry(k, m.dst, m.dstAdd)
           l == AddEntry(i, m.req, m.reqAdd)
<1>1. Truthful(ep, n, k)
  BY LearnSenderTruthful DEF IsAnswer
<1> HIDE DEF k
<1>2. Truthful(ep, n, i)
  BY <1>1, AddEntryTruthful DEF IsAnswer
<1> HIDE DEF i
<1>3. Truthful(ep, n, l)
  BY <1>2, AddEntryTruthful DEF IsAnswer
<1>4. \/ RecvDarp(s, m) \in {l, AddEntry(l, m.req, m.reqAdd)}
      \/ \E to : RecvDarp(s, m) = Relay(l, m, to, m.dstAdd)
  BY DEF RecvDarp, k, i
<1> HIDE DEF l
<1>5. Truthful(ep, n, AddEntry(l, m.req, m.reqAdd))
  BY <1>3, AddEntryTruthful DEF IsAnswer
<1> QED BY <1>3, <1>4, <1>5, RelayTruthful

\* recvDabr: every entry read teaches what was true.
LEMMA ReadTruthful ==
  ASSUME NEW ep, NEW n \in Nodes, NEW s, Truthful(ep, n, s), NEW m, IsBroadcast(ep, m),
         NEW order \in SetToSeqs(DOMAIN m.dht)
  PROVE  Truthful(ep, n, Read(s, m, order))
<1> DEFINE D == DOMAIN m.dht
           N == Len(order)
           After(t, k) == AddEntryUntil(t, order[k], m.dht[order[k]].add, m.dht[order[k]].expire)
           Body(f, j) == [k \in 0 .. j |-> IF k = 0 THEN s ELSE After(f[k - 1], k)]
           read == CHOOSE f : f = Body(f, N)
           W == {j \in 0 .. N : ~\E f : f = Body(f, j)}
           V == {j \in 0 .. N : ~Truthful(ep, n, read[j])}
<1>1. Read(s, m, order) = read[N]
  BY DEF Read
<1>2. N \in Nat /\ \A k \in 1 .. N : order[k] \in D
  <2> DEFINE c == Cardinality(D)
  <2>1. c \in Nat
    BY FS_CardinalityType DEF IsBroadcast
  <2>2. order \in [1 .. c -> D]
    BY DEF SetToSeqs
  <2> HIDE DEF c, D
  <2>3. N = c
    BY <2>1, <2>2
  <2> QED BY <2>1, <2>2, <2>3
<1>3. ASSUME NEW t, NEW k \in 1 .. N, Truthful(ep, n, t) PROVE Truthful(ep, n, After(t, k))
  <2>1. Had(ep, order[k], m.dht[order[k]].add)
    BY <1>2 DEF IsBroadcast
  <2> QED BY <1>3, <2>1, AddEntryUntilTruthful
<1> HIDE DEF After, N
<1>4. W = {}
  <2> SUFFICES ASSUME W # {} PROVE FALSE
    OBVIOUS
  <2>1. PICK j \in W : \A i \in W : j <= i
    <3>1. W \in SUBSET Nat
      BY <1>2
    <3> HIDE DEF W
    <3> QED BY <3>1, LeastNatural
  <2>2. j # 0
    <3> DEFINE g == [k \in 0 .. 0 |-> s]
    <3>1. g = Body(g, 0)
      OBVIOUS
    <3> QED BY <2>1, <3>1
  <2>3. j \in Nat /\ j - 1 \in 0 .. N /\ j - 1 \notin W
    <3>1. j \in 0 .. N
      BY <2>1
    <3>2. j \in Nat /\ j - 1 \in 0 .. N /\ ~(j <= j - 1)
      BY <1>2, <2>2, <3>1
    <3> HIDE DEF W
    <3> QED BY <2>1, <3>2
  <2>4. PICK f : f = Body(f, j - 1)
    BY <2>3
  <2> DEFINE g == [k \in 0 .. j |-> IF k < j THEN f[k] ELSE After(f[j - 1], j)]
  <2>5. g = Body(g, j)
    <3>1. ASSUME NEW k \in 0 .. j PROVE g[k] = IF k = 0 THEN s ELSE After(g[k - 1], k)
      <4>1. CASE k = j
        <5>1. g[k] = After(f[j - 1], j) /\ g[k - 1] = f[j - 1]
          BY <2>2, <2>3, <4>1
        <5> QED BY <2>2, <4>1, <5>1
      <4>2. CASE k # j
        <5>1. k \in 0 .. j - 1 /\ g[k] = f[k] /\ (k # 0 => g[k - 1] = f[k - 1])
          BY <2>3, <4>2
        <5>2. f[k] = IF k = 0 THEN s ELSE After(f[k - 1], k)
          BY <2>4, <5>1
        <5> QED BY <5>1, <5>2
      <4> QED BY <4>1, <4>2
    <3>2. g = [k \in 0 .. j |-> g[k]]
      OBVIOUS
    <3> HIDE DEF g
    <3> QED BY <3>1, <3>2
  <2> QED BY <2>1, <2>5
<1>5. read = Body(read, N)
  <2>1. \E f : f = Body(f, N)
    BY <1>2, <1>4
  <2> HIDE DEF Body
  <2> QED BY <2>1
<1>6. read[0] = s /\ \A k \in 1 .. N : read[k] = After(read[k - 1], k)
  <2> DEFINE g == read
  <2>1. g = Body(g, N)
    BY <1>5
  <2> HIDE DEF g
  <2>2. g[0] = s /\ \A k \in 1 .. N : g[k] = After(g[k - 1], k)
    BY <1>2, <2>1
  <2> QED BY <2>2 DEF g
<1> HIDE DEF read, Body
<1>7. V = {}
  <2> SUFFICES ASSUME V # {} PROVE FALSE
    OBVIOUS
  <2>1. PICK j \in V : \A i \in V : j <= i
    <3>1. V \in SUBSET Nat
      BY <1>2
    <3> HIDE DEF V
    <3> QED BY <3>1, LeastNatural
  <2>2. j # 0 /\ j \in 1 .. N /\ j - 1 \in 0 .. N
    BY <1>2, <1>6, <2>1
  <2>3. Truthful(ep, n, read[j - 1])
    BY <1>2, <2>1, <2>2
  <2> QED BY <1>3, <1>6, <2>1, <2>2, <2>3
<1> QED BY <1>1, <1>2, <1>7

\* updateAdd spreads the whole cache.
LEMMA UpdateAddTruthful ==
  ASSUME NEW ep, NEW n \in Nodes, NEW s, Truthful(ep, n, s)
  PROVE  Truthful(ep, n, UpdateAdd(s))
<1> DEFINE l == AddEntry(s, s.id, s.address)
           a == [type |-> "DABR", to |-> IP_BROADCAST, src |-> l.id, srcAdd |-> l.address,
                 dht |-> l.dht]
<1>1. Truthful(ep, n, l)
  <2>1. Had(ep, s.id, s.address)
    BY DEF Truthful
  <2> QED BY <2>1, AddEntryTruthful
<1>2. a.type = "DABR" /\ a.dht = l.dht
  OBVIOUS
<1>3. UpdateAdd(s) = Emit(l, a)
  BY DEF UpdateAdd
<1> HIDE DEF l, a
<1>4. IsBroadcast(ep, a)
  BY <1>1, <1>2 DEF IsBroadcast, Truthful
<1> QED BY <1>1, <1>3, <1>4, EmitTruthful DEF Says

(***************************************************************************)
(* Requests.                                                               *)
(***************************************************************************)
\* sendDarq signs with the node's own address.
LEMMA DarqSpoken ==
  ASSUME NEW ep, NEW n \in Nodes, NEW s, Truthful(ep, n, s), NEW req
  PROVE  /\ Spoken(ep, Darq(s, req))
         /\ Darq(s, req) # << >> => IsRequest(ep, Head(Darq(s, req)))
<1> DEFINE dst == Redirect(s, Hash(req), {IP_BROADCAST})
           a == [type |-> "DARQ", to |-> DAGetEntry(s, dst), src |-> s.id, srcAdd |-> s.address,
                 forId |-> s.id, forAdd |-> s.address, dstAdd |-> dst, req |-> req]
<1>1. Darq(s, req) \in {<< >>, << a >>}
  BY DEF Darq
<1>2. /\ a.type = "DARQ" /\ DOMAIN a = Request
      /\ a.src = n /\ a.srcAdd = s.address /\ a.forId = n /\ a.forAdd = s.address
  BY DEF Truthful, Request
<1> HIDE DEF a
<1>3. IsRequest(ep, a)
  BY <1>2 DEF IsRequest, Signed, Truthful
<1>4. Spoken(ep, << a >>)
  BY <1>3, SpokenOne DEF Says
<1> QED BY <1>1, <1>3, <1>4, SpokenNothing

\* checkDarq repeats requests, and leaves alone what is said in them.
LEMMA RetryTruthful ==
  ASSUME NEW ep, NEW n \in Nodes, NEW s, Truthful(ep, n, s)
  PROVE  Truthful(ep, n, [CheckDarq(s) EXCEPT !.pkt = s.pkt])
<1> DEFINE T == {u \in Expired(s) : Darq(s, s.pkt[u].dst) # << >>}
           late == OldestFirst(T)
           q == [i \in DOMAIN late |-> Head(Darq(s, s.pkt[late[i]].dst))]
           t == [CheckDarq(s) EXCEPT !.pkt = s.pkt]
<1>1. T \subseteq Uids
  BY DEF Expired, Truthful, Holding
<1>2. late \in Seq(T)
  BY <1>1, OldestFirstSorts
<1>3. /\ DOMAIN t = DOMAIN s /\ t.id = s.id /\ t.address = s.address /\ t.dht = s.dht
      /\ t.queue = s.queue /\ t.pkt = s.pkt /\ t.out = s.out \o q
  BY DEF CheckDarq, BackedOff, Truthful, Fields
<1>4. \A i \in DOMAIN late : IsRequest(ep, Head(Darq(s, s.pkt[late[i]].dst)))
  <2>1. \A i \in DOMAIN late : late[i] \in T
    <3> HIDE DEF late, T
    <3> QED BY <1>2
  <2> QED BY <2>1, DarqSpoken
<1> HIDE DEF late, t
<1>5. Spoken(ep, q)
  <2> DEFINE M == {q[i] : i \in DOMAIN late}
  <2>1. q \in [1 .. Len(late) -> M] /\ Len(late) \in Nat
    BY <1>2
  <2>2. Sequence(q)
    <3> HIDE DEF q, M
    <3>1. q \in Seq(M)
      BY <2>1
    <3> QED BY <3>1 DEF Sequence
  <2> QED BY <1>4, <2>2 DEF Spoken, Says
<1> HIDE DEF q
<1>6. Spoken(ep, t.out)
  BY <1>3, <1>5, SpokenTogether DEF Truthful
<1> QED BY <1>3, <1>6 DEF Truthful, t

(***************************************************************************)
(* Data packets.                                                           *)
(***************************************************************************)
\* A header is written.
LEMMA PutTruthful ==
  ASSUME NEW ep, NEW n, NEW s, Truthful(ep, n, s), NEW u \in Uids, NEW p, Carries(ep, u, p),
         p.fate = "mac" => Tells(ep, u, p)
  PROVE  Truthful(ep, n, [s EXCEPT !.pkt[u] = p])
<1> DEFINE t == [s EXCEPT !.pkt[u] = p]
<1>1. /\ DOMAIN t = DOMAIN s /\ t.id = s.id /\ t.address = s.address /\ t.dht = s.dht
      /\ t.queue = s.queue /\ t.pkt = [s.pkt EXCEPT ![u] = p] /\ t.out = s.out
  BY DEF Truthful, Fields
<1> HIDE DEF t
<1>2. Holding(ep, n, t.queue, t.pkt)
  <2>1. \A w \in Uids : t.pkt[w] = IF w = u THEN p ELSE s.pkt[w]
    BY <1>1 DEF Truthful, Holding
  <2> QED BY <1>1, <2>1 DEF Truthful, Holding
<1> QED BY <1>1, <1>2 DEF Truthful, t

\* What put does is read back.
LEMMA PutReads ==
  ASSUME NEW ep, NEW n, NEW s, Truthful(ep, n, s), NEW u \in Uids, NEW p
  PROVE  [s EXCEPT !.pkt[u] = p].pkt[u] = p
BY DEF Truthful, Fields, Holding

\* enque, which may drop the oldest packet.
LEMMA EnqueTruthful ==
  ASSUME NEW ep, NEW n, NEW s, Truthful(ep, n, s), NEW u \in Uids,
         Wants[u][1] = n, Carries(ep, u, s.pkt[u])
  PROVE  Truthful(ep, n, Enque(s, u))
<1> DEFINE r == IF Cardinality(s.queue) >= ASPU_QUEUE_LEN THEN RemoveHead(s) ELSE s
           p == [r.pkt[u] EXCEPT !.fate = "queued", !.ts = s.now + ASPU_QUEUE_TIMEOUT,
                                 !.lifetime = s.now + ADP_DARQ_TIMEOUT]
           t == Enque(s, u)
<1>1. /\ DOMAIN r = DOMAIN s /\ r.id = s.id /\ r.address = s.address /\ r.dht = s.dht
      /\ r.queue \subseteq s.queue /\ DOMAIN r.pkt = Uids /\ r.out = s.out
      /\ \A w \in Uids : r.pkt[w] = s.pkt[w] \/ (w \notin r.queue /\ r.pkt[w].fate # "mac")
      /\ DOMAIN r.pkt[u] = DOMAIN Blank
      /\ r.pkt[u].src = s.pkt[u].src /\ r.pkt[u].srcAdd = s.pkt[u].srcAdd
  <2>1. CASE r = s
    BY <2>1 DEF Truthful, Holding, Carries
  <2>2. CASE s.queue # {} /\ r = RemoveHead(s)
    <3> DEFINE head == Min(s.queue)
               why == IF s.pkt[head].ts <= s.now THEN "DROP_RTR_QTIMEOUT" ELSE "DROP_RTR_QFULL"
               h == [s.pkt[head] EXCEPT !.fate = why]
    <3>1. r = [s EXCEPT !.queue = @ \ {head}, !.pkt[head].fate = why]
      BY <2>2 DEF RemoveHead
    <3>2. head \in s.queue
      BY <2>2, MinOfUids DEF Truthful, Holding
    <3>3. DOMAIN h = DOMAIN Blank /\ h.src = s.pkt[head].src /\ h.srcAdd = s.pkt[head].srcAdd
          /\ h.fate = why /\ h.fate # "mac"
      BY <3>2 DEF Truthful, Holding, Carries, Blank
    <3> HIDE DEF r, head, why, h
    <3>4. /\ DOMAIN r = DOMAIN s /\ r.id = s.id /\ r.address = s.address /\ r.dht = s.dht
          /\ r.queue = s.queue \ {head} /\ r.out = s.out
          /\ r.pkt = [s.pkt EXCEPT ![head] = h]
      BY <3>1 DEF Truthful, Fields, h
    <3>5. \A w \in Uids : r.pkt[w] = IF w = head THEN h ELSE s.pkt[w]
      BY <3>2, <3>4 DEF Truthful, Holding
    <3> QED BY <3>3, <3>4, <3>5 DEF Truthful, Holding, Carries
  <2>3. Cardinality(s.queue) >= ASPU_QUEUE_LEN => s.queue # {}
    BY FS_EmptySet, NodeAssumption
  <2> QED BY <2>1, <2>2, <2>3
<1>2. t = [r EXCEPT !.queue = r.queue \cup {u}, !.pkt[u] = p]
  BY DEF Enque
<1> HIDE DEF r
<1>3. Carries(ep, u, p) /\ p.fate = "queued"
  BY <1>1 DEF Carries, Blank
<1> HIDE DEF t, p
<1>4. /\ DOMAIN t = DOMAIN r /\ t.id = r.id /\ t.address = r.address /\ t.dht = r.dht
      /\ t.queue = r.queue \cup {u} /\ t.pkt = [r.pkt EXCEPT ![u] = p] /\ t.out = r.out
  BY <1>1, <1>2 DEF Truthful, Fields
<1>5. Holding(ep, n, t.queue, t.pkt)
  <2>1. \A w \in Uids : t.pkt[w] = IF w = u THEN p ELSE r.pkt[w]
    BY <1>1, <1>4
  <2>2. t.queue \subseteq Uids /\ DOMAIN t.pkt = Uids
    BY <1>1, <1>4 DEF Truthful, Holding
  <2>3. ASSUME NEW w \in t.queue PROVE Wants[w][1] = n /\ Carries(ep, w, t.pkt[w])
    <3>1. CASE w = u
      BY <1>3, <2>1, <3>1
    <3>2. CASE w # u
      <4>1. w \in r.queue /\ w \in s.queue /\ w \in Uids /\ t.pkt[w] = r.pkt[w]
        BY <1>1, <1>4, <2>1, <2>2, <3>2
      <4>2. r.pkt[w] = s.pkt[w]
        BY <1>1, <4>1
      <4> QED BY <4>1, <4>2 DEF Truthful, Holding
    <3> QED BY <3>1, <3>2
  <2>4. ASSUME NEW w \in Uids, t.pkt[w].fate = "mac" PROVE Tells(ep, w, t.pkt[w])
    <3>1. t.pkt[w] = s.pkt[w]
      BY <1>1, <1>3, <2>1, <2>4
    <3> QED BY <2>4, <3>1 DEF Truthful, Holding
  <2> QED BY <2>2, <2>3, <2>4 DEF Holding
<1> QED BY <1>1, <1>4, <1>5 DEF Truthful, t

\* forward, of a packet of the node or of another one: it caches what the header
\* says, at every relay.
LEMMA ForwardTruthful ==
  ASSUME NEW ep, NEW n \in Nodes, NEW s, Truthful(ep, n, s), NEW u \in Uids,
         Tells(ep, u, s.pkt[u])
  PROVE  Truthful(ep, n, Forward(s, u))
<1> DEFINE p == s.pkt[u]
           i == AddEntry(s, p.dst, p.dstAdd)
           j == AddEntry(i, p.src, p.srcAdd)
           l == AddEntry(j, p.forId, p.forAdd)
           routed == Routed(l, p)
           put(t, q) == [t EXCEPT !.pkt[u] = q]
<1>0. l = LearnHeader(s, p)
  BY DEF LearnHeader
<1>1. Truthful(ep, n, i)
  BY AddEntryTruthful DEF Tells
<1> HIDE DEF i
<1>2. Truthful(ep, n, j)
  BY <1>1, AddEntryTruthful DEF Tells, Carries
<1> HIDE DEF j
<1>3. Truthful(ep, n, l)
  BY <1>2, AddEntryTruthful DEF Tells
<1> HIDE DEF l
<1> DEFINE dmux == [p EXCEPT !.fate = "dmux"]
           drop == [p EXCEPT !.up = FALSE, !.fate = "DROP_IP_BROADCAST"]
           data == Data(u, routed)
<1>4. \/ Forward(s, u) \in {put(s, dmux), put(s, drop)}
      \/ Forward(s, u) \in {put(l, routed), Emit(put(l, routed), data)}
  BY <1>0, Zenon DEF Forward
<1>5. /\ Carries(ep, u, dmux) /\ dmux.fate # "mac"
      /\ Carries(ep, u, drop) /\ drop.fate # "mac"
  BY DEF Tells, Carries, Blank
<1>6. Carries(ep, u, routed) /\ (routed.fate = "mac" => Tells(ep, u, routed))
  <2>1. l.id = n /\ Had(ep, n, l.address)
    BY <1>3 DEF Truthful
  <2> QED BY <2>1, RoutedTells DEF Tells
<1>7. data.type = "DATA"
  BY DEF Data
<1> HIDE DEF routed, p, dmux, drop, data
<1>8. Truthful(ep, n, put(l, routed)) /\ Truthful(ep, n, put(s, dmux)) /\ Truthful(ep, n, put(s, drop))
  BY <1>3, <1>5, <1>6, PutTruthful
<1>9. Truthful(ep, n, Emit(put(l, routed), data))
  BY <1>7, <1>8, EmitTruthful
<1> QED BY <1>4, <1>8, <1>9

\* format, of a packet h from an application of the node.
LEMMA FormatTruthful ==
  ASSUME NEW ep, NEW n \in Nodes, NEW s, Truthful(ep, n, s), NEW u \in Uids,
         NEW h, DOMAIN h = DOMAIN Blank, h.forId = 0, h.fate = "new", Wants[u][1] = n
  PROVE  Truthful(ep, n, Format([s EXCEPT !.pkt[u] = h], u))
<1> DEFINE g == [s EXCEPT !.pkt[u] = h]
           p == [h EXCEPT !.dstAdd = FindAdd(s, h.dst), !.src = n, !.srcAdd = s.address]
           f == [s EXCEPT !.pkt[u] = p]
<1>1. /\ DOMAIN g = DOMAIN s /\ g.id = n /\ g.address = s.address /\ g.dht = s.dht /\ g.pkt[u] = h
      /\ [g EXCEPT !.pkt[u] = p] = f
  <2>1. /\ DOMAIN g = DOMAIN s /\ g.id = n /\ g.address = s.address /\ g.dht = s.dht
        /\ g.pkt = [s.pkt EXCEPT ![u] = h]
    BY DEF Truthful, Fields
  <2>2. [g.pkt EXCEPT ![u] = p] = [s.pkt EXCEPT ![u] = p] /\ g.pkt[u] = h
    <3> HIDE DEF g, p
    <3> QED BY <2>1 DEF Truthful, Holding
  <2>3. [g EXCEPT !.pkt[u] = p] = [s EXCEPT !.pkt = [g.pkt EXCEPT ![u] = p]]
    <3> HIDE DEF p
    <3> QED BY <2>1 DEF Truthful, Fields
  <2>4. f = [s EXCEPT !.pkt = [s.pkt EXCEPT ![u] = p]]
    OBVIOUS
  <2> HIDE DEF g, p, f
  <2> QED BY <2>1, <2>2, <2>3, <2>4
<1>2. Format(g, u) = IF h.dst \in DOMAIN s.dht THEN Forward(f, u) ELSE SendDarq(Enque(f, u), h.dst)
  <2>1. FindAdd(g, h.dst) = FindAdd(s, h.dst)
    <3> HIDE DEF g
    <3> QED BY <1>1 DEF FindAdd
  <2>2. p = [g.pkt[u] EXCEPT !.dstAdd = FindAdd(g, g.pkt[u].dst), !.src = g.id, !.srcAdd = g.address]
    BY <1>1, <2>1
  <2> HIDE DEF g, p, f
  <2> QED BY <1>1, <2>2 DEF Format
<1> HIDE DEF g
<1>3. /\ DOMAIN p = DOMAIN Blank /\ p.dst = h.dst /\ p.src = n /\ p.srcAdd = s.address
      /\ p.forId = 0 /\ p.dstAdd = FindAdd(s, h.dst) /\ p.fate = "new"
  BY DEF Blank
<1> HIDE DEF p
<1>4. Carries(ep, u, p)
  BY <1>3 DEF Carries, Truthful
<1>5. Truthful(ep, n, f) /\ f.pkt[u] = p
  BY <1>3, <1>4, PutTruthful, PutReads
<1> HIDE DEF f
<1>6. CASE h.dst \in DOMAIN s.dht
  <2>1. Had(ep, p.dst, p.dstAdd) /\ Had(ep, p.forId, p.forAdd)
    BY <1>3, <1>6, AnyZero DEF FindAdd, Truthful
  <2> QED BY <1>2, <1>4, <1>5, <1>6, <2>1, ForwardTruthful DEF g, Tells
<1>7. CASE h.dst \notin DOMAIN s.dht
  <2> DEFINE e == Enque(f, u)
             d == SendDarq(e, h.dst)
  <2>1. Truthful(ep, n, e)
    BY <1>4, <1>5, EnqueTruthful
  <2> HIDE DEF e
  <2>2. /\ DOMAIN d = DOMAIN e /\ d.id = e.id /\ d.address = e.address /\ d.dht = e.dht
        /\ d.queue = e.queue /\ d.pkt = e.pkt /\ d.out = e.out \o Darq(e, h.dst)
    BY <2>1 DEF SendDarq, Truthful, Fields
  <2>3. Spoken(ep, d.out)
    BY <2>1, <2>2, DarqSpoken, SpokenTogether DEF Truthful
  <2>4. Format(g, u) = d
    BY <1>2, <1>7 DEF e
  <2> HIDE DEF d
  <2>5. Truthful(ep, n, d)
    BY <2>1, <2>2, <2>3 DEF Truthful
  <2> QED BY <2>4, <2>5 DEF g
<1> QED BY <1>6, <1>7

\* recv, of a packet with header p that another node forwarded.
LEMMA RecvDataTruthful ==
  ASSUME NEW ep, NEW n \in Nodes, NEW s, Truthful(ep, n, s), NEW u \in Uids,
         NEW p, Tells(ep, u, p)
  PROVE  Truthful(ep, n, RecvData(s, u, p))
<1> DEFINE q(fate) == [p EXCEPT !.up = TRUE, !.fate = fate]
           here(fate) == [s EXCEPT !.pkt[u] = q(fate)]
<1>1. RecvData(s, u, p) \in {here("DROP_RTR_ROUTE_LOOP"), Forward(here("new"), u)}
  BY DEF RecvData
<1>2. ASSUME NEW fate \in {"DROP_RTR_ROUTE_LOOP", "new"}
      PROVE  Truthful(ep, n, here(fate)) /\ here(fate).pkt[u] = q(fate) /\ Tells(ep, u, q(fate))
  <2>1. Tells(ep, u, q(fate)) /\ Carries(ep, u, q(fate)) /\ q(fate).fate # "mac"
    BY DEF Tells, Carries, Blank
  <2> HIDE DEF q
  <2> QED BY <2>1, PutTruthful, PutReads
<1> HIDE DEF q, here
<1> QED BY <1>1, <1>2, ForwardTruthful

\* macFailed, of a packet at the interface.
LEMMA LinkFailedTruthful ==
  ASSUME NEW ep, NEW n \in Nodes, NEW s, Truthful(ep, n, s), NEW u \in Uids,
         s.pkt[u].fate = "mac"
  PROVE  Truthful(ep, n, LinkFailed(s, u))
<1> DEFINE p == s.pkt[u]
           t == TableMacFailed(s, p.nextHop)
           c == [p EXCEPT !.txCount = @ + 1]
           counted == [t EXCEPT !.pkt[u] = c]
           back == [p EXCEPT !.fate = "DROP_RTR_MAC_CALLBACK"]
           over == [c EXCEPT !.fate = "DROP_RTR_TX_COUNT"]
<1>1. Tells(ep, u, p)
  BY DEF Truthful, Holding
<1>2. /\ Tells(ep, u, c) /\ Carries(ep, u, c)
      /\ Carries(ep, u, back) /\ back.fate # "mac" /\ Carries(ep, u, over) /\ over.fate # "mac"
  BY <1>1 DEF Tells, Carries, Blank
<1>3. Truthful(ep, n, t) /\ t.pkt = s.pkt
  <2>1. /\ DOMAIN t = DOMAIN s /\ t.id = s.id /\ t.address = s.address /\ t.dht = s.dht
        /\ t.queue = s.queue /\ t.pkt = s.pkt /\ t.out = s.out
    BY DEF TableMacFailed, Truthful, Fields
  <2> HIDE DEF t
  <2> QED BY <2>1 DEF Truthful
<1>4. LinkFailed(s, u) \in {[s EXCEPT !.pkt[u] = back], Forward(counted, u), [counted EXCEPT !.pkt[u] = over]}
  <2>1. [s EXCEPT !.pkt[u].fate = "DROP_RTR_MAC_CALLBACK"] = [s EXCEPT !.pkt[u] = back]
    OBVIOUS
  <2>2. [t EXCEPT !.pkt[u].txCount = @ + 1] = counted
    <3> HIDE DEF t
    <3> QED BY <1>3
  <2>3. [counted EXCEPT !.pkt[u].fate = "DROP_RTR_TX_COUNT"] = [counted EXCEPT !.pkt[u] = over]
    <3>1. counted.pkt[u] = c
      <4> HIDE DEF t, c
      <4> QED BY <1>3, PutReads
    <3> HIDE DEF counted, c
    <3> QED BY <3>1
  <2> HIDE DEF back, counted, over
  <2> QED BY <2>1, <2>2, <2>3 DEF LinkFailed
<1> HIDE DEF t, c, back, over, p
<1>5. Truthful(ep, n, counted) /\ counted.pkt[u] = c
  BY <1>2, <1>3, PutTruthful, PutReads
<1>6. Truthful(ep, n, [s EXCEPT !.pkt[u] = back])
  BY <1>2, PutTruthful
<1> HIDE DEF counted
<1>7. Truthful(ep, n, Forward(counted, u))
  BY <1>2, <1>5, ForwardTruthful
<1>8. Truthful(ep, n, [counted EXCEPT !.pkt[u] = over])
  BY <1>2, <1>5, PutTruthful
<1> QED BY <1>4, <1>6, <1>7, <1>8

(***************************************************************************)
(* The network.                                                            *)
(***************************************************************************)
\* A message under way.
Heard(ep, f) == f.at \in Nodes /\ Says(ep, f.msg)

\* Everything that nodes hold and messages say is or was true.
IInv ==
  /\ era \in 1 .. Len(Links) /\ epoch \in [Nodes -> 1 .. Len(Links)]
  /\ DOMAIN node = Nodes /\ \A n \in Nodes : Truthful(epoch, n, node[n])
  /\ \A f \in net : Heard(epoch, f)

\* The network has at least one era.
LEMMA Stages == Len(Links) \in Nat /\ 1 \in 1 .. Len(Links)
BY DiscoveryAssumption

\* What is given to the interface is forgotten, and what the node no longer has.
LEMMA SettleTruthful ==
  ASSUME NEW ep, NEW n, NEW s, Truthful(ep, n, s)
  PROVE  Truthful(ep, n, Settle(s))
<1> DEFINE t == Settle(s)
           pkts == [u \in Uids |-> IF Has(s, u) THEN s.pkt[u] ELSE Blank]
<1>1. /\ DOMAIN t = DOMAIN s /\ t.id = s.id /\ t.address = s.address /\ t.dht = s.dht
      /\ t.queue = s.queue /\ t.pkt = pkts /\ t.out = << >>
  BY DEF Settle, Truthful, Fields
<1> HIDE DEF t
<1>2. Holding(ep, n, s.queue, pkts)
  <2>1. \A u \in Uids : pkts[u] = s.pkt[u] \/ (u \notin s.queue /\ pkts[u].fate = "unborn")
    BY DEF Has, Blank
  <2>2. DOMAIN pkts = Uids
    OBVIOUS
  <2> HIDE DEF pkts
  <2>3. ASSUME NEW u \in s.queue PROVE Wants[u][1] = n /\ Carries(ep, u, pkts[u])
    BY <2>1 DEF Truthful, Holding
  <2>4. ASSUME NEW u \in Uids, pkts[u].fate = "mac" PROVE Tells(ep, u, pkts[u])
    BY <2>1, <2>4 DEF Truthful, Holding
  <2> QED BY <2>2, <2>3, <2>4 DEF Truthful, Holding
<1> HIDE DEF pkts
<1> QED BY <1>1, <1>2, SpokenNothing DEF Truthful, t

\* Its messages are heard as they were sent.
LEMMA FramesHeard ==
  ASSUME NEW ep, NEW n, NEW q, Spoken(ep, q), NEW f \in Frames(n, q)
  PROVE  Heard(ep, f)
<1>1. PICK i \in DOMAIN q :
        /\ q[i].type # "DATA"
        /\ f \in {[at |-> m, msg |-> q[i]] : m \in Receivers(n, q[i].to)}
  BY DEF Frames
<1>2. Says(ep, q[i])
  BY <1>1 DEF Spoken
<1>3. Receivers(n, q[i].to) \subseteq Nodes
  BY DEF Receivers, InRange
<1>4. f.at \in Nodes /\ f.msg = q[i]
  BY <1>1, <1>3
<1> QED BY <1>2, <1>4 DEF Heard

\* A node ends a handler in state s, in its epoch or a later one.
LEMMA BecomeIInv ==
  ASSUME IInv, era' = era, epoch' \in [Nodes -> 1 .. Len(Links)],
         \A x \in Nodes : epoch[x] <= epoch'[x],
         NEW n \in Nodes, NEW s, Truthful(epoch', n, s), NEW rest \in SUBSET net,
         Become(n, s, rest)
  PROVE  IInv'
<1>1. epoch \in [Nodes -> Nat] /\ epoch' \in [Nodes -> Nat]
  BY Stages DEF IInv
<1>2. /\ DOMAIN node' = Nodes /\ node'[n] = Settle(s)
      /\ \A m \in Nodes \ {n} : node'[m] = node[m]
  BY DEF Become, IInv
<1>3. ASSUME NEW m \in Nodes PROVE Truthful(epoch', m, node'[m])
  <2>1. CASE m = n
    BY <1>2, <2>1, SettleTruthful
  <2>2. CASE m # n
    <3>1. Truthful(epoch, m, node[m]) /\ node'[m] = node[m]
      BY <1>2, <2>2 DEF IInv
    <3> QED BY <1>1, <3>1, TruthfulLater
  <2> QED BY <2>1, <2>2
<1>4. ASSUME NEW f \in net' PROVE Heard(epoch', f)
  <2>1. CASE f \in net
    BY <1>1, <2>1, SaysLater DEF IInv, Heard
  <2>2. CASE f \in Frames(n, s.out)
    BY <2>2, FramesHeard DEF Truthful
  <2> QED BY <2>1, <2>2 DEF Become
<1> QED BY <1>2, <1>3, <1>4 DEF IInv

\* At first nodes know nothing.
LEMMA InitIInv == Init => IInv
<1> SUFFICES ASSUME Init PROVE IInv
  OBVIOUS
<1>1. era \in 1 .. Len(Links) /\ epoch \in [Nodes -> 1 .. Len(Links)]
  BY Stages DEF Init
<1>2. ASSUME NEW n \in Nodes PROVE Truthful(epoch, n, node[n])
  <2>1. /\ DOMAIN node[n] = Fields /\ node[n].id = n /\ node[n].address = Addresses[1][n]
        /\ DOMAIN node[n].dht = {} /\ node[n].queue = {}
        /\ node[n].pkt = [u \in Uids |-> Blank] /\ node[n].out = << >>
    BY DEF Init, Fields
  <2>2. Had(epoch, n, node[n].address)
    <3>1. 1 \in 1 .. epoch[n]
      BY <1>1, Stages
    <3> QED BY <2>1, <3>1 DEF Had
  <2>3. Holding(epoch, n, node[n].queue, node[n].pkt)
    BY <2>1 DEF Holding, Blank
  <2> QED BY <2>1, <2>2, <2>3, SpokenNothing, FS_EmptySet DEF Truthful
<1> QED BY <1>1, <1>2 DEF IInv, Init

\* A handler that changes no epoch.
LEMMA HandledIInv ==
  ASSUME IInv, UNCHANGED <<era, epoch>>, NEW n \in Nodes, NEW s, Truthful(epoch, n, s),
         NEW rest \in SUBSET net, Become(n, s, rest)
  PROVE  IInv'
<1>1. era' = era /\ epoch' = epoch /\ epoch \in [Nodes -> 1 .. Len(Links)]
  BY DEF IInv
<1>2. \A x \in Nodes : epoch[x] <= epoch'[x]
  BY <1>1, Stages
<1>3. Truthful(epoch', n, s)
  BY <1>1
<1> QED BY <1>1, <1>2, <1>3, BecomeIInv

\* An application's packet.
LEMMA OriginateIInv ==
  ASSUME IInv, NEW u \in Uids, Originate(u)
  PROVE  IInv'
<1> DEFINE n == Wants[u][1]
           h == [Blank EXCEPT !.dst = Wants[u][2], !.src = n, !.fate = "new"]
           s == Format([node[n] EXCEPT !.pkt[u] = h], u)
<1>1. n \in Nodes
  BY DiscoveryAssumption
<1>2. DOMAIN h = DOMAIN Blank /\ h.forId = 0 /\ h.fate = "new"
  BY DEF Blank
<1>3. Become(n, s, net) /\ UNCHANGED <<era, epoch>>
  BY DEF Originate
<1> HIDE DEF h
<1>4. Truthful(epoch, n, s)
  <2>1. Truthful(epoch, n, node[n]) /\ Wants[u][1] = n
    BY <1>1 DEF IInv
  <2> HIDE DEF n
  <2> QED BY <1>1, <1>2, <2>1, FormatTruthful
<1> HIDE DEF s, n
<1> QED BY <1>1, <1>3, <1>4, HandledIInv

\* A data packet reaches the next hop.
LEMMA PassIInv ==
  ASSUME IInv, NEW n \in Nodes, NEW u \in Uids, Pass(n, u)
  PROVE  IInv'
<1> DEFINE p == node[n].pkt[u]
           m == p.nextHop
           s == RecvData(node[m], u, p)
           gone == [p EXCEPT !.fate = "sent"]
           left == [node[n] EXCEPT !.pkt[u] = gone]
<1>1. /\ p.fate = "mac" /\ m \in Nodes \ {n} /\ era' = era /\ epoch' = epoch
      /\ node' = [node EXCEPT ![n] = Settle(left), ![m] = Settle(s)]
      /\ net' = net \cup Frames(m, s.out)
  BY DEF Pass, InRange
<1>2. Truthful(epoch, n, node[n]) /\ Tells(epoch, u, p)
  BY <1>1 DEF IInv, Truthful, Holding
<1>3. Truthful(epoch, m, Settle(s)) /\ Truthful(epoch, m, s)
  <2>1. Truthful(epoch, m, s)
    BY <1>1, <1>2, RecvDataTruthful DEF IInv
  <2> QED BY <2>1, SettleTruthful
<1>4. Truthful(epoch, n, Settle(left))
  <2>1. Carries(epoch, u, gone) /\ gone.fate # "mac"
    BY <1>2 DEF Tells, Carries, Blank
  <2> HIDE DEF gone
  <2>2. Truthful(epoch, n, left)
    BY <1>2, <2>1, PutTruthful
  <2> QED BY <2>2, SettleTruthful
<1> HIDE DEF s, left, p, m
<1>5. /\ DOMAIN node' = Nodes
      /\ \A x \in Nodes : node'[x] = IF x = m THEN Settle(s) ELSE IF x = n THEN Settle(left) ELSE node[x]
  BY <1>1 DEF IInv
<1>6. ASSUME NEW x \in Nodes PROVE Truthful(epoch, x, node'[x])
  BY <1>3, <1>4, <1>5 DEF IInv
<1>7. ASSUME NEW f \in net' PROVE Heard(epoch, f)
  BY <1>1, <1>3, <1>7, FramesHeard DEF IInv, Truthful
<1> QED BY <1>1, <1>5, <1>6, <1>7 DEF IInv

\* The interface fails to deliver a data packet.
LEMMA FailIInv ==
  ASSUME IInv, NEW n \in Nodes, NEW u \in Uids, Fail(n, u)
  PROVE  IInv'
<1> DEFINE s == LinkFailed(node[n], u)
<1>1. node[n].pkt[u].fate = "mac" /\ Become(n, s, net) /\ UNCHANGED <<era, epoch>>
  BY DEF Fail
<1>2. Truthful(epoch, n, s)
  BY <1>1, LinkFailedTruthful DEF IInv
<1> HIDE DEF s
<1> QED BY <1>1, <1>2, HandledIInv

\* checkDarq.
LEMMA RetryIInv ==
  ASSUME IInv, NEW n \in Nodes, Retry(n)
  PROVE  IInv'
<1> DEFINE s == [CheckDarq(node[n]) EXCEPT !.pkt = node[n].pkt]
<1>1. Truthful(epoch, n, s)
  BY RetryTruthful DEF IInv
<1>2. Become(n, s, net) /\ UNCHANGED <<era, epoch>>
  BY DEF Retry
<1> HIDE DEF s
<1> QED BY <1>1, <1>2, HandledIInv

\* A HELLO says the address that its sender has.
LEMMA HelloIInv ==
  ASSUME IInv, NEW n \in Nodes, NEW lost, Hello(n, lost)
  PROVE  IInv'
<1>1. /\ era' = era /\ epoch' = epoch /\ net' = net /\ DOMAIN node' = Nodes
      /\ \A m \in Nodes : node'[m] \in
            {node[m], Settle(AddEntry(node[m], n, node[n].address))}
  BY DEF Hello
<1>2. ASSUME NEW m \in Nodes PROVE Truthful(epoch, m, node'[m])
  <2>1. Truthful(epoch, m, node[m]) /\ Had(epoch, n, node[n].address)
    BY DEF IInv, Truthful
  <2>2. Truthful(epoch, m, AddEntry(node[m], n, node[n].address))
    BY <2>1, AddEntryTruthful
  <2> QED BY <1>1, <2>1, <2>2, SettleTruthful
<1> QED BY <1>1, <1>2 DEF IInv

\* A message arrives, and the cache takes what it says.
LEMMA DeliverIInv ==
  ASSUME IInv, NEW f \in net, Deliver(f)
  PROVE  IInv'
<1> DEFINE n == f.at
           m == f.msg
<1>1. n \in Nodes /\ Says(epoch, m) /\ Truthful(epoch, n, node[n])
  BY DEF IInv, Heard
<1>2. PICK s \in RecvASPU(node[n], m) : Become(n, s, net \ {f})
  BY DEF Deliver
<1>3. UNCHANGED <<era, epoch>>
  BY DEF Deliver
<1> HIDE DEF n, m
<1>4. Truthful(epoch, n, s)
  <2>1. CASE IsRequest(epoch, m)
    <3>1. s = RecvDarq(node[n], m)
      BY <1>2, <2>1 DEF RecvASPU, IsRequest
    <3> QED BY <1>1, <2>1, <3>1, RecvDarqTruthful
  <2>2. CASE IsAnswer(epoch, m)
    <3>1. s = RecvDarp(node[n], m)
      BY <1>2, <2>2 DEF RecvASPU, IsAnswer
    <3> QED BY <1>1, <2>2, <3>1, RecvDarpTruthful
  <2>3. CASE IsBroadcast(epoch, m)
    <3>1. s \in RecvDabr(node[n], m)
      BY <1>2, <2>3 DEF RecvASPU, IsBroadcast
    <3>2. PICK order \in SetToSeqs(DOMAIN m.dht) : s = Read(node[n], m, order)
      BY <3>1 DEF RecvDabr
    <3> QED BY <1>1, <2>3, <3>2, ReadTruthful
  <2> QED BY <1>1, <2>1, <2>2, <2>3 DEF Says
<1> QED BY <1>1, <1>2, <1>3, <1>4, HandledIInv

\* The new address of a node is one that it has from now on.
LEMMA ChangeIInv ==
  ASSUME IInv, NEW n \in Nodes, Change(n)
  PROVE  IInv'
<1> DEFINE k == epoch[n] + 1
           s == [node[n] EXCEPT !.address = Addresses[k][n], !.table = Tables[k][n]]
           t == IF s.address = node[n].address THEN s ELSE UpdateAdd(s)
<1>1. /\ epoch[n] < era /\ epoch' = [epoch EXCEPT ![n] = k] /\ era' = era
      /\ Become(n, t, net)
  BY DEF Change
<1>2. k \in 1 .. Len(Links) /\ k \in 1 .. k /\ epoch[n] <= k
  BY <1>1, Stages DEF IInv
<1> HIDE DEF k
<1>3. /\ epoch' \in [Nodes -> 1 .. Len(Links)] /\ epoch \in [Nodes -> Nat]
      /\ \A x \in Nodes : epoch[x] <= epoch'[x] /\ epoch'[n] = k
  BY <1>1, <1>2, Stages DEF IInv
<1>4. Truthful(epoch', n, node[n])
  <2>1. epoch' \in [Nodes -> Nat]
    BY <1>1, <1>3
  <2> QED BY <1>3, <2>1, TruthfulLater DEF IInv
<1>5. Truthful(epoch', n, s)
  <2>1. /\ DOMAIN s = DOMAIN node[n] /\ s.id = node[n].id /\ s.address = Addresses[k][n]
        /\ s.dht = node[n].dht /\ s.queue = node[n].queue /\ s.pkt = node[n].pkt
        /\ s.out = node[n].out
    BY <1>4 DEF Truthful, Fields
  <2>2. Had(epoch', n, s.address)
    BY <1>2, <1>3, <2>1 DEF Had
  <2> HIDE DEF s
  <2> QED BY <1>4, <2>1, <2>2 DEF Truthful
<1> HIDE DEF s
<1>6. Truthful(epoch', n, t)
  BY <1>5, UpdateAddTruthful
<1> HIDE DEF t
<1> QED BY <1>1, <1>3, <1>6, BecomeIInv

\* The next era, which a node that it leaves as it is has reached.
LEMMA MoveIInv ==
  ASSUME IInv, Move
  PROVE  IInv'
<1>1. /\ era < Len(Links) /\ era' = era + 1 /\ node' = node /\ net' = net
      /\ epoch' = [n \in Nodes |-> IF Stays(n) THEN era + 1 ELSE epoch[n]]
  BY DEF Move
<1>2. era + 1 \in 1 .. Len(Links)
  BY <1>1, Stages DEF IInv
<1>3. /\ epoch' \in [Nodes -> 1 .. Len(Links)]
      /\ epoch \in [Nodes -> Nat] /\ epoch' \in [Nodes -> Nat]
  BY <1>1, <1>2, Stages DEF IInv
<1>4. \A x \in Nodes : epoch[x] <= epoch'[x]
  BY <1>1, <1>2, <1>3 DEF Stays
<1>5. ASSUME NEW n \in Nodes PROVE Truthful(epoch', n, node'[n])
  BY <1>1, <1>3, <1>4, TruthfulLater DEF IInv
<1>6. ASSUME NEW f \in net' PROVE Heard(epoch', f)
  BY <1>1, <1>3, <1>4, SaysLater DEF IInv, Heard
<1> QED BY <1>1, <1>2, <1>3, <1>5, <1>6 DEF IInv

\* NDP builds a table anew.
LEMMA RebuildIInv ==
  ASSUME IInv, NEW n \in Nodes, Rebuild(n)
  PROVE  IInv'
<1> DEFINE t == [node[n] EXCEPT !.table = Tables[epoch[n]][n]]
<1>1. node' = [node EXCEPT ![n] = t] /\ UNCHANGED <<era, epoch, net>>
  BY DEF Rebuild
<1>2. Truthful(epoch, n, node[n])
  BY DEF IInv
<1>3. /\ DOMAIN t = DOMAIN node[n] /\ t.id = node[n].id /\ t.address = node[n].address
      /\ t.dht = node[n].dht /\ t.queue = node[n].queue /\ t.pkt = node[n].pkt
      /\ t.out = node[n].out
  BY <1>2 DEF Truthful, Fields
<1> HIDE DEF t
<1>4. Truthful(epoch, n, t)
  BY <1>2, <1>3 DEF Truthful
<1> QED BY <1>1, <1>4 DEF IInv

\* Every step keeps everything true.
LEMMA NextIInv == IInv /\ [Next]_vars => IInv'
<1> SUFFICES ASSUME IInv, [Next]_vars PROVE IInv'
  OBVIOUS
<1>1. ASSUME NEW u \in Uids, Originate(u) PROVE IInv'
  BY <1>1, OriginateIInv
<1>2. ASSUME NEW n \in Nodes, Retry(n) \/ Change(n) \/ Rebuild(n) PROVE IInv'
  BY <1>2, RetryIInv, ChangeIInv, RebuildIInv
<1>3. ASSUME NEW n \in Nodes, NEW u \in Uids, Pass(n, u) \/ Fail(n, u) PROVE IInv'
  BY <1>3, PassIInv, FailIInv
<1>4. ASSUME NEW n \in Nodes, NEW lost \in SUBSET InRange(n), Hello(n, lost) PROVE IInv'
  BY <1>4, HelloIInv
<1>5. ASSUME NEW f \in net, Deliver(f) PROVE IInv'
  BY <1>5, DeliverIInv
<1>6. ASSUME NEW f \in net, Lose(f) PROVE IInv'
  BY <1>6 DEF Lose, IInv
<1>7. CASE Move
  BY <1>7, MoveIInv
<1>8. CASE UNCHANGED vars
  BY <1>8 DEF vars, IInv
<1> QED BY <1>1, <1>2, <1>3, <1>4, <1>5, <1>6, <1>7, <1>8 DEF Next

\* Whatever node passes an address on, by a HELLO, a DARQ, a DARP, the cache in a
\* DABR or the header of a data packet at any node on its way, however late and in
\* whatever order: a cache holds for a node, other than node 0, only what that
\* node has or had.
THEOREM NothingIsMadeUp == Spec => []CacheProvenance
<1>1. IInv => CacheProvenance
  BY DEF IInv, Truthful, Had, CacheProvenance
<1> QED BY <1>1, InitIInv, NextIInv, PTL DEF Spec
=============================================================================
