-------------------------- MODULE AspuAgentProofs ---------------------------
(***************************************************************************)
(* The invariants of AspuAgent, for every number of bits of an address, of *)
(* identifiers and packets, every queue length and timeout, and every      *)
(* environment that AgentAssumption admits.                                *)
(***************************************************************************)
EXTENDS AspuAgent, AspuNodeProofs

\* The invariant is NodeInv of the node's state, with what the timers and the
\* unread part of a DABR look like.  None of the four invariants it implies is
\* inductive alone: addEntry finds all the packets of an identifier only if the
\* queue holds packets the node formatted itself, and their headers must be
\* addressed for the table look-up to be defined.
EnvType ==
  /\ now \in Nat /\ now <= MaxTime
  /\ nextUid \in 1 .. (MaxPkts + 1)
  /\ dabr \in Seq([id : Ids, add : Addrs, age : Int])
  /\ checks \subseteq Timers
  /\ purgeAt \in Nat /\ counter \in 1 .. 2

AgentInv == EnvType /\ NodeInv(S, nextUid)

\* The inductive invariant implies the type invariant and what the theorems
\* below say of the queue.
LEMMA AgentInvImplies ==
  ASSUME AgentInv
  PROVE  TypeOK /\ NoWaitingForKnown /\ QueueOwnsItsPackets /\ QueuedIsFresh
<1>1. /\ S.address = address /\ S.dht = dht /\ S.queue = queue /\ S.pkt = pkt
      /\ S.table = table /\ S.id = Self
  BY DEF S
<1>2. TypeOK
  BY <1>1 DEF AgentInv, EnvType, NodeInv, NodeType, TypeOK
<1>3. NoWaitingForKnown
  BY <1>1 DEF AgentInv, NodeInv, QueueInv, NoWaitingForKnown
<1>4. QueueOwnsItsPackets
  BY <1>1 DEF AgentInv, NodeInv, QueueInv, QueueOwnsItsPackets
<1>5. QueuedIsFresh
  BY <1>1 DEF AgentInv, NodeInv, QueueInv, QueuedIsFresh, Fresh
<1> QED BY <1>2, <1>3, <1>4, <1>5

\* An agent as the constructors of ASPU, ADP and DHT leave it satisfies it.
LEMMA InitAgentInv == Init => AgentInv
<1> SUFFICES ASSUME Init PROVE AgentInv
  OBVIOUS
<1>1. EnvType
  BY NodeAssumption, AgentAssumption DEF Init, EnvType, Timers
<1>2. Blank \in Header /\ Blank.fate = "unborn"
  BY NodeAssumption, ZeroAddType DEF Blank, Header
<1>3. /\ S.id = Self /\ S.now = 0 /\ S.address = ZeroAdd /\ S.dht = [x \in {} |-> 0]
      /\ S.queue = {} /\ S.pkt = [u \in Uids |-> Blank] /\ S.table = {}
      /\ DOMAIN S = {"id", "now", "address", "dht", "queue", "pkt", "table", "out"}
  BY DEF Init, S
<1> HIDE DEF S
<1>4. NodeType(S)
  BY <1>2, <1>3, AgentAssumption, ZeroAddType DEF NodeType
<1>5. QueueInv(S)
  <2>1. Cardinality({}) <= ASPU_QUEUE_LEN
    BY FS_EmptySet, NodeAssumption
  <2> QED BY <2>1, <1>2, <1>3 DEF QueueInv
<1>6. NodeInv(S, nextUid)
  <2>1. nextUid = 1
    BY DEF Init
  <2> QED BY <2>1, <1>2, <1>3, <1>4, <1>5 DEF NodeInv, OneEntryPerAddress, Uids
<1> QED BY <1>1, <1>6 DEF AgentInv

(***************************************************************************)
(* The handlers of the agent.                                              *)
(***************************************************************************)
\* format, of a packet that an application has just handed over.
LEMMA FormatInv ==
  ASSUME NEW s, NEW n \in Nat, NodeInv(s, n), NEW u \in Uids, u \notin s.queue, u < n,
         s.pkt[u].dst # s.id, s.pkt[u].forId = 0, s.pkt[u].forAdd = ZeroAdd,
         s.pkt[u].txCount = 0, ~s.pkt[u].up, s.pkt[u].fate = "new"
  PROVE  Kept(s, Format(s, u), n)
<1> DEFINE d == s.pkt[u].dst
           p == [s.pkt[u] EXCEPT !.dstAdd = FindAdd(s, d), !.src = s.id, !.srcAdd = s.address]
           f == [s EXCEPT !.pkt[u] = p]
<1>1. s.pkt[u] \in Header /\ s.id \in Ids /\ s.address \in Addrs
  BY DEF NodeInv, NodeType
<1>2. /\ d \in DOMAIN s.dht => FindAdd(s, d) \in Addrs
      /\ FindAdd(s, d) \in Addrs \cup {NoAdd}
  <2>1. \A x \in DOMAIN s.dht : s.dht[x].add \in Addrs
    BY DEF NodeInv, NodeType, DHT_Entry
  <2> QED BY <2>1 DEF FindAdd
<1>3. /\ p \in Header /\ p.fate = "new" /\ p.dst = d /\ p.dstAdd = FindAdd(s, d)
      /\ p.src = s.id /\ p.forId = 0 /\ p.forAdd = ZeroAdd /\ p.txCount = 0 /\ ~p.up
  BY <1>1, <1>2 DEF Header
<1> HIDE DEF p
<1>4. Kept(s, f, n)
  BY <1>3, PutInv
<1>5. f.queue = s.queue /\ f.dht = s.dht /\ f.id = s.id /\ f.pkt[u] = p
  BY DEF NodeInv, NodeType
<1> HIDE DEF f
<1>6. CASE d \in DOMAIN s.dht
  <2>1. Kept(f, Forward(f, u), n)
    BY <1>2, <1>3, <1>4, <1>5, <1>6, ForwardInv DEF Kept
  <2>2. Kept(s, Forward(f, u), n)
    BY <2>1, <1>4, KeptTransitive
  <2> QED BY <2>2, <1>6 DEF Format, f, p
<1>7. CASE d \notin DOMAIN s.dht
  <2>1. Fresh(f, f.pkt[u])
    BY <1>3, <1>5 DEF Fresh
  <2>2. Kept(f, Enque(f, u), n)
    BY <2>1, <1>3, <1>4, <1>5, <1>7, EnqueInv DEF Kept
  <2>3. Kept(Enque(f, u), SendDarq(Enque(f, u), d), n)
    BY <2>2, SendDarqInv DEF Kept
  <2>4. Kept(s, SendDarq(Enque(f, u), d), n)
    BY <2>2, <2>3, <1>4, KeptTransitive
  <2> QED BY <2>4, <1>7 DEF Format, f, p
<1> QED BY <1>6, <1>7

\* recv, of a packet that a neighbour relayed.
LEMMA RecvDataInv ==
  ASSUME AgentInv, nextUid \in Uids, NEW h \in Transit
  PROVE  Kept(S, RecvData(S, h), nextUid + 1)
<1> DEFINE q(f) == [Relayed(h) EXCEPT !.fate = f]
           born(f) == [S EXCEPT !.pkt[nextUid] = q(f)]
<1>1. NodeInv(S, nextUid)
  BY DEF AgentInv
<1>2. Blank \in Header
  BY NodeAssumption, ZeroAddType DEF Blank, Header
<1>3. /\ Relayed(h) \in Header /\ Relayed(h).dstAdd \in Addrs /\ Relayed(h).fate = "new"
      /\ Relayed(h) = q("new")
  <2>1. /\ h.dst \in Ids \cup {IP_BROADCAST} /\ h.dstAdd \in Addrs
        /\ h.src \in Ids /\ h.srcAdd \in Addrs /\ h.forId \in Ids /\ h.forAdd \in Addrs
    BY AgentAssumption
  <2> QED BY <2>1, <1>2 DEF Relayed, Header, Held
<1>4. ASSUME NEW f \in {"new", "DROP_RTR_ROUTE_LOOP", "DROP_RTR_TTL"}
      PROVE  /\ Kept(S, born(f), nextUid + 1) /\ nextUid \notin born(f).queue
             /\ born(f).pkt[nextUid] = q(f)
  <2>1. q(f) \in Header /\ q(f).fate = f
    BY <1>3 DEF Header, Gone, Held
  <2> HIDE DEF q
  <2> QED BY <2>1, <1>1, ArriveInv
<1>5. Kept(S, Forward(born("new"), nextUid), nextUid + 1)
  <2> DEFINE b == born("new")
  <2>1. /\ Kept(S, b, nextUid + 1) /\ nextUid \notin b.queue
        /\ b.pkt[nextUid] = Relayed(h)
    BY <1>3, <1>4
  <2>2. nextUid + 1 \in Nat /\ nextUid < nextUid + 1
    BY DEF Uids
  <2> HIDE DEF b
  <2>3. Kept(b, Forward(b, nextUid), nextUid + 1)
    BY <2>1, <2>2, <1>3, ForwardInv DEF Kept
  <2>4. Kept(S, Forward(b, nextUid), nextUid + 1)
    BY <2>1, <2>3, KeptTransitive
  <2> QED BY <2>4 DEF b
<1>6. /\ Born(S, Relayed(h)) = born("new")
      /\ \A f : Born(S, [Relayed(h) EXCEPT !.fate = f]) = born(f)
  BY <1>3 DEF Born
<1> HIDE DEF born
<1> QED BY <1>4, <1>5, <1>6 DEF RecvData

\* macFailed, of a packet that the interface holds.
LEMMA LinkFailedInv ==
  ASSUME AgentInv, NEW u \in Uids, pkt[u].fate = "mac"
  PROVE  Kept(S, LinkFailed(S, u), nextUid)
<1> DEFINE t == TableMacFailed(S, S.pkt[u].nextHop)
           c == [S.pkt[u] EXCEPT !.txCount = @ + 1]
           counted == [t EXCEPT !.pkt[u] = c]
           q(f) == [S.pkt[u] EXCEPT !.fate = f]
           r(f) == [c EXCEPT !.fate = f]
<1>1. NodeInv(S, nextUid) /\ nextUid \in Nat /\ S.pkt[u].fate = "mac"
  BY DEF AgentInv, EnvType, S
<1> HIDE DEF S
<1>2. /\ S.pkt[u] \in Header /\ u \notin S.queue /\ u < nextUid /\ S.pkt[u].dstAdd \in Addrs
  <2>1. S.pkt[u] \in Header
    BY <1>1 DEF NodeInv, NodeType
  <2>2. u \notin S.queue
    BY <1>1 DEF NodeInv, QueueInv
  <2>3. ~(u >= nextUid) /\ S.pkt[u].dstAdd \in Addrs
    BY <1>1 DEF NodeInv
  <2> QED BY <2>1, <2>2, <2>3, <1>1 DEF Uids
<1>3. /\ Kept(S, t, nextUid) /\ t.queue = S.queue /\ t.pkt = S.pkt
  BY <1>1, TableMacFailedInv
<1> HIDE DEF t
<1>4. c \in Header /\ c.fate = "mac" /\ c.dstAdd = S.pkt[u].dstAdd
  <2>1. S.pkt[u].txCount + 1 \in Nat
    BY <1>2 DEF Header
  <2> QED BY <2>1, <1>1, <1>2 DEF Header
<1>5. q("DROP_RTR_MAC_CALLBACK") \in Header
  BY <1>2 DEF Header, Gone
<1>6. q("DROP_RTR_MAC_CALLBACK").fate = "DROP_RTR_MAC_CALLBACK"
  BY <1>2 DEF Header
<1>7. /\ r("DROP_RTR_TX_COUNT") \in Header
      /\ r("DROP_RTR_TX_COUNT").fate = "DROP_RTR_TX_COUNT"
  <2> HIDE DEF c
  <2> QED BY <1>4 DEF Header, Gone
<1> HIDE DEF c
<1>8. Kept(S, counted, nextUid)
  <2>1. Kept(t, counted, nextUid)
    BY <1>1, <1>2, <1>3, <1>4, PutInv DEF Kept
  <2> QED BY <2>1, <1>3, KeptTransitive
<1>9. counted.queue = S.queue /\ counted.pkt[u] = c
  BY <1>3 DEF Kept, NodeInv, NodeType
<1>10. Kept(S, Forward(counted, u), nextUid)
  <2> HIDE DEF counted
  <2>1. Kept(counted, Forward(counted, u), nextUid)
    BY <1>1, <1>2, <1>4, <1>8, <1>9, ForwardInv DEF Kept
  <2> QED BY <2>1, <1>8, KeptTransitive
<1>11. Kept(S, [S EXCEPT !.pkt[u] = q("DROP_RTR_MAC_CALLBACK")], nextUid)
  <2> HIDE DEF q
  <2> QED BY <1>1, <1>2, <1>5, <1>6, PutInv
<1>12. Kept(S, [counted EXCEPT !.pkt[u] = r("DROP_RTR_TX_COUNT")], nextUid)
  <2> HIDE DEF r, counted
  <2>1. Kept(counted, [counted EXCEPT !.pkt[u] = r("DROP_RTR_TX_COUNT")], nextUid)
    BY <1>1, <1>2, <1>7, <1>8, <1>9, PutInv DEF Kept
  <2> QED BY <2>1, <1>8, KeptTransitive
<1>13. /\ [S EXCEPT !.pkt[u].fate = "DROP_RTR_MAC_CALLBACK"]
            = [S EXCEPT !.pkt[u] = q("DROP_RTR_MAC_CALLBACK")]
       /\ [t EXCEPT !.pkt[u].txCount = @ + 1] = counted
       /\ [counted EXCEPT !.pkt[u].fate = "DROP_RTR_TX_COUNT"]
            = [counted EXCEPT !.pkt[u] = r("DROP_RTR_TX_COUNT")]
  BY <1>3, <1>9 DEF c
<1> HIDE DEF counted, q, r
<1> QED BY <1>10, <1>11, <1>12, <1>13, <1>8 DEF LinkFailed, t

(***************************************************************************)
(* The steps of the agent.                                                 *)
(***************************************************************************)
\* A handler that keeps the invariant of the node's state, once its outcome is
\* the new state, keeps the invariant of the variables.
LEMMA BecomeInv ==
  ASSUME NEW t, NEW n, Kept(S, t, n), Become(t), UNCHANGED now
  PROVE  NodeInv(S, n)'
<1>1. /\ NodeInv(t, n) /\ t.id = Self /\ t.now = now
  BY DEF Kept, S
<1>2. /\ S'.id = t.id /\ S'.now = t.now /\ S'.address = t.address /\ S'.dht = t.dht
      /\ S'.queue = t.queue /\ S'.pkt = t.pkt /\ S'.table = t.table
      /\ DOMAIN S' = {"id", "now", "address", "dht", "queue", "pkt", "table", "out"}
  BY <1>1 DEF Become, S
<1> HIDE DEF S
<1>3. NodeInv(S', n)
  BY <1>1, <1>2 DEF NodeInv, NodeType, QueueInv, Fresh
<1> QED BY <1>3

\* Every event the scheduler dispatches keeps the inductive invariant.
LEMMA StepAgentInv == AgentInv /\ [Next]_vars => AgentInv'
<1> SUFFICES ASSUME AgentInv, [Next]_vars PROVE AgentInv'
  OBVIOUS
<1> USE DEF EnvType
<1>0. NodeInv(S, nextUid) /\ Kept(S, S, nextUid)
  BY DEF AgentInv, Kept
<1>1. ASSUME NEW d \in LocalDsts, RecvLocal(d) PROVE AgentInv'
  <2> DEFINE q == [Blank EXCEPT !.dst = d, !.src = Self, !.fate = "new"]
             b == Born(S, q)
  <2>1. nextUid \in Uids /\ nextUid' = nextUid + 1 /\ UNCHANGED now
    BY <1>1 DEF RecvLocal, NewPacket
  <2>2. Blank \in Header
    BY NodeAssumption, ZeroAddType DEF Blank, Header
  <2>3. /\ q \in Header /\ q.fate = "new" /\ q.dst # Self
        /\ q.forId = 0 /\ q.forAdd = ZeroAdd /\ q.txCount = 0 /\ ~q.up
    BY <2>2, AgentAssumption DEF Blank, Header, Held
  <2> HIDE DEF q
  <2>4. Kept(S, b, nextUid + 1) /\ nextUid \notin b.queue /\ b.pkt[nextUid] = q
    BY <2>1, <2>3, <1>0, ArriveInv DEF Born
  <2> HIDE DEF b
  <2>5. nextUid + 1 \in Nat /\ nextUid < nextUid + 1 /\ b.id = Self
    BY <2>1, <2>4 DEF Uids, Kept, S
  <2>6. Kept(b, Format(b, nextUid), nextUid + 1)
    BY <2>1, <2>3, <2>4, <2>5, FormatInv DEF Kept
  <2>7. Kept(S, Format(b, nextUid), nextUid + 1)
    BY <2>4, <2>6, KeptTransitive
  <2>8. Become(Format(b, nextUid))
    BY <1>1 DEF RecvLocal, b, q
  <2>9. NodeInv(S', nextUid + 1)
    BY <2>1, <2>7, <2>8, BecomeInv
  <2>10. EnvType'
    BY <2>1, <1>1, NodeAssumption DEF RecvLocal, AgentInv, Uids
  <2>11. NodeInv(S, nextUid)'
    BY <2>1, <2>9
  <2> QED BY <2>10, <2>11 DEF AgentInv
<1>2. ASSUME NEW h \in Transit, RecvTransit(h) PROVE AgentInv'
  <2>1. nextUid \in Uids /\ nextUid' = nextUid + 1 /\ UNCHANGED now
    BY <1>2 DEF RecvTransit, NewPacket
  <2>2. NodeInv(S', nextUid + 1)
    BY <2>1, <1>2, RecvDataInv, BecomeInv DEF RecvTransit
  <2>3. EnvType'
    BY <2>1, <1>2, NodeAssumption DEF RecvTransit, AgentInv, Uids
  <2>4. NodeInv(S, nextUid)'
    BY <2>1, <2>2
  <2> QED BY <2>3, <2>4 DEF AgentInv
<1>3. ASSUME NEW u \in Uids, MacFailed(u) PROVE AgentInv'
  <2>1. NodeInv(S', nextUid)
    BY <1>3, LinkFailedInv, BecomeInv DEF MacFailed
  <2> QED BY <2>1, <1>3 DEF MacFailed, AgentInv
<1>4. ASSUME NEW u \in Uids, MacDone(u) PROVE AgentInv'
  <2> DEFINE q == [S.pkt[u] EXCEPT !.fate = "sent"]
             t == [S EXCEPT !.pkt[u] = q]
  <2>1. S.pkt[u] \in Header /\ S.pkt[u].fate = "mac" /\ nextUid \in Nat
    BY <1>0, <1>4 DEF MacDone, S, NodeInv, NodeType, AgentInv
  <2>2. u \notin S.queue /\ u < nextUid
    <3>1. u \notin S.queue /\ ~(u >= nextUid)
      BY <2>1, <1>0 DEF NodeInv, QueueInv
    <3> QED BY <3>1, <2>1 DEF Uids
  <2>3. q \in Header /\ q.fate = "sent"
    BY <2>1 DEF Header, Gone
  <2>4. Kept(S, t, nextUid)
    <3> HIDE DEF q
    <3> QED BY <1>0, <2>1, <2>2, <2>3, PutInv
  <2>5. Become(t) /\ UNCHANGED now
    BY <1>4 DEF MacDone
  <2> HIDE DEF t
  <2>6. NodeInv(S', nextUid)
    BY <2>4, <2>5, BecomeInv
  <2> QED BY <2>6, <1>4 DEF MacDone, AgentInv
<1>5. ASSUME NEW t, Kept(S, t, nextUid), RecvControl(t) PROVE AgentInv'
  <2>1. NodeInv(S', nextUid)
    BY <1>5, BecomeInv DEF RecvControl
  <2> QED BY <2>1, <1>5 DEF RecvControl, AgentInv
<1>6. ASSUME NEW m \in Hellos, RecvHello(m) PROVE AgentInv'
  <2>1. Kept(S, AddEntry(S, m.src, m.srcAdd), nextUid)
    BY <1>0, AgentAssumption, AddEntryLearns, LearntKept
  <2> QED BY <2>1, <1>5, <1>6 DEF RecvHello
<1>7. ASSUME NEW m \in Darqs, RecvDARQ(m) PROVE AgentInv'
  <2>1. ControlType(m)
    BY AgentAssumption DEF ControlType
  <2>2. Kept(S, RecvDarq(S, m), nextUid)
    BY <1>0, <2>1, RecvDarqInv
  <2> QED BY <2>2, <1>5, <1>7 DEF RecvDARQ
<1>8. ASSUME NEW m \in Darps, RecvDARP(m) PROVE AgentInv'
  <2>1. ControlType(m) /\ m.dst \in Ids /\ m.req \in Ids /\ m.reqAdd \in Addrs
    BY AgentAssumption DEF ControlType
  <2>2. Kept(S, RecvDarp(S, m), nextUid)
    BY <1>0, <2>1, RecvDarpInv
  <2> QED BY <2>2, <1>5, <1>8 DEF RecvDARP
<1>9. ASSUME NEW m \in Daups, RecvDAUP(m) PROVE AgentInv'
  <2>1. ControlType(m)
    BY AgentAssumption DEF ControlType
  <2>2. Kept(S, RecvDaup(S, m), nextUid)
    BY <1>0, <2>1, RecvDaupInv
  <2> QED BY <2>2, <1>5, <1>9 DEF RecvDAUP
<1>10. ASSUME NEW m \in Dabrs, RecvDABR(m) PROVE AgentInv'
  <2>1. Become(S) /\ UNCHANGED <<now, nextUid, checks, purgeAt, counter>> /\ dabr' = m
    BY <1>10 DEF RecvDABR
  <2>2. NodeInv(S', nextUid)
    BY <1>0, <2>1, BecomeInv
  <2> QED BY <2>1, <2>2, AgentAssumption DEF AgentInv
<1>11. ASSUME DabrEntry PROVE AgentInv'
  <2>1. /\ Head(dabr) \in [id : Ids, add : Addrs, age : Int]
        /\ Tail(dabr) \in Seq([id : Ids, add : Addrs, age : Int])
    <3> DEFINE E == [id : Ids, add : Addrs, age : Int]
    <3>1. dabr \in Seq(E) /\ dabr # << >>
      BY <1>11 DEF DabrEntry, AgentInv
    <3> HIDE DEF E
    <3>2. Head(dabr) \in E /\ Tail(dabr) \in Seq(E)
      BY <3>1
    <3> QED BY <3>2 DEF E
  <2>2. Expiry(Head(dabr)) \in Nat
    BY <2>1 DEF Expiry, AgentInv
  <2> DEFINE t == AddEntryUntil(S, Head(dabr).id, Head(dabr).add, Expiry(Head(dabr)))
  <2>3. Kept(S, t, nextUid)
    BY <1>0, <2>1, <2>2, AddEntryUntilInv DEF Kept, SameNode
  <2>4. Become(t) /\ UNCHANGED <<now, nextUid, checks, purgeAt, counter>>
        /\ dabr' = Tail(dabr)
    BY <1>11 DEF DabrEntry
  <2> HIDE DEF t
  <2>5. NodeInv(S', nextUid)
    BY <2>3, <2>4, BecomeInv
  <2> QED BY <2>1, <2>4, <2>5 DEF AgentInv
<1>12. ASSUME NEW t \in Tables, AddressKept(t) PROVE AgentInv'
  <2>1. Kept(S, [S EXCEPT !.table = t], nextUid)
    BY <1>0, AgentAssumption, TableInv
  <2>2. NodeInv(S', nextUid)
    BY <2>1, <1>12, BecomeInv DEF AddressKept
  <2> QED BY <2>2, <1>12 DEF AddressKept, AgentInv
<1>13. ASSUME NEW a \in NewAddrs, NEW t \in Tables, AddressSelected(a, t) PROVE AgentInv'
  <2> DEFINE r == [S EXCEPT !.address = a, !.table = {}]
             moved == [S EXCEPT !.address = a]
             empty == [moved EXCEPT !.table = {}]
             l == UpdateAdd(r)
             w == [l EXCEPT !.table = t]
  <2>1. Kept(S, moved, nextUid)
    BY <1>0, AgentAssumption, AddressInv
  <2>2. Kept(S, empty, nextUid)
    <3> HIDE DEF moved
    <3>1. Kept(moved, empty, nextUid)
      BY <2>1, TableInv DEF OneEntryPerAddress, Kept
    <3> QED BY <2>1, <3>1, KeptTransitive
  <2>3. r = empty
    OBVIOUS
  <2>4. Kept(S, r, nextUid)
    BY <2>2, <2>3
  <2> HIDE DEF r
  <2>5. Kept(S, l, nextUid)
    BY <2>4, UpdateAddInv, KeptTransitive DEF Kept
  <2> HIDE DEF l
  <2>6. Kept(S, w, nextUid)
    <3>1. Kept(l, w, nextUid)
      BY <2>5, AgentAssumption, TableInv DEF Kept
    <3> QED BY <2>5, <3>1, KeptTransitive
  <2>7. Become(w)
    BY <1>13 DEF AddressSelected, l, r
  <2> HIDE DEF w
  <2>8. NodeInv(S', nextUid)
    BY <2>6, <2>7, <1>13, BecomeInv DEF AddressSelected
  <2> QED BY <2>8, <1>13 DEF AddressSelected, AgentInv
<1>14. ASSUME NEW t \in Timers, DarqTimer(t) PROVE AgentInv'
  <2>1. Kept(S, CheckDarq(S), nextUid)
    BY <1>0, CheckDarqInv
  <2>2. NodeInv(S', nextUid)
    BY <2>1, <1>14, BecomeInv DEF DarqTimer
  <2> QED BY <2>2, <1>14 DEF DarqTimer, AgentInv
<1>15. ASSUME DHTTimer PROVE AgentInv'
  <2> DEFINE t == [S EXCEPT !.dht = IF counter > 1 THEN DHTPurged(@, now) ELSE @]
  <2>1. Kept(S, t, nextUid)
    <3>1. S.now = now
      BY DEF S
    <3>2. CASE counter > 1
      BY <1>0, <3>1, <3>2, PurgeInv
    <3>3. CASE ~(counter > 1)
      <4>1. t = S
        BY <3>3 DEF S
      <4> QED BY <4>1, <1>0
    <3> QED BY <3>2, <3>3
  <2>2. Become(t) /\ UNCHANGED <<now, nextUid, dabr, checks>>
    BY <1>15 DEF DHTTimer
  <2> HIDE DEF t
  <2>3. NodeInv(S', nextUid)
    BY <2>1, <2>2, BecomeInv
  <2>4. purgeAt' \in Nat /\ counter' \in 1 .. 2
    BY <1>15, AgentAssumption DEF DHTTimer, AgentInv
  <2> QED BY <2>2, <2>3, <2>4 DEF AgentInv
<1>16. ASSUME Tick PROVE AgentInv'
  <2>1. /\ now' = now + 1 /\ now < MaxTime /\ checks' = {} /\ Become(S)
        /\ UNCHANGED <<nextUid, dabr, purgeAt, counter>>
    BY <1>16 DEF Tick
  <2>2. /\ S'.id = S.id /\ S'.now = now + 1 /\ S'.address = S.address /\ S'.dht = S.dht
        /\ S'.queue = S.queue /\ S'.pkt = S.pkt /\ S'.table = S.table
        /\ DOMAIN S' = DOMAIN S
    BY <2>1 DEF Become, S
  <2>3. now + 1 \in Nat /\ now + 1 <= MaxTime
    BY <2>1, NodeAssumption DEF AgentInv
  <2> HIDE DEF S
  <2>4. NodeInv(S', nextUid)
    BY <1>0, <2>2, <2>3 DEF NodeInv, NodeType, QueueInv, Fresh
  <2> QED BY <2>1, <2>3, <2>4 DEF AgentInv
<1>17. CASE UNCHANGED vars
  <2>1. S' = S
    BY <1>17 DEF vars, node, S
  <2> QED BY <2>1, <1>17 DEF vars, AgentInv
<1> QED
  BY <1>1, <1>2, <1>3, <1>4, <1>6, <1>7, <1>8, <1>9, <1>10, <1>11, <1>12, <1>13, <1>14,
     <1>15, <1>16, <1>17 DEF Next, Timers

(***************************************************************************)
(* Theorems.                                                               *)
(***************************************************************************)
\* The inductive invariant holds of every reachable state.
LEMMA AgentInvariant == Spec => []AgentInv
BY InitAgentInv, StepAgentInv, PTL DEF Spec

\* The handlers keep every variable in its type; in particular the look-up in
\* the routing table always ends with an identifier, whatever the table.
THEOREM TypeCorrect == Spec => []TypeOK
BY AgentInvariant, AgentInvImplies, PTL

\* However addEntry and forward call each other, and whatever messages, failures
\* and timers come in between, addEntry leaves no packet waiting for an address
\* that the cache holds: nothing is stranded.
THEOREM NothingStranded == Spec => []NoWaitingForKnown
BY AgentInvariant, AgentInvImplies, PTL

\* A packet is in the queue exactly while nobody else holds or disposed of it,
\* and enque and removeHead keep the queue within ASPU_QUEUE_LEN.
THEOREM QueueIsExact == Spec => []QueueOwnsItsPackets
BY AgentInvariant, AgentInvImplies, PTL

\* What waits was never forwarded, so that its release always teaches the cache
\* that node 0 has address 0.
THEOREM QueueIsFresh == Spec => []QueuedIsFresh
BY AgentInvariant, AgentInvImplies, PTL

(***************************************************************************)
(* What the cache and the pending queue of an agent do together.  Every    *)
(* step of the agent is of one of five kinds: it learns addresses, it      *)
(* queues a packet, it repeats requests, it purges the cache, or time      *)
(* passes.  From this follow that the agent implements AddressResolution,  *)
(* and the bounds on how long a request and a cache entry last.            *)
(***************************************************************************)

(***************************************************************************)
(* Learning: what calls of addEntry do to the cache and the queue.         *)
(***************************************************************************)
\* The cache grows, and an entry that changes gets an expiry in X; packets leave
\* the queue only as their destination becomes known, and no other changes.
Gains(s, t, X) ==
  /\ t.now = s.now
  /\ DOMAIN s.dht \subseteq DOMAIN t.dht
  /\ t.queue \subseteq s.queue
  /\ \A u \in t.queue : t.pkt[u] = s.pkt[u]
  /\ \A u \in s.queue \ t.queue : s.pkt[u].dst \in DOMAIN t.dht
  /\ \A x \in DOMAIN t.dht : \/ x \in DOMAIN s.dht /\ t.dht[x] = s.dht[x]
                             \/ t.dht[x].expire \in X

\* The expiry of an entry that is written at the node itself.
FreshUntil(s) == {s.now + ASPU_DHT_ENTRY_TIMEOUT}

\* A chain of calls gains what each of them does.
LEMMA GainsTransitive ==
  ASSUME NEW r, NEW s, NEW t, NEW X, Gains(r, s, X), Gains(s, t, X)
  PROVE  Gains(r, t, X)
BY DEF Gains

\* Parts of the state that learning is not about.
LEMMA GainsNothing ==
  ASSUME NEW s, NEW t, NEW X, t.now = s.now, t.dht = s.dht, t.queue = s.queue,
         \A u \in s.queue : t.pkt[u] = s.pkt[u]
  PROVE  Gains(s, t, X)
BY DEF Gains

\* addEntry, in both its forms, with all it sets off.
LEMMA AddEntryUntilGains ==
  ASSUME NEW s, NEW n, NodeInv(s, n),
         NEW id \in Ids, NEW address_ \in Addrs, NEW expire \in Nat
  PROVE  Gains(s, AddEntryUntil(s, id, address_, expire), FreshUntil(s) \cup {expire})
<1> DEFINE t == AddEntryUntil(s, id, address_, expire)
           mine == Waiting(s, id)
           zero == ForZero(s, id)
           fresh == s.now + ASPU_DHT_ENTRY_TIMEOUT
           last == IF zero # {} /\ mine = {Min(mine)} THEN Min(zero) ELSE Min(mine)
           pkts == [u \in Uids |->
                     IF u \in mine THEN Routed(s, [s.pkt[u] EXCEPT !.dstAdd = address_])
                     ELSE IF u \in zero THEN Routed(s, [s.pkt[u] EXCEPT !.dstAdd = ZeroAdd])
                     ELSE s.pkt[u]]
           own == s.pkt[last].srcAdd
           dht_ == DHTAddEntry(DHTAddEntry(DHTAddEntry(s.dht, id, address_, fresh),
                                           s.id, own, fresh), 0, ZeroAdd, fresh)
<1>2. \A u \in s.queue : u \in mine \cup zero => s.pkt[u].dst \in {id, 0}
  BY DEF Waiting, ForZero
<1>3. s.queue \subseteq Uids
  BY DEF NodeInv, NodeType
<1>4. CASE mine = {}
  <2>1. t = [s EXCEPT !.dht = DHTAddEntry(@, id, address_, expire)]
    BY <1>4 DEF AddEntryUntil
  <2>2. /\ t.queue = s.queue /\ t.pkt = s.pkt /\ t.now = s.now
        /\ t.dht = DHTAddEntry(s.dht, id, address_, expire)
    BY <2>1 DEF NodeInv, NodeType
  <2> HIDE DEF t
  <2>3. /\ DOMAIN t.dht = DOMAIN s.dht \cup {id}
        /\ \A x \in DOMAIN t.dht :
              t.dht[x] = IF x = id THEN [add |-> address_, expire |-> expire] ELSE s.dht[x]
    BY <2>2 DEF DHTAddEntry
  <2> QED BY <2>2, <2>3 DEF Gains, t
<1>5. CASE mine # {}
  <2>1. /\ t.now = s.now /\ t.queue = s.queue \ (mine \cup zero)
        /\ t.pkt = pkts /\ t.dht = dht_
    BY <1>5 DEF AddEntryUntil, NodeInv, NodeType
  <2>2. \A u \in t.queue : t.pkt[u] = s.pkt[u]
    BY <2>1, <1>3
  <2>3. DOMAIN dht_ = DOMAIN s.dht \cup {id, s.id, 0}
    BY DEF DHTAddEntry
  <2>4. \A x \in DOMAIN dht_ : \/ x \in DOMAIN s.dht /\ dht_[x] = s.dht[x]
                               \/ dht_[x].expire = fresh
    BY <2>3 DEF DHTAddEntry
  <2> HIDE DEF t, dht_, mine, zero
  <2>5. Gains(s, t, FreshUntil(s) \cup {expire})
    BY <1>2, <2>1, <2>2, <2>3, <2>4 DEF Gains, FreshUntil
  <2> QED BY <2>5 DEF t
<1> QED BY <1>4, <1>5

\* The form of the own observations.
LEMMA AddEntryGains ==
  ASSUME NEW s, NEW n, NodeInv(s, n), NEW id \in Ids, NEW address_ \in Addrs
  PROVE  Gains(s, AddEntry(s, id, address_), FreshUntil(s))
<1>1. s.now + ASPU_DHT_ENTRY_TIMEOUT \in Nat
  BY NodeAssumption DEF NodeInv, NodeType
<1>2. FreshUntil(s) \cup {s.now + ASPU_DHT_ENTRY_TIMEOUT} = FreshUntil(s)
  BY DEF FreshUntil
<1>3. Gains(s, AddEntryUntil(s, id, address_, s.now + ASPU_DHT_ENTRY_TIMEOUT),
            FreshUntil(s) \cup {s.now + ASPU_DHT_ENTRY_TIMEOUT})
  BY <1>1, AddEntryUntilGains
<1> QED BY <1>2, <1>3 DEF AddEntry

(***************************************************************************)
(* Handlers that learn.                                                    *)
(***************************************************************************)
\* A handler keeps the invariant of the node, and only learns.
Learns(s, t, n) == Kept(s, t, n) /\ Gains(s, t, FreshUntil(s))

\* Handlers that call each other learn together.
LEMMA LearnsTransitive ==
  ASSUME NEW r, NEW s, NEW t, NEW n, Learns(r, s, n), Learns(s, t, n)
  PROVE  Learns(r, t, n)
<1>1. FreshUntil(r) = FreshUntil(s)
  BY DEF Learns, Kept, FreshUntil
<1>2. Gains(r, t, FreshUntil(r))
  BY <1>1, GainsTransitive DEF Learns
<1> QED BY <1>2, KeptTransitive DEF Learns

\* addEntry is such a call.
LEMMA AddEntryCall ==
  ASSUME NEW s, NEW n, NodeInv(s, n), NEW id \in Ids, NEW address_ \in Addrs
  PROVE  Learns(s, AddEntry(s, id, address_), n)
BY AddEntryGains, AddEntryLearns, LearntKept DEF Learns

\* What goes to the interface is nothing learnt.
LEMMA OutCall ==
  ASSUME NEW s, NEW n, NodeInv(s, n), NEW o
  PROVE  Learns(s, [s EXCEPT !.out = o], n)
<1> DEFINE t == [s EXCEPT !.out = o]
<1>1. t.now = s.now /\ t.dht = s.dht /\ t.queue = s.queue /\ t.pkt = s.pkt
  BY DEF NodeInv, NodeType
<1> HIDE DEF t
<1>2. Gains(s, t, FreshUntil(s))
  BY <1>1, GainsNothing
<1> QED BY <1>2, OutInv DEF Learns, t

\* Nor is the header of a packet that is not in the queue.
LEMMA PutCall ==
  ASSUME NEW s, NEW n \in Nat, NodeInv(s, n), NEW u \in Uids, u \notin s.queue, u < n,
         NEW q \in Header, q.fate \notin {"queued", "unborn"},
         q.fate = "mac" => q.dstAdd \in Addrs
  PROVE  Learns(s, [s EXCEPT !.pkt[u] = q], n)
<1> DEFINE t == [s EXCEPT !.pkt[u] = q]
<1>1. t.now = s.now /\ t.dht = s.dht /\ t.queue = s.queue /\ \A v \in s.queue : t.pkt[v] = s.pkt[v]
  BY DEF NodeInv, NodeType
<1> HIDE DEF t
<1>2. Gains(s, t, FreshUntil(s))
  BY <1>1, GainsNothing
<1> QED BY <1>2, PutInv DEF Learns, t

\* A packet that arrives is not yet in the queue.
LEMMA ArriveCall ==
  ASSUME NEW s, NEW n \in Uids, NodeInv(s, n),
         NEW q \in Header, q.fate \notin {"queued", "unborn", "mac"}
  PROVE  /\ Learns(s, [s EXCEPT !.pkt[n] = q], n + 1)
         /\ n \notin s.queue /\ [s EXCEPT !.pkt[n] = q].queue = s.queue
         /\ [s EXCEPT !.pkt[n] = q].dht = s.dht
         /\ [s EXCEPT !.pkt[n] = q].pkt = [s.pkt EXCEPT ![n] = q]
         /\ [s EXCEPT !.pkt[n] = q].pkt[n] = q
<1> DEFINE t == [s EXCEPT !.pkt[n] = q]
<1>1. n \notin s.queue /\ Kept(s, t, n + 1) /\ t.pkt[n] = q
  BY ArriveInv
<1>2. /\ t.now = s.now /\ t.dht = s.dht /\ t.queue = s.queue
      /\ t.pkt = [s.pkt EXCEPT ![n] = q] /\ \A v \in s.queue : t.pkt[v] = s.pkt[v]
  BY <1>1 DEF NodeInv, NodeType
<1> HIDE DEF t
<1>3. Gains(s, t, FreshUntil(s))
  BY <1>2, GainsNothing
<1> QED BY <1>1, <1>2, <1>3 DEF Learns, t

\* recvASPU reads every control message with these two calls first.
LEMMA LearnSenderCall ==
  ASSUME NEW s, NEW n, NodeInv(s, n), NEW m,
         m.src \in Ids, m.srcAdd \in Addrs, m.forId \in Ids, m.forAdd \in Addrs
  PROVE  Learns(s, LearnSender(s, m), n)
<1>1. Learns(s, AddEntry(s, m.src, m.srcAdd), n)
  BY AddEntryCall
<1>2. Learns(AddEntry(s, m.src, m.srcAdd), LearnSender(s, m), n)
  BY <1>1, AddEntryCall DEF LearnSender, Learns, Kept
<1> QED BY <1>1, <1>2, LearnsTransitive

\* forward, whatever becomes of the packet.
LEMMA ForwardCall ==
  ASSUME NEW s, NEW n \in Nat, NodeInv(s, n), NEW u \in Uids, u \notin s.queue, u < n,
         s.pkt[u].dstAdd \in Addrs
  PROVE  Learns(s, Forward(s, u), n)
<1> DEFINE p == s.pkt[u]
           learnt == LearnHeader(s, p)
           routed == Routed(learnt, p)
<1>1. p \in Header
  BY DEF NodeInv, NodeType
<1>2. Kept(s, Forward(s, u), n)
  BY ForwardInv
<1>3. ASSUME NEW q PROVE Gains(s, [s EXCEPT !.pkt[u] = q], FreshUntil(s))
  <2> DEFINE t == [s EXCEPT !.pkt[u] = q]
  <2>1. t.now = s.now /\ t.dht = s.dht /\ t.queue = s.queue /\ \A v \in s.queue : t.pkt[v] = s.pkt[v]
    BY DEF NodeInv, NodeType
  <2> HIDE DEF t
  <2>2. Gains(s, t, FreshUntil(s))
    BY <2>1, GainsNothing
  <2> QED BY <2>2 DEF t
<1>4. CASE (p.up /\ p.dst \in {s.id, IP_BROADCAST}) \/ p.dst = IP_BROADCAST
  BY <1>2, <1>3, <1>4 DEF Forward, Learns
<1>5. CASE ~(p.up /\ p.dst \in {s.id, IP_BROADCAST}) /\ p.dst # IP_BROADCAST
  <2>1. p.dst \in Ids /\ p.src \in Ids /\ p.srcAdd \in Addrs /\ p.forId \in Ids /\ p.forAdd \in Addrs
    BY <1>1, <1>5 DEF Header
  <2>2. Learns(s, learnt, n)
    <3> DEFINE r == AddEntry(s, p.dst, p.dstAdd)
               q == AddEntry(r, p.src, p.srcAdd)
    <3>1. Learns(s, r, n)
      BY <2>1, AddEntryCall
    <3>2. Learns(s, q, n)
      <4> HIDE DEF r
      <4>1. Learns(r, q, n)
        BY <2>1, <3>1, AddEntryCall DEF Learns, Kept
      <4> QED BY <3>1, <4>1, LearnsTransitive
    <3> HIDE DEF q
    <3>3. Learns(q, AddEntry(q, p.forId, p.forAdd), n)
      BY <2>1, <3>2, AddEntryCall DEF Learns, Kept
    <3>4. Learns(s, AddEntry(q, p.forId, p.forAdd), n)
      BY <3>2, <3>3, LearnsTransitive
    <3> QED BY <3>4 DEF LearnHeader, q
  <2> HIDE DEF learnt
  <2>3. u \notin learnt.queue /\ NodeInv(learnt, n)
    BY <2>2 DEF Learns, Gains, Kept
  <2>4. ASSUME NEW t, t.now = learnt.now, t.dht = learnt.dht, t.queue = learnt.queue,
               \A v \in learnt.queue : t.pkt[v] = learnt.pkt[v]
        PROVE  Gains(s, t, FreshUntil(s))
    <3>1. Gains(learnt, t, FreshUntil(s))
      BY <2>4, GainsNothing
    <3> QED BY <2>2, <3>1, GainsTransitive DEF Learns
  <2> DEFINE put == [learnt EXCEPT !.pkt[u] = routed]
             sent == Emit(put, Data(u, routed))
  <2>5. Gains(s, put, FreshUntil(s))
    <3>1. /\ put.now = learnt.now /\ put.dht = learnt.dht /\ put.queue = learnt.queue
          /\ \A v \in learnt.queue : put.pkt[v] = learnt.pkt[v]
      BY <2>3 DEF NodeInv, NodeType
    <3> HIDE DEF put
    <3> QED BY <3>1, <2>4
  <2>6. Gains(s, sent, FreshUntil(s))
    <3>1. /\ sent.now = learnt.now /\ sent.dht = learnt.dht /\ sent.queue = learnt.queue
          /\ \A v \in learnt.queue : sent.pkt[v] = learnt.pkt[v]
      BY <2>3 DEF Emit, NodeInv, NodeType
    <3> HIDE DEF sent
    <3> QED BY <3>1, <2>4
  <2>7. Forward(s, u) \in {put, sent}
    BY <1>5 DEF Forward, learnt
  <2> HIDE DEF put, sent
  <2>8. Gains(s, Forward(s, u), FreshUntil(s))
    BY <2>5, <2>6, <2>7
  <2> QED BY <2>8, <1>2 DEF Learns
<1> QED BY <1>4, <1>5

\* A message sent on is nothing learnt.
LEMMA RelayCall ==
  ASSUME NEW s, NEW n, NodeInv(s, n), NEW m, NEW hop, NEW dst
  PROVE  Learns(s, Relay(s, m, hop, dst), n)
BY OutCall DEF Relay, Emit

\* recvDarq, whether it answers, relays or drops the request.
LEMMA RecvDarqCall ==
  ASSUME NEW s, NEW n, NodeInv(s, n), NEW m, ControlType(m)
  PROVE  Learns(s, RecvDarq(s, m), n)
<1> DEFINE l == LearnSender(s, m)
<1>1. Learns(s, l, n)
  BY LearnSenderCall DEF ControlType
<1> HIDE DEF l
<1>2. NodeInv(l, n)
  BY <1>1 DEF Learns, Kept
<1>3. Learns(l, SendDarp(l, m), n) /\ Learns(l, SendOn(l, m), n)
  BY <1>2, OutCall, RelayCall DEF SendDarp, SendOn, Emit
<1>4. Learns(s, SendDarp(l, m), n) /\ Learns(s, SendOn(l, m), n)
  BY <1>1, <1>3, LearnsTransitive
<1> QED BY <1>1, <1>4 DEF RecvDarq, l

\* recvDarp, whether the answer is for this node or is relayed.
LEMMA RecvDarpCall ==
  ASSUME NEW s, NEW n, NodeInv(s, n), NEW m, ControlType(m),
         m.dst \in Ids, m.req \in Ids, m.reqAdd \in Addrs
  PROVE  Learns(s, RecvDarp(s, m), n)
<1> DEFINE r == LearnSender(s, m)
           q == AddEntry(r, m.dst, m.dstAdd)
           l == AddEntry(q, m.req, m.reqAdd)
           nextHop == GetEntry(l, m.dstAdd)
<1>1. Learns(s, r, n)
  BY LearnSenderCall DEF ControlType
<1> HIDE DEF r
<1>2. Learns(r, q, n)
  BY <1>1, AddEntryCall DEF ControlType, Learns, Kept
<1> HIDE DEF q
<1>3. Learns(q, l, n)
  BY <1>2, AddEntryCall DEF Learns, Kept
<1>4. Learns(s, l, n)
  BY <1>1, <1>2, <1>3, LearnsTransitive
<1> HIDE DEF l
<1>5. Learns(l, AddEntry(l, m.req, m.reqAdd), n)
  BY <1>4, AddEntryCall DEF Learns, Kept
<1>6. Learns(l, Relay(l, m, nextHop, m.dstAdd), n)
  BY <1>4, RelayCall DEF Learns, Kept
<1>7. /\ Learns(s, AddEntry(l, m.req, m.reqAdd), n)
      /\ Learns(s, Relay(l, m, nextHop, m.dstAdd), n)
  BY <1>4, <1>5, <1>6, LearnsTransitive
<1> QED BY <1>4, <1>7 DEF RecvDarp, l, q, r

\* recvDaup, whether this node stores the entry or sends it on.
LEMMA RecvDaupCall ==
  ASSUME NEW s, NEW n, NodeInv(s, n), NEW m, ControlType(m)
  PROVE  Learns(s, RecvDaup(s, m), n)
<1> DEFINE l == LearnSender(s, m)
<1>1. Learns(s, l, n)
  BY LearnSenderCall DEF ControlType
<1> HIDE DEF l
<1>2. Learns(l, AddEntry(l, m.src, m.srcAdd), n)
  BY <1>1, AddEntryCall DEF ControlType, Learns, Kept
<1>3. Learns(l, SendOn(l, m), n)
  BY <1>1, RelayCall DEF SendOn, Learns, Kept
<1>4. Learns(s, AddEntry(l, m.src, m.srcAdd), n) /\ Learns(s, SendOn(l, m), n)
  BY <1>1, <1>2, <1>3, LearnsTransitive
<1> QED BY <1>4 DEF RecvDaup, l

\* NDP installs a table.
LEMMA TableCall ==
  ASSUME NEW s, NEW n, NodeInv(s, n), NEW t \in SUBSET RoutingEntry, OneEntryPerAddress(t)
  PROVE  Learns(s, [s EXCEPT !.table = t], n)
<1> DEFINE w == [s EXCEPT !.table = t]
<1>1. w.now = s.now /\ w.dht = s.dht /\ w.queue = s.queue /\ w.pkt = s.pkt
  BY DEF NodeInv, NodeType
<1> HIDE DEF w
<1>2. Gains(s, w, FreshUntil(s))
  BY <1>1, GainsNothing
<1> QED BY <1>2, TableInv DEF Learns, w

\* NDP selects an address.
LEMMA AddressCall ==
  ASSUME NEW s, NEW n, NodeInv(s, n), NEW a \in Addrs
  PROVE  Learns(s, [s EXCEPT !.address = a], n)
<1> DEFINE w == [s EXCEPT !.address = a]
<1>1. w.now = s.now /\ w.dht = s.dht /\ w.queue = s.queue /\ w.pkt = s.pkt
  BY DEF NodeInv, NodeType
<1> HIDE DEF w
<1>2. Gains(s, w, FreshUntil(s))
  BY <1>1, GainsNothing
<1> QED BY <1>2, AddressInv DEF Learns, w

\* updateAdd learns the new address, and tells the neighbours.
LEMMA UpdateAddCall ==
  ASSUME NEW s, NEW n, NodeInv(s, n)
  PROVE  Learns(s, UpdateAdd(s), n)
<1> DEFINE l == AddEntry(s, s.id, s.address)
<1>1. Learns(s, l, n)
  BY AddEntryCall DEF NodeInv, NodeType
<1> HIDE DEF l
<1>2. \A o : Learns(l, [l EXCEPT !.out = o], n)
  BY <1>1, OutCall DEF Learns, Kept
<1>3. \A o : Learns(s, [l EXCEPT !.out = o], n)
  BY <1>1, <1>2, LearnsTransitive
<1> QED BY <1>3 DEF UpdateAdd, Emit, l

\* recv, of a packet that a neighbour relayed.
LEMMA RecvDataCall ==
  ASSUME AgentInv, nextUid \in Uids, NEW h \in Transit
  PROVE  Learns(S, RecvData(S, h), nextUid + 1)
<1> DEFINE q(f) == [Relayed(h) EXCEPT !.fate = f]
           born(f) == [S EXCEPT !.pkt[nextUid] = q(f)]
<1>1. NodeInv(S, nextUid)
  BY DEF AgentInv
<1>2. Blank \in Header
  BY NodeAssumption, ZeroAddType DEF Blank, Header
<1>3. /\ Relayed(h) \in Header /\ Relayed(h).dstAdd \in Addrs /\ Relayed(h).fate = "new"
      /\ Relayed(h) = q("new")
  <2>1. /\ h.dst \in Ids \cup {IP_BROADCAST} /\ h.dstAdd \in Addrs
        /\ h.src \in Ids /\ h.srcAdd \in Addrs /\ h.forId \in Ids /\ h.forAdd \in Addrs
    BY AgentAssumption
  <2> QED BY <2>1, <1>2 DEF Relayed, Header, Held
<1>4. ASSUME NEW f \in {"new", "DROP_RTR_ROUTE_LOOP", "DROP_RTR_TTL"}
      PROVE  /\ Learns(S, born(f), nextUid + 1) /\ nextUid \notin born(f).queue
             /\ born(f).pkt[nextUid] = q(f)
  <2>1. q(f) \in Header /\ q(f).fate = f
    BY <1>3 DEF Header, Gone, Held
  <2> HIDE DEF q
  <2> QED BY <2>1, <1>1, ArriveCall
<1>5. Learns(S, Forward(born("new"), nextUid), nextUid + 1)
  <2> DEFINE b == born("new")
  <2>1. /\ Learns(S, b, nextUid + 1) /\ nextUid \notin b.queue
        /\ b.pkt[nextUid] = Relayed(h)
    BY <1>3, <1>4
  <2>2. nextUid + 1 \in Nat /\ nextUid < nextUid + 1
    BY DEF Uids
  <2> HIDE DEF b
  <2>3. Learns(b, Forward(b, nextUid), nextUid + 1)
    BY <2>1, <2>2, <1>3, ForwardCall DEF Learns, Kept
  <2>4. Learns(S, Forward(b, nextUid), nextUid + 1)
    BY <2>1, <2>3, LearnsTransitive
  <2> QED BY <2>4 DEF b
<1>6. /\ Born(S, Relayed(h)) = born("new")
      /\ \A f : Born(S, [Relayed(h) EXCEPT !.fate = f]) = born(f)
  BY <1>3 DEF Born
<1> HIDE DEF born
<1> QED BY <1>4, <1>5, <1>6 DEF RecvData

\* macFailed, of a packet that the interface holds.
LEMMA LinkFailedCall ==
  ASSUME AgentInv, NEW u \in Uids, pkt[u].fate = "mac"
  PROVE  Learns(S, LinkFailed(S, u), nextUid)
<1> DEFINE t == TableMacFailed(S, S.pkt[u].nextHop)
           c == [S.pkt[u] EXCEPT !.txCount = @ + 1]
           counted == [t EXCEPT !.pkt[u] = c]
           lost == [S EXCEPT !.pkt[u].fate = "DROP_RTR_MAC_CALLBACK"]
           late == [counted EXCEPT !.pkt[u].fate = "DROP_RTR_TX_COUNT"]
<1>1. Kept(S, LinkFailed(S, u), nextUid)
  BY LinkFailedInv
<1>2. NodeInv(S, nextUid) /\ nextUid \in Nat /\ S.pkt[u].fate = "mac"
  BY DEF AgentInv, EnvType, S
<1> HIDE DEF S
<1>3. S.pkt[u] \in Header /\ u \notin S.queue /\ u < nextUid /\ S.pkt[u].dstAdd \in Addrs
  <2>1. S.pkt[u] \in Header
    BY <1>2 DEF NodeInv, NodeType
  <2>2. u \notin S.queue
    BY <1>2 DEF NodeInv, QueueInv
  <2>3. ~(u >= nextUid) /\ S.pkt[u].dstAdd \in Addrs
    BY <1>2 DEF NodeInv
  <2> QED BY <2>1, <2>2, <2>3, <1>2 DEF Uids
<1>4. /\ Kept(S, t, nextUid) /\ t.queue = S.queue /\ t.pkt = S.pkt
  BY <1>2, TableMacFailedInv
<1>5. t.now = S.now /\ t.dht = S.dht
  BY <1>2 DEF TableMacFailed, NodeInv, NodeType
<1> HIDE DEF t
<1>6. Learns(S, t, nextUid)
  BY <1>4, <1>5, GainsNothing DEF Learns
<1>7. c \in Header /\ c.fate = "mac" /\ c.dstAdd = S.pkt[u].dstAdd
  <2>1. S.pkt[u].txCount + 1 \in Nat
    BY <1>3 DEF Header
  <2> QED BY <2>1, <1>2, <1>3 DEF Header
<1> HIDE DEF c
<1>8. Learns(S, counted, nextUid) /\ counted.queue = S.queue /\ counted.pkt[u] = c
  <2>1. Learns(t, counted, nextUid)
    BY <1>2, <1>3, <1>4, <1>7, PutCall DEF Kept
  <2>2. counted.queue = S.queue /\ counted.pkt[u] = c
    BY <1>4 DEF Kept, NodeInv, NodeType
  <2> QED BY <2>1, <2>2, <1>6, LearnsTransitive
<1>9. Gains(S, Forward(counted, u), FreshUntil(S))
  <2> HIDE DEF counted
  <2>1. Learns(counted, Forward(counted, u), nextUid)
    BY <1>2, <1>3, <1>7, <1>8, ForwardCall DEF Learns, Kept
  <2>2. Learns(S, Forward(counted, u), nextUid)
    BY <2>1, <1>8, LearnsTransitive
  <2> QED BY <2>2 DEF Learns
<1>10. Gains(S, lost, FreshUntil(S))
  <2>1. /\ lost.now = S.now /\ lost.dht = S.dht /\ lost.queue = S.queue
        /\ \A v \in S.queue : lost.pkt[v] = S.pkt[v]
    BY <1>2, <1>3 DEF NodeInv, NodeType
  <2> HIDE DEF lost
  <2> QED BY <2>1, GainsNothing
<1>11. Gains(S, late, FreshUntil(S))
  <2>1. /\ counted.now = S.now /\ counted.dht = S.dht /\ counted.queue = S.queue
        /\ \A v \in S.queue : counted.pkt[v] = S.pkt[v]
    BY <1>2, <1>3, <1>4, <1>5 DEF Kept, NodeInv, NodeType
  <2>2. NodeInv(counted, nextUid)
    BY <1>8 DEF Learns, Kept
  <2> HIDE DEF counted
  <2>3. /\ late.now = S.now /\ late.dht = S.dht /\ late.queue = S.queue
        /\ \A v \in S.queue : late.pkt[v] = S.pkt[v]
    BY <2>1, <2>2, <1>3 DEF NodeInv, NodeType
  <2> HIDE DEF late
  <2> QED BY <2>3, GainsNothing
<1>12. [t EXCEPT !.pkt[u].txCount = @ + 1] = counted
  BY <1>4 DEF c
<1> HIDE DEF counted, lost
<1>13. LinkFailed(S, u) \in {lost, Forward(counted, u), [counted EXCEPT !.pkt[u].fate = "DROP_RTR_TX_COUNT"]}
  BY <1>12 DEF LinkFailed, t, lost
<1> HIDE DEF late
<1>14. Gains(S, LinkFailed(S, u), FreshUntil(S))
  BY <1>9, <1>10, <1>11, <1>13 DEF late
<1> QED BY <1>1, <1>14 DEF Learns

(***************************************************************************)
(* format: the one handler that puts a packet into the queue.              *)
(***************************************************************************)
\* What enque leaves of a queue that is full.
Making(q) == IF Cardinality(q) >= ASPU_QUEUE_LEN THEN q \ {Min(q)} ELSE q

\* Packet u joins the queue, asks at once, and has asked no more than once.
Queued(s, t, u) ==
  /\ s.pkt[u].dst \notin DOMAIN s.dht
  /\ t.now = s.now /\ t.dht = s.dht
  /\ t.queue = Making(s.queue) \cup {u}
  /\ \A v \in Making(s.queue) : t.pkt[v] = s.pkt[v]
  /\ t.pkt[u].dst = s.pkt[u].dst /\ t.pkt[u].darqCount = s.pkt[u].darqCount
  /\ t.pkt[u].ts = s.now + ASPU_QUEUE_TIMEOUT
  /\ t.pkt[u].lifetime = s.now + ADP_DARQ_TIMEOUT

\* enque makes room, and stamps the packet.
LEMMA EnqueQueues ==
  ASSUME NEW s, NEW n, NodeInv(s, n), NEW u \in Uids, u \notin s.queue,
         s.pkt[u].dst \notin DOMAIN s.dht
  PROVE  Queued(s, Enque(s, u), u)
<1> DEFINE r == IF Cardinality(s.queue) >= ASPU_QUEUE_LEN THEN RemoveHead(s) ELSE s
           q == [s.pkt[u] EXCEPT !.fate = "queued",
                                 !.ts = s.now + ASPU_QUEUE_TIMEOUT,
                                 !.lifetime = s.now + ADP_DARQ_TIMEOUT]
           t == Enque(s, u)
<1>1. s.pkt[u] \in Header /\ s.queue \subseteq Uids /\ s.pkt \in [Uids -> Header]
  BY DEF NodeInv, NodeType
<1>2. /\ DOMAIN r = DOMAIN s /\ r.now = s.now /\ r.dht = s.dht /\ r.queue = Making(s.queue)
      /\ r.queue \subseteq s.queue /\ DOMAIN r.pkt = Uids /\ r.pkt[u] = s.pkt[u]
      /\ \A v \in r.queue : r.pkt[v] = s.pkt[v]
  <2>1. CASE Cardinality(s.queue) >= ASPU_QUEUE_LEN
    <3>1. s.queue # {}
      BY <2>1, FS_EmptySet, NodeAssumption
    <3> DEFINE head == Min(s.queue)
               why == IF s.pkt[head].ts <= s.now THEN "DROP_RTR_QTIMEOUT" ELSE "DROP_RTR_QFULL"
    <3>2. head \in s.queue
      BY <1>1, <3>1, MinOfUids
    <3>3. RemoveHead(s) = [s EXCEPT !.queue = @ \ {head}, !.pkt[head].fate = why]
      BY DEF RemoveHead
    <3> HIDE DEF head, why
    <3>4. /\ DOMAIN r = DOMAIN s /\ r.now = s.now /\ r.dht = s.dht /\ r.queue = s.queue \ {head}
          /\ DOMAIN r.pkt = Uids /\ \A v \in Uids \ {head} : r.pkt[v] = s.pkt[v]
      BY <1>1, <2>1, <3>2, <3>3 DEF NodeInv, NodeType
    <3>5. Making(s.queue) = s.queue \ {head}
      BY <2>1 DEF Making, head
    <3> HIDE DEF r
    <3> QED BY <1>1, <3>2, <3>4, <3>5
  <2>2. CASE ~(Cardinality(s.queue) >= ASPU_QUEUE_LEN)
    BY <1>1, <2>2 DEF Making, NodeInv, NodeType
  <2> QED BY <2>1, <2>2
<1>3. /\ t.now = s.now /\ t.dht = s.dht /\ t.queue = r.queue \cup {u}
      /\ t.pkt = [r.pkt EXCEPT ![u] = q]
  <2>1. DOMAIN r = {"id", "now", "address", "dht", "queue", "pkt", "table", "out"}
    BY <1>2 DEF NodeInv, NodeType
  <2>2. [r.pkt EXCEPT ![u] = [@ EXCEPT !.fate = "queued",
                                       !.ts = s.now + ASPU_QUEUE_TIMEOUT,
                                       !.lifetime = s.now + ADP_DARQ_TIMEOUT]]
          = [r.pkt EXCEPT ![u] = q]
    <3> HIDE DEF r
    <3> QED BY <1>2
  <2>3. t = [r EXCEPT !.queue = @ \cup {u},
                      !.pkt[u] = [@ EXCEPT !.fate = "queued",
                                           !.ts = s.now + ASPU_QUEUE_TIMEOUT,
                                           !.lifetime = s.now + ADP_DARQ_TIMEOUT]]
    BY DEF Enque
  <2> HIDE DEF r, q, t
  <2> QED BY <1>2, <2>1, <2>2, <2>3
<1>4. /\ q.dst = s.pkt[u].dst /\ q.darqCount = s.pkt[u].darqCount
      /\ q.ts = s.now + ASPU_QUEUE_TIMEOUT /\ q.lifetime = s.now + ADP_DARQ_TIMEOUT
  BY <1>1 DEF Header
<1> HIDE DEF q, r, t
<1>5. t.pkt[u] = q /\ \A v \in r.queue : t.pkt[v] = s.pkt[v]
  BY <1>2, <1>3
<1>6. Queued(s, t, u)
  BY <1>2, <1>3, <1>4, <1>5 DEF Queued
<1> QED BY <1>6 DEF t

\* format, of a packet that an application has just handed over.
LEMMA FormatCall ==
  ASSUME NEW s, NEW n \in Nat, NodeInv(s, n), NEW u \in Uids, u \notin s.queue, u < n,
         s.pkt[u].dst # s.id, s.pkt[u].forId = 0, s.pkt[u].forAdd = ZeroAdd,
         s.pkt[u].txCount = 0, ~s.pkt[u].up, s.pkt[u].fate = "new"
  PROVE  \/ Learns(s, Format(s, u), n)
         \/ Queued(s, Format(s, u), u)
<1> DEFINE d == s.pkt[u].dst
           p == [s.pkt[u] EXCEPT !.dstAdd = FindAdd(s, d), !.src = s.id, !.srcAdd = s.address]
           f == [s EXCEPT !.pkt[u] = p]
<1>1. s.pkt[u] \in Header /\ s.id \in Ids /\ s.address \in Addrs
  BY DEF NodeInv, NodeType
<1>2. /\ d \in DOMAIN s.dht => FindAdd(s, d) \in Addrs
      /\ FindAdd(s, d) \in Addrs \cup {NoAdd}
  <2>1. \A x \in DOMAIN s.dht : s.dht[x].add \in Addrs
    BY DEF NodeInv, NodeType, DHT_Entry
  <2> QED BY <2>1 DEF FindAdd
<1>3. /\ p \in Header /\ p.fate = "new" /\ p.dst = d /\ p.dstAdd = FindAdd(s, d)
      /\ p.darqCount = s.pkt[u].darqCount
  BY <1>1, <1>2 DEF Header
<1> HIDE DEF p
<1>4. Learns(s, f, n)
  BY <1>3, PutCall
<1>5. /\ f.queue = s.queue /\ f.dht = s.dht /\ f.now = s.now /\ f.pkt[u] = p
      /\ \A v \in s.queue : f.pkt[v] = s.pkt[v]
  BY DEF NodeInv, NodeType
<1> HIDE DEF f
<1>6. CASE d \in DOMAIN s.dht
  <2>1. Learns(f, Forward(f, u), n)
    BY <1>2, <1>3, <1>4, <1>5, <1>6, ForwardCall DEF Learns, Kept
  <2>2. Learns(s, Forward(f, u), n)
    BY <2>1, <1>4, LearnsTransitive
  <2> QED BY <2>2, <1>6 DEF Format, f, p
<1>7. CASE d \notin DOMAIN s.dht
  <2> DEFINE e == Enque(f, u)
             t == SendDarq(e, d)
  <2>1. NodeInv(f, n)
    BY <1>4 DEF Learns, Kept
  <2>2. Queued(f, e, u)
    BY <1>3, <1>5, <1>7, <2>1, EnqueQueues
  <2>3. DOMAIN f = {"id", "now", "address", "dht", "queue", "pkt", "table", "out"}
    BY <2>1 DEF NodeInv, NodeType
  <2>4. DOMAIN e = DOMAIN f
    BY <2>3 DEF Enque, RemoveHead
  <2> HIDE DEF e
  <2>5. t.now = e.now /\ t.dht = e.dht /\ t.queue = e.queue /\ t.pkt = e.pkt
    BY <2>3, <2>4 DEF SendDarq
  <2> HIDE DEF t
  <2>6. \A v \in Making(s.queue) : v \in s.queue
    BY DEF Making
  <2>7. Queued(s, t, u)
    BY <1>3, <1>5, <1>7, <2>2, <2>5, <2>6 DEF Queued
  <2>8. Format(s, u) = t
    BY <1>7 DEF Format, f, p, e, t
  <2> QED BY <2>7, <2>8
<1> QED BY <1>6, <1>7

(***************************************************************************)
(* The five kinds of steps.                                                *)
(***************************************************************************)
Timing == <<now, checks, purgeAt, counter>>

\* The expiry that the entry of a DABR which is read next carries.
Carried == IF dabr = << >> THEN {} ELSE {Expiry(Head(dabr))}

\* Messages, packets, failures and NDP only teach the agent addresses.
LearningStep == Gains(S, S', FreshUntil(S) \cup Carried) /\ UNCHANGED Timing

\* A new packet that no entry is there for joins the queue.
QueueingStep ==
  /\ Queued([S EXCEPT !.pkt[nextUid] = pkt'[nextUid]], S', nextUid)
  /\ nextUid \in Uids /\ pkt'[nextUid].dst \in LocalDsts /\ pkt'[nextUid].darqCount = 0
  /\ UNCHANGED Timing

\* A set of expiries may be given too large.
LEMMA GainsMore ==
  ASSUME NEW s, NEW t, NEW X, NEW Y, Gains(s, t, X), X \subseteq Y
  PROVE  Gains(s, t, Y)
BY DEF Gains

\* A handler's outcome, once it is the new state, is a learning step.
LEMMA LearnsStep ==
  ASSUME NEW t, NEW X, Gains(S, t, X), X \subseteq FreshUntil(S) \cup Carried,
         Become(t), UNCHANGED Timing
  PROVE  LearningStep
<1>1. Gains(S, t, FreshUntil(S) \cup Carried)
  BY GainsMore
<1>2. S'.now = S.now /\ S'.dht = t.dht /\ S'.queue = t.queue /\ S'.pkt = t.pkt
  BY DEF Become, S, Timing
<1> HIDE DEF S
<1>3. Gains(S, S', FreshUntil(S) \cup Carried)
  BY <1>1, <1>2 DEF Gains
<1> QED BY <1>3 DEF LearningStep

\* What nothing happens in is one too.
LEMMA SameStep ==
  ASSUME AgentInv, dht' = dht, queue' = queue, \A u \in queue : pkt'[u] = pkt[u],
         UNCHANGED Timing
  PROVE  LearningStep
<1>1. /\ S'.now = S.now /\ S'.dht = S.dht /\ S'.queue = S.queue
      /\ \A u \in S.queue : S'.pkt[u] = S.pkt[u]
  BY DEF S, Timing
<1> HIDE DEF S
<1>2. Gains(S, S', FreshUntil(S) \cup Carried)
  BY <1>1, GainsNothing
<1> QED BY <1>2 DEF LearningStep

\* An application's packet is sent or joins the queue.
LEMMA RecvLocalStep ==
  ASSUME AgentInv, NEW d \in LocalDsts, RecvLocal(d)
  PROVE  LearningStep \/ QueueingStep
<1> DEFINE q == [Blank EXCEPT !.dst = d, !.src = Self, !.fate = "new"]
           b == Born(S, q)
           t == Format(b, nextUid)
<1>1. nextUid \in Uids /\ NodeInv(S, nextUid) /\ UNCHANGED Timing /\ Become(t)
  BY DEF RecvLocal, NewPacket, AgentInv, Timing
<1>2. Blank \in Header
  BY NodeAssumption, ZeroAddType DEF Blank, Header
<1>3. /\ q \in Header /\ q.fate = "new" /\ q.dst = d /\ q.dst # Self /\ q.darqCount = 0
      /\ q.forId = 0 /\ q.forAdd = ZeroAdd /\ q.txCount = 0 /\ ~q.up
  BY <1>2, AgentAssumption DEF Blank, Header, Held
<1> HIDE DEF q
<1>4. /\ Learns(S, b, nextUid + 1) /\ nextUid \notin b.queue /\ nextUid \notin S.queue
      /\ b.pkt[nextUid] = q /\ b.dht = S.dht /\ b.queue = S.queue
      /\ \A v \in S.queue : b.pkt[v] = S.pkt[v]
  <2>1. /\ Learns(S, b, nextUid + 1) /\ nextUid \notin S.queue
        /\ b.pkt[nextUid] = q /\ b.dht = S.dht /\ b.queue = S.queue
        /\ b.pkt = [S.pkt EXCEPT ![nextUid] = q]
    BY <1>1, <1>3, ArriveCall DEF Born
  <2>2. S.pkt \in [Uids -> Header] /\ S.queue \subseteq Uids
    BY <1>1 DEF NodeInv, NodeType
  <2> HIDE DEF b, S
  <2> QED BY <2>1, <2>2
<1> HIDE DEF b
<1>5. nextUid + 1 \in Nat /\ nextUid < nextUid + 1 /\ b.id = Self /\ b.now = S.now
  BY <1>1, <1>4 DEF Uids, Learns, Kept, S
<1>6. Learns(b, t, nextUid + 1) \/ Queued(b, t, nextUid)
  BY <1>1, <1>3, <1>4, <1>5, FormatCall DEF Learns, Kept
<1> HIDE DEF t
<1>7. CASE Learns(b, t, nextUid + 1)
  <2>1. Gains(S, t, FreshUntil(S))
    BY <1>4, <1>7, LearnsTransitive DEF Learns
  <2> QED BY <1>1, <2>1, LearnsStep
<1>8. CASE Queued(b, t, nextUid)
  <2> DEFINE w == [S EXCEPT !.pkt[nextUid] = pkt'[nextUid]]
  <2>1. /\ t.dht = dht' /\ t.queue = queue' /\ t.pkt = pkt' /\ t.now = now' /\ S.now = now
        /\ S'.dht = t.dht /\ S'.queue = t.queue /\ S'.pkt = t.pkt /\ S'.now = t.now
    BY <1>1, <1>5, <1>8 DEF Become, S, Timing, Queued
  <2>2. S.pkt \in [Uids -> Header] /\ S.queue \subseteq Uids
        /\ DOMAIN S = {"id", "now", "address", "dht", "queue", "pkt", "table", "out"}
    BY <1>1 DEF NodeInv, NodeType
  <2>3. t.pkt[nextUid].dst = d /\ t.pkt[nextUid].darqCount = 0
    BY <1>3, <1>4, <1>8 DEF Queued
  <2> HIDE DEF S
  <2>4. /\ w.now = S.now /\ w.dht = S.dht /\ w.queue = S.queue
        /\ w.pkt[nextUid] = pkt'[nextUid] /\ \A v \in S.queue : w.pkt[v] = S.pkt[v]
    BY <1>1, <1>4, <2>2
  <2> HIDE DEF w
  <2>5. \A v \in Making(S.queue) : v \in S.queue
    BY DEF Making
  <2>6. Queued(w, t, nextUid)
    <3>1. w.pkt[nextUid] = t.pkt[nextUid]
      BY <2>1, <2>4
    <3>2. d \notin DOMAIN S.dht
      BY <1>3, <1>4, <1>8 DEF Queued
    <3>3. \A v \in Making(S.queue) : t.pkt[v] = w.pkt[v]
      BY <1>4, <1>8, <2>4, <2>5 DEF Queued
    <3> QED BY <1>4, <1>5, <1>8, <2>3, <2>4, <3>1, <3>2, <3>3 DEF Queued
  <2>7. Queued(w, S', nextUid)
    BY <2>1, <2>6 DEF Queued
  <2> QED BY <1>1, <2>1, <2>3, <2>7 DEF QueueingStep, w
<1> QED BY <1>6, <1>7, <1>8

\* Whatever the scheduler dispatches is of one of the five kinds.
LEMMA StepKinds ==
  ASSUME AgentInv, [Next]_vars
  PROVE  \/ LearningStep
         \/ QueueingStep
         \/ \E t \in Timers : DarqTimer(t)
         \/ DHTTimer
         \/ Tick
<1>1. NodeInv(S, nextUid)
  BY DEF AgentInv
<1>2. ASSUME NEW t, NEW n, Learns(S, t, n), Become(t), UNCHANGED Timing PROVE LearningStep
  BY <1>2, LearnsStep DEF Learns
<1>3. ASSUME NEW t, NEW n, Learns(S, t, n), RecvControl(t) PROVE LearningStep
  BY <1>2, <1>3 DEF RecvControl, Timing
<1>4. ASSUME NEW h \in Transit, RecvTransit(h) PROVE LearningStep
  <2>1. nextUid \in Uids /\ Become(RecvData(S, h)) /\ UNCHANGED Timing
    BY <1>4 DEF RecvTransit, NewPacket, Timing
  <2>2. Learns(S, RecvData(S, h), nextUid + 1)
    BY <2>1, RecvDataCall
  <2> QED BY <1>2, <2>1, <2>2
<1>5. ASSUME NEW u \in Uids, MacFailed(u) PROVE LearningStep
  <2>1. Become(LinkFailed(S, u)) /\ UNCHANGED Timing /\ pkt[u].fate = "mac"
    BY <1>5 DEF MacFailed, Timing
  <2>2. Learns(S, LinkFailed(S, u), nextUid)
    BY <2>1, LinkFailedCall
  <2> QED BY <1>2, <2>1, <2>2
<1>6. ASSUME NEW u \in Uids, MacDone(u) PROVE LearningStep
  <2>1. u \notin queue /\ pkt[u].fate = "mac"
    BY <1>1, <1>6 DEF MacDone, S, NodeInv, QueueInv
  <2>2. dht' = dht /\ queue' = queue /\ UNCHANGED Timing /\ \A v \in queue : pkt'[v] = pkt[v]
    <3>1. S.pkt = pkt /\ pkt \in [Uids -> Header] /\ queue \subseteq Uids
      BY <1>1 DEF S, NodeInv, NodeType
    <3> QED BY <1>6, <2>1, <3>1 DEF MacDone, Become, S, Timing
  <2> QED BY <2>2, SameStep
<1>7. ASSUME NEW m \in Hellos, RecvHello(m) PROVE LearningStep
  <2>1. Learns(S, AddEntry(S, m.src, m.srcAdd), nextUid)
    BY <1>1, AgentAssumption, AddEntryCall
  <2> QED BY <1>3, <1>7, <2>1 DEF RecvHello
<1>8. ASSUME NEW m \in Darqs, RecvDARQ(m) PROVE LearningStep
  <2>1. ControlType(m)
    BY AgentAssumption DEF ControlType
  <2>2. Learns(S, RecvDarq(S, m), nextUid)
    BY <1>1, <2>1, RecvDarqCall
  <2> QED BY <1>3, <1>8, <2>2 DEF RecvDARQ
<1>9. ASSUME NEW m \in Darps, RecvDARP(m) PROVE LearningStep
  <2>1. ControlType(m) /\ m.dst \in Ids /\ m.req \in Ids /\ m.reqAdd \in Addrs
    BY AgentAssumption DEF ControlType
  <2>2. Learns(S, RecvDarp(S, m), nextUid)
    BY <1>1, <2>1, RecvDarpCall
  <2> QED BY <1>3, <1>9, <2>2 DEF RecvDARP
<1>10. ASSUME NEW m \in Daups, RecvDAUP(m) PROVE LearningStep
  <2>1. ControlType(m)
    BY AgentAssumption DEF ControlType
  <2>2. Learns(S, RecvDaup(S, m), nextUid)
    BY <1>1, <2>1, RecvDaupCall
  <2> QED BY <1>3, <1>10, <2>2 DEF RecvDAUP
<1>11. ASSUME NEW m \in Dabrs, RecvDABR(m) PROVE LearningStep
  BY <1>11, SameStep DEF RecvDABR, Become, S, Timing
<1>12. ASSUME DabrEntry PROVE LearningStep
  <2> DEFINE e == Head(dabr)
             t == AddEntryUntil(S, e.id, e.add, Expiry(e))
  <2>1. e \in [id : Ids, add : Addrs, age : Int]
    <3> DEFINE E == [id : Ids, add : Addrs, age : Int]
    <3>1. dabr \in Seq(E) /\ dabr # << >>
      BY <1>12 DEF DabrEntry, AgentInv, EnvType
    <3> HIDE DEF E
    <3>2. e \in E
      BY <3>1
    <3> QED BY <3>2 DEF E
  <2>2. Expiry(e) \in Nat
    BY <2>1 DEF Expiry, AgentInv, EnvType
  <2>3. Gains(S, t, FreshUntil(S) \cup {Expiry(e)})
    BY <1>1, <2>1, <2>2, AddEntryUntilGains
  <2>4. {Expiry(e)} \subseteq Carried
    BY <1>12 DEF DabrEntry, Carried
  <2>5. Become(t) /\ UNCHANGED Timing
    BY <1>12 DEF DabrEntry, Timing
  <2> HIDE DEF t, e
  <2> QED BY <2>3, <2>4, <2>5, LearnsStep
<1>13. ASSUME NEW t \in Tables, AddressKept(t) PROVE LearningStep
  BY <1>1, <1>2, <1>13, AgentAssumption, TableCall DEF AddressKept, Timing
<1>14. ASSUME NEW a \in NewAddrs, NEW t \in Tables, AddressSelected(a, t) PROVE LearningStep
  <2> DEFINE r == [S EXCEPT !.address = a, !.table = {}]
             moved == [S EXCEPT !.address = a]
             l == UpdateAdd(r)
             w == [l EXCEPT !.table = t]
  <2>1. Learns(S, moved, nextUid)
    BY <1>1, AgentAssumption, AddressCall
  <2>2. Learns(S, r, nextUid)
    <3>1. r = [moved EXCEPT !.table = {}]
      BY DEF S
    <3> HIDE DEF moved, r
    <3>2. Learns(moved, [moved EXCEPT !.table = {}], nextUid)
      BY <2>1, TableCall DEF OneEntryPerAddress, Learns, Kept
    <3> QED BY <2>1, <3>1, <3>2, LearnsTransitive
  <2> HIDE DEF r
  <2>3. Learns(S, l, nextUid)
    <3>1. Learns(r, l, nextUid)
      BY <2>2, UpdateAddCall DEF Learns, Kept
    <3> QED BY <2>2, <3>1, LearnsTransitive
  <2> HIDE DEF l
  <2>4. Learns(S, w, nextUid)
    <3>1. Learns(l, w, nextUid)
      BY <2>3, AgentAssumption, TableCall DEF Learns, Kept
    <3> QED BY <2>3, <3>1, LearnsTransitive
  <2>5. Become(w) /\ UNCHANGED Timing
    BY <1>14 DEF AddressSelected, l, r, Timing
  <2> HIDE DEF w
  <2> QED BY <1>2, <2>4, <2>5
<1>15. CASE UNCHANGED vars
  BY <1>15, SameStep DEF vars, node, Timing
<1> QED
  BY <1>4, <1>5, <1>6, <1>7, <1>8, <1>9, <1>10, <1>11, <1>12, <1>13, <1>14, <1>15,
     RecvLocalStep DEF Next, Timers

\* checkDarq changes the deadlines and the counts of the packets that are late.
LEMMA DarqTimerStep ==
  ASSUME AgentInv, NEW t \in Timers, DarqTimer(t)
  PROVE  /\ t \notin checks /\ checks' = checks \cup {t} /\ UNCHANGED <<now, purgeAt, counter>>
         /\ dht' = dht /\ queue' = queue
         /\ \A u \in queue :
              pkt'[u] = IF pkt[u].lifetime <= now
                        THEN [pkt[u] EXCEPT
                                !.lifetime = now + pkt[u].darqCount * ADP_DARQ_EB_TIMEOUT,
                                !.darqCount = @ + 1]
                        ELSE pkt[u]
<1> DEFINE w == CheckDarq(S)
<1>1. /\ t \notin checks /\ checks' = checks \cup {t} /\ UNCHANGED <<now, purgeAt, counter>>
      /\ Become(w)
  BY DEF DarqTimer
<1>2. /\ w.dht = dht /\ w.queue = queue
      /\ w.pkt = [u \in Uids |->
                    IF u \in Expired(S)
                    THEN [S.pkt[u] EXCEPT
                            !.lifetime = S.now + S.pkt[u].darqCount * ADP_DARQ_EB_TIMEOUT,
                            !.darqCount = @ + 1]
                    ELSE S.pkt[u]]
  BY DEF CheckDarq, BackedOff, S
<1>3. S.pkt = pkt /\ S.now = now /\ S.queue = queue /\ queue \subseteq Uids
  BY DEF S, AgentInv, NodeInv, NodeType
<1> HIDE DEF w, S
<1>4. \A u \in queue : u \in Expired(S) <=> pkt[u].lifetime <= now
  BY <1>3 DEF Expired
<1> QED BY <1>1, <1>2, <1>3, <1>4 DEF Become

\* purge takes out what has expired, from its second call on.
LEMMA DHTTimerStep ==
  ASSUME AgentInv, DHTTimer
  PROVE  /\ now = purgeAt /\ purgeAt' = purgeAt + ASPU_DHT_PURGE_INTERVAL
         /\ counter' = 2 /\ UNCHANGED <<now, checks, dabr>>
         /\ queue' = queue /\ pkt' = pkt
         /\ DOMAIN dht' \subseteq DOMAIN dht /\ \A x \in DOMAIN dht' : dht'[x] = dht[x]
         /\ counter = 2 => \A x \in DOMAIN dht' : ~(dht'[x].expire < now)
<1>1. counter \in 1 .. 2
  BY DEF AgentInv, EnvType
<1>2. /\ now = purgeAt /\ purgeAt' = purgeAt + ASPU_DHT_PURGE_INTERVAL
      /\ counter' = 2 /\ UNCHANGED <<now, checks, dabr>>
      /\ queue' = queue /\ pkt' = pkt
      /\ dht' = IF counter > 1 THEN DHTPurged(dht, now) ELSE dht
  BY <1>1 DEF DHTTimer, Become, S
<1>3. CASE counter = 2
  BY <1>2, <1>3 DEF DHTPurged
<1>4. CASE counter = 1
  BY <1>2, <1>4
<1> QED BY <1>1, <1>2, <1>3, <1>4

\* Time passes, and nothing else.
LEMMA TickStep ==
  ASSUME Tick
  PROVE  /\ checks = Timers /\ checks' = {} /\ now' = now + 1 /\ now < purgeAt
         /\ dht' = dht /\ queue' = queue /\ pkt' = pkt /\ UNCHANGED <<purgeAt, counter, dabr>>
BY DEF Tick, Become, S, Timers, Idle

(***************************************************************************)
(* The agent implements AddressResolution.                                 *)
(***************************************************************************)
\* Every step learns, accepts, forgets or is none of the abstract resolver's.
LEMMA ResolutionStep ==
  ASSUME AgentInv, AgentInv', [Next]_vars
  PROVE  [Resolution!Next]_Resolution!vars
<1> DEFINE wait == [u \in queue |-> pkt[u].dst]
<1>1. /\ DOMAIN dht' \subseteq Ids /\ DOMAIN dht \subseteq Ids /\ queue \subseteq Uids
      /\ \A u \in queue' : pkt'[u].dst \notin DOMAIN dht'
      /\ \A u \in queue : pkt[u].dst \notin DOMAIN dht
      /\ \A u \in queue : u < nextUid
  <2>1. NoWaitingForKnown /\ NoWaitingForKnown' /\ TypeOK /\ TypeOK' /\ QueueOwnsItsPackets
    BY AgentInvImplies, PTL
  <2>2. \A u \in queue : u < nextUid
    <3>1. \A u \in queue : u \in Uids /\ ~(u >= nextUid) /\ nextUid \in Int
      BY <2>1 DEF QueueOwnsItsPackets, TypeOK
    <3> QED BY <3>1 DEF Uids
  <2> QED BY <2>1, <2>2 DEF NoWaitingForKnown, TypeOK
<1>2. CASE LearningStep
  <2>1. /\ DOMAIN dht \subseteq DOMAIN dht' /\ queue' \subseteq queue
        /\ \A u \in queue' : pkt'[u] = pkt[u]
        /\ \A u \in queue \ queue' : pkt[u].dst \in DOMAIN dht'
    BY <1>2 DEF LearningStep, Gains, S
  <2>2. {u \in DOMAIN wait : wait[u] \notin DOMAIN dht'} = queue'
    BY <1>1, <2>1
  <2>3. wait' = [u \in queue' |-> wait[u]]
    BY <2>1
  <2>4. DOMAIN dht' = DOMAIN dht \cup DOMAIN dht'
    BY <2>1
  <2>5. PICK I : I = DOMAIN dht'
    OBVIOUS
  <2>6. Resolution!Learn(I)
    BY <2>2, <2>3, <2>4, <2>5 DEF Resolution!Learn, Resolution!Keep
  <2> QED BY <1>1, <2>5, <2>6 DEF Resolution!Next
<1>3. CASE QueueingStep
  <2> DEFINE u == nextUid
             d == pkt'[nextUid].dst
  <2>1. /\ u \in Uids /\ d \in Ids \cup {-1} /\ d \notin DOMAIN dht /\ dht' = dht
        /\ queue' = Making(queue) \cup {u}
        /\ \A v \in Making(queue) : pkt'[v] = pkt[v]
    <3> DEFINE w == [S EXCEPT !.pkt[nextUid] = pkt'[nextUid]]
    <3>1. /\ w.dht = dht /\ w.queue = queue /\ S'.dht = dht' /\ S'.queue = queue'
          /\ S'.pkt = pkt' /\ w.pkt = [pkt EXCEPT ![u] = pkt'[u]]
          /\ DOMAIN pkt = Uids
      BY DEF S, AgentInv, NodeInv, NodeType
    <3>2. Queued(w, S', u) /\ u \in Uids /\ d \in LocalDsts
      BY <1>3 DEF QueueingStep
    <3>3. d \in Ids \cup {-1}
      BY <3>2, AgentAssumption DEF IP_BROADCAST
    <3>4. \A v \in Making(queue) : v \in queue /\ v \in Uids /\ v # u
      BY <1>1 DEF Making, Uids
    <3> HIDE DEF w, S
    <3>5. \A v \in Making(queue) : w.pkt[v] = pkt[v]
      BY <3>1, <3>4
    <3>6. w.pkt[u] = pkt'[u]
      BY <3>1, <3>2
    <3> QED BY <3>1, <3>2, <3>3, <3>5, <3>6 DEF Queued
  <2>2. Resolution!Room = Making(queue)
    BY DEF Resolution!Room, Making, Cardinality, Resolution!Cardinality, Min, Resolution!Min
  <2>3. \A v \in Making(queue) : v \in queue /\ v # u
    BY <1>1 DEF Making, Uids
  <2>4. wait' = [v \in Making(queue) \cup {u} |-> IF v = u THEN d ELSE wait[v]]
    BY <2>1, <2>3
  <2>5. PICK v, x : v = u /\ x = d
    OBVIOUS
  <2>6. Resolution!Accept(v, x)
    <3> HIDE DEF d
    <3>1. \A y \in DOMAIN wait : y < v
      BY <1>1, <2>5
    <3>2. x \notin DOMAIN dht /\ DOMAIN dht' = DOMAIN dht
      BY <2>1, <2>5 DEF d
    <3> QED BY <2>2, <2>4, <2>5, <3>1, <3>2 DEF Resolution!Accept
  <2> QED BY <2>1, <2>5, <2>6 DEF Resolution!Next
<1>4. CASE \E t \in Timers : DarqTimer(t)
  <2>1. dht' = dht /\ queue' = queue /\ \A u \in queue : pkt'[u].dst = pkt[u].dst
    <3>1. PICK t \in Timers : DarqTimer(t)
      BY <1>4
    <3>2. \A u \in queue : pkt[u] \in Header
      BY DEF S, AgentInv, NodeInv, NodeType
    <3>3. /\ dht' = dht /\ queue' = queue
          /\ \A u \in queue :
               pkt'[u] = IF pkt[u].lifetime <= now
                         THEN [pkt[u] EXCEPT
                                 !.lifetime = now + pkt[u].darqCount * ADP_DARQ_EB_TIMEOUT,
                                 !.darqCount = @ + 1]
                         ELSE pkt[u]
      BY <3>1, DarqTimerStep
    <3>4. \A u \in queue : pkt'[u].dst = pkt[u].dst
      BY <3>2, <3>3 DEF Header
    <3> QED BY <3>3, <3>4
  <2>2. wait' = wait
    BY <2>1
  <2> QED BY <2>1, <2>2 DEF Resolution!vars
<1>5. CASE DHTTimer
  <2>1. /\ queue' = queue /\ pkt' = pkt /\ DOMAIN dht' \subseteq DOMAIN dht
    BY <1>5, DHTTimerStep
  <2>2. DOMAIN dht' = DOMAIN dht \ (DOMAIN dht \ DOMAIN dht') /\ wait' = wait
    BY <2>1
  <2>3. PICK I : I = DOMAIN dht \ DOMAIN dht'
    OBVIOUS
  <2>4. Resolution!Forget(I)
    BY <2>2, <2>3 DEF Resolution!Forget
  <2> QED BY <1>1, <2>3, <2>4 DEF Resolution!Next
<1>6. CASE Tick
  <2>1. dht' = dht /\ queue' = queue /\ pkt' = pkt
    BY <1>6, TickStep
  <2>2. wait' = wait
    BY <2>1
  <2> QED BY <2>1, <2>2 DEF Resolution!vars
<1> QED BY <1>2, <1>3, <1>4, <1>5, <1>6, StepKinds

\* Seen from its applications the agent is an address resolver: packets wait
\* exactly for unknown destinations, and leave the queue only all together when
\* their destination becomes known, or as the oldest when the queue is full.
THEOREM AgentIsResolver == Spec => ImplementsResolution
<1>1. Init => Resolution!Init
  BY DEF Init, Resolution!Init
<1>2. AgentInv /\ AgentInv' /\ [Next]_vars => [Resolution!Next]_Resolution!vars
  BY ResolutionStep
<1> QED BY <1>1, <1>2, AgentInvariant, PTL DEF Spec, ImplementsResolution, Resolution!Spec

(***************************************************************************)
(* How long a request waits.                                               *)
(***************************************************************************)
\* Learning changes no packet that goes on waiting.
LEMMA LearningWaits ==
  ASSUME LearningStep
  PROVE  /\ UNCHANGED <<now, checks, purgeAt, counter>>
         /\ queue' \subseteq queue /\ \A u \in queue' : pkt'[u] = pkt[u]
         /\ \A x \in DOMAIN dht' : \/ x \in DOMAIN dht /\ dht'[x] = dht[x]
                                   \/ dht'[x].expire \in {now + ASPU_DHT_ENTRY_TIMEOUT} \cup Carried
BY DEF LearningStep, Gains, S, Timing, FreshUntil

\* The packet that joins the queue is stamped; those that stay are as they were.
LEMMA QueueingWaits ==
  ASSUME AgentInv, QueueingStep
  PROVE  /\ UNCHANGED <<now, checks, purgeAt, counter>> /\ dht' = dht
         /\ \A u \in queue' :
              \/ u \in queue /\ pkt'[u] = pkt[u]
              \/ /\ pkt'[u].darqCount = 0
                 /\ pkt'[u].ts = now + ASPU_QUEUE_TIMEOUT
                 /\ pkt'[u].lifetime = now + ADP_DARQ_TIMEOUT
<1> DEFINE w == [S EXCEPT !.pkt[nextUid] = pkt'[nextUid]]
<1>1. /\ w.dht = dht /\ w.queue = queue /\ w.now = now
      /\ S'.dht = dht' /\ S'.queue = queue' /\ S'.pkt = pkt'
      /\ w.pkt = [pkt EXCEPT ![nextUid] = pkt'[nextUid]] /\ DOMAIN pkt = Uids
      /\ queue \subseteq Uids /\ S.pkt = pkt /\ S.queue = queue
  BY DEF S, AgentInv, NodeInv, NodeType
<1>2. /\ Queued(w, S', nextUid) /\ nextUid \in Uids /\ pkt'[nextUid].darqCount = 0
      /\ UNCHANGED <<now, checks, purgeAt, counter>>
  BY DEF QueueingStep, Timing
<1>3. nextUid \notin queue
  <2>1. S.pkt[nextUid].fate = "unborn"
    BY <1>1, <1>2 DEF AgentInv, NodeInv, Uids
  <2> QED BY <1>1, <2>1 DEF AgentInv, NodeInv, QueueInv
<1>4. \A v \in Making(queue) : v \in queue
  BY DEF Making
<1> HIDE DEF w, S
<1>5. \A v \in queue : w.pkt[v] = pkt[v]
  BY <1>1, <1>3
<1> QED BY <1>1, <1>2, <1>4, <1>5 DEF Queued

\* The headers of the packets that wait.
LEMMA WaitingHeaders ==
  ASSUME AgentInv
  PROVE  /\ now \in Nat
         /\ \A u \in queue : /\ pkt[u].lifetime \in Nat /\ pkt[u].darqCount \in Nat
                             /\ pkt[u].ts \in Nat
<1>1. now \in Nat /\ pkt \in [Uids -> Header] /\ queue \subseteq Uids
  BY AgentInvImplies DEF TypeOK
<1>2. \A u \in queue : pkt[u] \in Header
  BY <1>1
<1> QED BY <1>1, <1>2 DEF Header

\* One more back-off, of k periods, adds k to the sum of the first k numbers.
LEMMA NextBackoff ==
  ASSUME NEW e \in Nat, NEW k \in Nat, NEW L \in Int, NEW t \in Int, NEW b \in Int,
         2 * (L - b) >= e * (k * (k - 1)), L <= t
  PROVE  2 * (t + k * e - b) >= e * ((k + 1) * ((k + 1) - 1))
<1>1. e * ((k + 1) * ((k + 1) - 1)) = e * (k * (k - 1)) + 2 * (k * e)
  OBVIOUS
<1>2. k * e \in Int /\ e * (k * (k - 1)) \in Int
  OBVIOUS
<1> QED BY <1>1, <1>2

\* The k-th retry of a request waits k - 1 back-off periods: lifetime_ is never
\* earlier than the time of queueing plus the first timeout plus the sum of the
\* back-offs so far, however late the timers run.
THEOREM BackoffsAddUp == Spec => []BackoffGrows
<1>1. Init => BackoffGrows
  BY DEF Init, BackoffGrows
<1>2. ASSUME AgentInv, [Next]_vars, BackoffGrows
      PROVE  BackoffGrows'
  <2> DEFINE Late(p) == 2 * (p.lifetime - (p.ts - ASPU_QUEUE_TIMEOUT) - ADP_DARQ_TIMEOUT)
                          >= ADP_DARQ_EB_TIMEOUT * (p.darqCount * (p.darqCount - 1))
  <2>1. \A u \in queue : Late(pkt[u])
    BY <1>2 DEF BackoffGrows
  <2>2. SUFFICES \A u \in queue' : Late(pkt'[u])
    BY DEF BackoffGrows
  <2>3. /\ ADP_DARQ_EB_TIMEOUT \in Nat /\ ADP_DARQ_TIMEOUT \in Nat /\ ASPU_QUEUE_TIMEOUT \in Nat
        /\ now \in Nat
        /\ \A u \in queue : /\ pkt[u].lifetime \in Nat /\ pkt[u].darqCount \in Nat
                            /\ pkt[u].ts \in Nat
    BY <1>2, NodeAssumption, WaitingHeaders
  <2>4. CASE LearningStep
    <3> HIDE DEF Late
    <3> QED BY <2>1, <2>4, LearningWaits
  <2>5. CASE QueueingStep
    <3>1. ASSUME NEW u \in queue', pkt'[u].darqCount = 0,
                 pkt'[u].ts = now + ASPU_QUEUE_TIMEOUT,
                 pkt'[u].lifetime = now + ADP_DARQ_TIMEOUT
          PROVE  Late(pkt'[u])
      BY <2>3, <3>1
    <3> HIDE DEF Late
    <3> QED BY <1>2, <2>1, <2>5, <3>1, QueueingWaits
  <2>6. CASE \E t \in Timers : DarqTimer(t)
    <3>1. queue' = queue /\ \A u \in queue :
             pkt'[u] = IF pkt[u].lifetime <= now
                       THEN [pkt[u] EXCEPT
                               !.lifetime = now + pkt[u].darqCount * ADP_DARQ_EB_TIMEOUT,
                               !.darqCount = @ + 1]
                       ELSE pkt[u]
      BY <1>2, <2>6, DarqTimerStep
    <3>2. ASSUME NEW u \in queue, pkt[u].lifetime <= now PROVE Late(pkt'[u])
      <4> DEFINE k == pkt[u].darqCount
                 L == pkt[u].lifetime
                 b == pkt[u].ts - ASPU_QUEUE_TIMEOUT + ADP_DARQ_TIMEOUT
      <4>1. pkt[u] \in Header
        BY <1>2, AgentInvImplies DEF TypeOK
      <4>2. /\ pkt'[u].lifetime = now + k * ADP_DARQ_EB_TIMEOUT
            /\ pkt'[u].darqCount = k + 1 /\ pkt'[u].ts = pkt[u].ts
        BY <3>1, <3>2, <4>1 DEF Header
      <4>3. k \in Nat /\ L \in Nat /\ b \in Int /\ pkt[u].ts \in Nat
        BY <2>3
      <4>4. 2 * (L - b) >= ADP_DARQ_EB_TIMEOUT * (k * (k - 1))
        BY <2>1, <2>3, <4>3
      <4>5. L <= now
        BY <3>2
      <4>6. 2 * (now + k * ADP_DARQ_EB_TIMEOUT - b)
              >= ADP_DARQ_EB_TIMEOUT * ((k + 1) * ((k + 1) - 1))
        <5> HIDE DEF k, L, b
        <5> QED BY <2>3, <4>3, <4>4, <4>5, NextBackoff
      <4>7. k * ADP_DARQ_EB_TIMEOUT \in Int
        BY <2>3, <4>3
      <4>8. pkt'[u].lifetime - (pkt'[u].ts - ASPU_QUEUE_TIMEOUT) - ADP_DARQ_TIMEOUT
              = now + k * ADP_DARQ_EB_TIMEOUT - b
        BY <2>3, <4>2, <4>3, <4>7, SMTT(30)
      <4> HIDE DEF k, L, b
      <4> QED BY <4>2, <4>6, <4>8
    <3> HIDE DEF Late
    <3> QED BY <2>1, <3>1, <3>2
  <2>7. CASE DHTTimer
    BY <1>2, <2>1, <2>7, DHTTimerStep
  <2>8. CASE Tick
    BY <2>1, <2>8, TickStep
  <2> QED BY <1>2, <2>4, <2>5, <2>6, <2>7, <2>8, StepKinds
<1> QED BY <1>1, <1>2, AgentInvariant, PTL DEF Spec

\* A packet that waits is not due yet, or is due before either timer has run, or
\* has been asked for by one of the two timers and will be by the other one.
OnTime(p) ==
  \/ p.lifetime > now /\ p.darqCount # 1
  \/ p.lifetime = now /\ p.darqCount # 1 /\ checks = {}
  \/ p.lifetime = now /\ p.darqCount = 1 /\ checks # {} /\ checks # Timers

\* One of the timers runs, for a packet that waits.
LEMMA CheckedOnTime ==
  ASSUME ADP_DARQ_EB_TIMEOUT > 0, AgentInv, NEW t \in Timers, DarqTimer(t),
         NEW u \in queue, OnTime(pkt[u])
  PROVE  OnTime(pkt[u])'
<1> DEFINE k == pkt[u].darqCount
           L == pkt[u].lifetime
<1>1. /\ ADP_DARQ_EB_TIMEOUT \in Nat \ {0} /\ now \in Nat /\ k \in Nat /\ L \in Nat
      /\ checks \subseteq Timers /\ t \in Timers
  BY NodeAssumption, WaitingHeaders DEF AgentInv, EnvType
<1>2. /\ t \notin checks /\ checks' = checks \cup {t} /\ now' = now
      /\ pkt'[u] = IF L <= now
                   THEN [pkt[u] EXCEPT !.lifetime = now + k * ADP_DARQ_EB_TIMEOUT,
                                       !.darqCount = @ + 1]
                   ELSE pkt[u]
  BY DarqTimerStep
<1>3. pkt[u] \in Header
  BY AgentInvImplies DEF TypeOK
<1>4. L <= now => /\ pkt'[u].lifetime = now + k * ADP_DARQ_EB_TIMEOUT
                  /\ pkt'[u].darqCount = k + 1
  BY <1>2, <1>3 DEF Header
<1>5. CASE L > now
  <2>1. pkt'[u] = pkt[u] /\ k # 1
    BY <1>1, <1>2, <1>5 DEF OnTime
  <2> QED BY <1>2, <1>5, <2>1 DEF OnTime
<1>6. CASE L = now
  <2>1. pkt'[u].lifetime = now + k * ADP_DARQ_EB_TIMEOUT /\ pkt'[u].darqCount = k + 1
    BY <1>1, <1>4, <1>6
  <2>2. CASE k = 0
    <3>1. checks = {}
      BY <1>1, <1>6, <2>2 DEF OnTime
    <3>2. checks' = {t} /\ {t} # Timers
      BY <1>2, <3>1 DEF Timers
    <3>3. 0 * ADP_DARQ_EB_TIMEOUT = 0
      BY <1>1
    <3>4. pkt'[u].lifetime = now /\ pkt'[u].darqCount = 1
      BY <1>1, <2>1, <2>2, <3>3
    <3> QED BY <1>2, <3>2, <3>4 DEF OnTime
  <2>3. CASE k # 0
    <3>1. k * ADP_DARQ_EB_TIMEOUT > 0 /\ k * ADP_DARQ_EB_TIMEOUT \in Int
      BY <1>1, <2>3
    <3>2. pkt'[u].lifetime > now /\ pkt'[u].darqCount # 1
      BY <1>1, <2>1, <2>3, <3>1
    <3> QED BY <1>2, <3>2 DEF OnTime
  <2> QED BY <2>2, <2>3
<1> QED BY <1>1, <1>5, <1>6 DEF OnTime

\* When both timers have run no waiting packet is overdue for a request, and none
\* has been asked for just once: provided that a request and a back-off take
\* time, the two runs of checkDarq at one instant never leave a packet behind.
THEOREM RetriesComeInTime ==
  ASSUME ADP_DARQ_TIMEOUT > 0, ADP_DARQ_EB_TIMEOUT > 0
  PROVE  Spec => []RetriesOnTime
<1> DEFINE I == \A u \in queue : OnTime(pkt[u])
<1>1. Init => I
  BY DEF Init
<1>2. ASSUME AgentInv, [Next]_vars, I
      PROVE  I'
  <2>1. SUFFICES ASSUME NEW u \in queue'
                 PROVE  OnTime(pkt[u])'
    OBVIOUS
  <2>2. CASE LearningStep
    <3>1. u \in queue /\ pkt'[u] = pkt[u] /\ now' = now /\ checks' = checks
      BY <2>2, LearningWaits
    <3> QED BY <1>2, <3>1 DEF OnTime
  <2>3. CASE QueueingStep
    <3>1. CASE u \in queue /\ pkt'[u] = pkt[u]
      <4>1. now' = now /\ checks' = checks
        BY <1>2, <2>3, QueueingWaits
      <4> QED BY <1>2, <3>1, <4>1 DEF OnTime
    <3>2. CASE pkt'[u].darqCount = 0 /\ pkt'[u].lifetime = now + ADP_DARQ_TIMEOUT
      <4>1. now' = now /\ now \in Nat /\ ADP_DARQ_TIMEOUT \in Nat
        BY <1>2, <2>3, QueueingWaits, WaitingHeaders, NodeAssumption
      <4>2. pkt'[u].lifetime > now' /\ pkt'[u].darqCount # 1
        BY <3>2, <4>1
      <4> QED BY <4>2 DEF OnTime
    <3> QED BY <1>2, <2>3, <3>1, <3>2, QueueingWaits
  <2>4. ASSUME NEW t \in Timers, DarqTimer(t) PROVE OnTime(pkt[u])'
    <3>1. u \in queue
      BY <1>2, <2>4, DarqTimerStep
    <3> QED BY <1>2, <2>4, <3>1, CheckedOnTime
  <2>5. CASE DHTTimer
    <3>1. u \in queue /\ pkt'[u] = pkt[u] /\ now' = now /\ checks' = checks
      BY <1>2, <2>5, DHTTimerStep
    <3> QED BY <1>2, <3>1 DEF OnTime
  <2>6. CASE Tick
    <3>1. /\ u \in queue /\ pkt'[u] = pkt[u] /\ now' = now + 1
          /\ checks = Timers /\ checks' = {}
      BY <2>6, TickStep
    <3>2. pkt[u].lifetime > now /\ pkt[u].darqCount # 1
      BY <1>2, <3>1 DEF OnTime, Timers
    <3>3. pkt[u].lifetime \in Nat /\ now \in Nat
      BY <1>2, <3>1, WaitingHeaders
    <3>4. pkt'[u].lifetime > now' \/ pkt'[u].lifetime = now'
      BY <3>1, <3>2, <3>3
    <3> QED BY <3>1, <3>2, <3>4 DEF OnTime
  <2> QED BY <1>2, <2>2, <2>3, <2>4, <2>5, <2>6, StepKinds
<1>3. I => RetriesOnTime
  BY DEF OnTime, RetriesOnTime, Timers
<1> QED BY <1>1, <1>2, <1>3, AgentInvariant, PTL DEF Spec

(***************************************************************************)
(* How long a cache entry outlives its expiry.                             *)
(***************************************************************************)
\* recvDabr takes a message and then reads it from the front; no other event
\* touches it.
LEMMA DabrSteps ==
  ASSUME [Next]_vars
  PROVE  \/ dabr' = dabr
         \/ dabr' \in Dabrs
         \/ dabr # << >> /\ dabr' = Tail(dabr)
BY DEF Next, vars, RecvLocal, RecvTransit, MacFailed, MacDone, RecvControl, RecvHello, RecvDARQ,
       RecvDARP, RecvDAUP, RecvDABR, DabrEntry, AddressKept, AddressSelected, DarqTimer,
       DHTTimer, Tick

\* The expiries of a message are at most b old.
Recent(m, b) == \A i \in DOMAIN m : m[i].age >= -b

\* What is left of such a message has such expiries too.
LEMMA RecentTail ==
  ASSUME NEW T, NEW b \in Nat, NEW m \in Seq(T), m # << >>, Recent(m, b)
  PROVE  Recent(Tail(m), b) /\ Head(m) \in T /\ Head(m).age >= -b
<1>1. /\ Len(m) \in Nat /\ Len(m) >= 1 /\ DOMAIN m = 1 .. Len(m)
      /\ Head(m) = m[1] /\ DOMAIN Tail(m) = 1 .. (Len(m) - 1)
  OBVIOUS
<1>2. \A i \in 1 .. (Len(m) - 1) : Tail(m)[i] = m[i + 1] /\ i + 1 \in 1 .. Len(m)
  BY <1>1
<1>3. 1 \in DOMAIN m /\ Head(m) \in T
  BY <1>1
<1> QED BY <1>1, <1>2, <1>3 DEF Recent

\* The purge is due within one interval, never passed over, and the call that
\* was skipped was the first one; no entry expired before the last purge but one,
\* or it was announced since the last one.
PurgeBound(b) ==
  /\ now <= purgeAt /\ purgeAt - ASPU_DHT_PURGE_INTERVAL <= now
  /\ counter = 1 => purgeAt = ASPU_DHT_PURGE_INTERVAL
  /\ Recent(dabr, b)
  /\ \A x \in DOMAIN dht :
        \/ dht[x].expire >= purgeAt - 2 * ASPU_DHT_PURGE_INTERVAL
        \/ dht[x].expire >= purgeAt - ASPU_DHT_PURGE_INTERVAL - b

\* What DhtStaleBound says of b.
Bounded(b) ==
  \A x \in DOMAIN dht :
     \/ now <= dht[x].expire + 2 * ASPU_DHT_PURGE_INTERVAL
     \/ now <= dht[x].expire + ASPU_DHT_PURGE_INTERVAL + b

\* Every step keeps it, the one of the purge timer by purging.
LEMMA PurgeStep ==
  ASSUME NEW b \in Nat, AnnouncedWithin(b), AgentInv, [Next]_vars, PurgeBound(b)
  PROVE  PurgeBound(b)'
<1> DEFINE I == ASPU_DHT_PURGE_INTERVAL
           T == [id : Ids, add : Addrs, age : Int]
<1>1. /\ I \in Nat /\ I > 0 /\ now \in Nat /\ purgeAt \in Nat /\ counter \in {1, 2}
      /\ dabr \in Seq(T) /\ ASPU_DHT_ENTRY_TIMEOUT \in Nat
  BY AgentAssumption, NodeAssumption DEF AgentInv, EnvType
<1>2. \A x \in DOMAIN dht : dht[x].expire \in Nat
  BY AgentInvImplies DEF TypeOK, DHT_Entry
<1>3. Recent(dabr, b)'
  <2>1. CASE dabr' = dabr
    BY <2>1 DEF PurgeBound, Recent
  <2>2. CASE dabr' \in Dabrs
    BY <2>2 DEF Recent, AnnouncedWithin
  <2>3. CASE dabr # << >> /\ dabr' = Tail(dabr)
    <3>1. Recent(Tail(dabr), b)
      BY <1>1, <2>3, RecentTail DEF PurgeBound
    <3> QED BY <2>3, <3>1 DEF Recent
  <2> QED BY <2>1, <2>2, <2>3, DabrSteps
<1>4. CASE UNCHANGED <<now, purgeAt, counter, dht>>
  BY <1>3, <1>4 DEF PurgeBound
<1>5. CASE LearningStep
  <2>1. ASSUME NEW x \in DOMAIN dht'
        PROVE  dht'[x].expire >= purgeAt - 2 * I \/ dht'[x].expire >= purgeAt - I - b
    <3>1. CASE x \in DOMAIN dht /\ dht'[x] = dht[x]
      BY <3>1 DEF PurgeBound
    <3>2. CASE dht'[x].expire = now + ASPU_DHT_ENTRY_TIMEOUT
      <4>1. purgeAt - I <= now
        BY DEF PurgeBound
      <4>2. now + ASPU_DHT_ENTRY_TIMEOUT >= purgeAt - 2 * I
        BY <1>1, <4>1
      <4> QED BY <3>2, <4>2
    <3>3. CASE dht'[x].expire \in Carried
      <4>1. dabr # << >> /\ dht'[x].expire = Expiry(Head(dabr))
        BY <3>3 DEF Carried
      <4>2. Head(dabr).age >= -b /\ Head(dabr) \in T
        BY <1>1, <4>1, RecentTail DEF PurgeBound
      <4>3. Head(dabr).age \in Int
        BY <4>2
      <4>4. Expiry(Head(dabr)) >= now - b
        BY <1>1, <4>2, <4>3 DEF Expiry
      <4>5. Expiry(Head(dabr)) \in Int
        BY <1>1, <4>3 DEF Expiry
      <4> QED BY <1>1, <4>1, <4>4, <4>5 DEF PurgeBound
    <3> QED BY <1>5, <3>1, <3>2, <3>3, LearningWaits
  <2>2. now' = now /\ purgeAt' = purgeAt /\ counter' = counter
    BY <1>5, LearningWaits
  <2>3. \A x \in DOMAIN dht' : \/ dht'[x].expire >= purgeAt' - 2 * I
                              \/ dht'[x].expire >= purgeAt' - I - b
    BY <2>1, <2>2
  <2>4. /\ now' <= purgeAt' /\ purgeAt' - I <= now'
        /\ counter' = 1 => purgeAt' = I
    BY <2>2 DEF PurgeBound
  <2> QED BY <1>3, <2>3, <2>4 DEF PurgeBound
<1>6. CASE QueueingStep
  BY <1>4, <1>6, QueueingWaits
<1>7. CASE \E t \in Timers : DarqTimer(t)
  <2>1. PICK t \in Timers : DarqTimer(t)
    BY <1>7
  <2>2. UNCHANGED <<now, purgeAt, counter, dht>>
    BY <2>1, DarqTimerStep, Zenon
  <2> QED BY <1>4, <2>2
<1>8. CASE DHTTimer
  <2>1. /\ now = purgeAt /\ purgeAt' = purgeAt + I /\ counter' = 2 /\ now' = now
        /\ DOMAIN dht' \subseteq DOMAIN dht /\ \A x \in DOMAIN dht' : dht'[x] = dht[x]
        /\ counter = 2 => \A x \in DOMAIN dht' : ~(dht'[x].expire < now)
    BY <1>8, DHTTimerStep
  <2>2. ASSUME NEW x \in DOMAIN dht'
        PROVE  dht'[x].expire >= purgeAt' - 2 * I
    <3>1. dht'[x].expire \in Nat
      BY <1>2, <2>1
    <3>2. CASE counter = 2
      <4>1. ~(dht'[x].expire < now)
        BY <2>1, <3>2
      <4> QED BY <1>1, <2>1, <3>1, <4>1
    <3>3. CASE counter = 1
      <4>1. purgeAt = I
        BY <3>3 DEF PurgeBound
      <4> QED BY <1>1, <2>1, <3>1, <4>1
    <3> QED BY <1>1, <3>2, <3>3
  <2>3. now' <= purgeAt' /\ purgeAt' - I <= now' /\ counter' # 1
    BY <1>1, <2>1
  <2> QED BY <1>3, <2>2, <2>3 DEF PurgeBound
<1>9. CASE Tick
  <2>1. now' = now + 1 /\ now < purgeAt /\ UNCHANGED <<purgeAt, counter>> /\ dht' = dht
    BY <1>9, TickStep
  <2>2. now' <= purgeAt' /\ purgeAt' - I <= now'
    BY <1>1, <2>1 DEF PurgeBound
  <2> QED BY <1>3, <2>1, <2>2 DEF PurgeBound
<1> QED BY <1>5, <1>6, <1>7, <1>8, <1>9, StepKinds

\* No entry outlives its expiry by more than two purge intervals, or by more than
\* one beyond the age of the oldest expiry that any neighbour announces.
THEOREM StaleEntriesGo == Spec => []DhtStaleBound
<1>1. ASSUME NEW b \in Nat PROVE AgentInv /\ PurgeBound(b) => Bounded(b)
  <2> SUFFICES ASSUME AgentInv, PurgeBound(b), NEW x \in DOMAIN dht
               PROVE  \/ now <= dht[x].expire + 2 * ASPU_DHT_PURGE_INTERVAL
                      \/ now <= dht[x].expire + ASPU_DHT_PURGE_INTERVAL + b
    BY DEF Bounded
  <2>1. dht[x].expire \in Nat
    BY AgentInvImplies DEF TypeOK, DHT_Entry
  <2>2. now \in Nat /\ purgeAt \in Nat /\ ASPU_DHT_PURGE_INTERVAL \in Nat
    BY AgentAssumption DEF AgentInv, EnvType
  <2>3. /\ now <= purgeAt
        /\ \/ dht[x].expire >= purgeAt - 2 * ASPU_DHT_PURGE_INTERVAL
           \/ dht[x].expire >= purgeAt - ASPU_DHT_PURGE_INTERVAL - b
    BY DEF PurgeBound
  <2> QED BY <2>1, <2>2, <2>3
<1> DEFINE B == {b \in 0 .. MaxTime : AnnouncedWithin(b)}
           I == \A b \in B : PurgeBound(b)
<1>2. \A b \in B : b \in Nat /\ AnnouncedWithin(b)
  OBVIOUS
<1>3. Init => I
  <2> SUFFICES ASSUME Init, NEW b \in B PROVE PurgeBound(b)
    OBVIOUS
  <2>1. Recent(dabr, b)
    BY DEF Init, Recent
  <2> QED BY <2>1, AgentAssumption DEF Init, PurgeBound
<1>4. AgentInv /\ [Next]_vars /\ I => I'
  <2> SUFFICES ASSUME AgentInv, [Next]_vars, I, NEW b \in B PROVE PurgeBound(b)'
    BY DEF AnnouncedWithin
  <2>1. PurgeBound(b)
    OBVIOUS
  <2> HIDE DEF B, I
  <2> QED BY <1>2, <2>1, PurgeStep
<1>5. AgentInv /\ I => DhtStaleBound
  <2> SUFFICES ASSUME AgentInv, I, NEW b \in 0 .. MaxTime, AnnouncedWithin(b) PROVE Bounded(b)
    BY DEF DhtStaleBound, Bounded
  <2>1. b \in Nat /\ PurgeBound(b)
    OBVIOUS
  <2> QED BY <1>1, <2>1
<1> HIDE DEF I
<1> QED BY <1>3, <1>4, <1>5, AgentInvariant, PTL DEF Spec
=============================================================================
