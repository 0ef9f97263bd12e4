--------------------------- MODULE AspuNodeProofs ---------------------------
(***************************************************************************)
(* What the handlers of AspuNode preserve.  NodeInv is the invariant of a  *)
(* node between any two of the calls that its handlers are made of; one    *)
(* lemma per call says that the call preserves it.                         *)
(***************************************************************************)
EXTENDS AspuNode, AspuFunctionProofs, FiniteSetTheorems

(***************************************************************************)
(* RoutingTable.                                                           *)
(***************************************************************************)
\* The loop of getEntry ends with one entry that beats all others of the level.
LEMMA BestIsBest ==
  ASSUME NEW E \in SUBSET RoutingEntry, E # {}, NEW dst \in Addrs,
         \A e, f \in E : e.nextHopAdd = f.nextHopAdd => e = f
  PROVE  Best(E, dst) \in E /\ \A f \in E \ {Best(E, dst)} : Better(Best(E, dst), f, dst)
<1> DEFINE d(e) == DiffBit(dst, e.nextHopAdd)
           D == {d(e) + 1 : e \in E}
<1>1. \A e \in E : /\ e.nextHopAdd \in Addrs /\ e.etx \in Nat
                   /\ d(e) \in Int /\ d(e) + 1 \in Nat
  <2> TAKE e \in E
  <2>1. e.nextHopAdd \in Addrs /\ e.etx \in Nat
    BY DEF RoutingEntry
  <2>2. d(e) \in Bits \cup {-1}
    BY <2>1, DiffBitType
  <2> QED BY <2>1, <2>2 DEF Bits
<1> HIDE DEF d
<1>2. PICK m \in D : \A n \in D : m <= n
  <2>1. PICK e \in E : TRUE
    OBVIOUS
  <2>2. d(e) + 1 \in D
    OBVIOUS
  <2>3. D \in SUBSET Nat
    BY <1>1
  <2> HIDE DEF D
  <2> QED BY <2>2, <2>3, LeastNatural
<1> DEFINE E1 == {e \in E : d(e) + 1 = m}
           X == {e.etx : e \in E1}
<1>3. PICK x \in X : \A n \in X : x <= n
  <2>1. PICK e \in E1 : TRUE
    BY <1>2
  <2>2. e.etx \in X
    OBVIOUS
  <2>3. X \in SUBSET Nat
    BY <1>1
  <2> HIDE DEF X
  <2> QED BY <2>2, <2>3, LeastNatural
<1> DEFINE E2 == {e \in E1 : e.etx = x}
           N == {e.nextHopAdd : e \in E2}
<1>4. PICK a \in N : \A b \in N \ {a} : Below(a, b)
  <2>1. PICK e \in E2 : TRUE
    BY <1>3
  <2>2. e.nextHopAdd \in N
    OBVIOUS
  <2>3. N \in SUBSET Addrs
    BY <1>1
  <2> HIDE DEF N
  <2> QED BY <2>2, <2>3, LowestAddress
<1>5. PICK e \in E2 : e.nextHopAdd = a
  BY <1>4
<1>6. ASSUME NEW f \in E \ {e} PROVE Better(e, f, dst)
  <2>1. d(e) + 1 = m /\ m <= d(f) + 1 /\ e.etx = x
    BY <1>2
  <2>2. CASE f \notin E1
    <3>1. d(e) < d(f)
      BY <2>1, <2>2, <1>1
    <3> QED BY <3>1 DEF Better, d
  <2>3. CASE f \in E1 \ E2
    <3>1. d(e) = d(f)
      BY <2>1, <2>3, <1>1
    <3>2. x <= f.etx /\ f.etx # x
      BY <2>3, <1>3
    <3>3. e.etx < f.etx
      <4>1. e.etx = x /\ f.etx \in Nat /\ e.etx \in Nat
        BY <2>1, <1>1
      <4> QED BY <3>2, <4>1
    <3> QED BY <3>3, <3>1 DEF Better, d
  <2>4. CASE f \in E2
    <3>1. f.nextHopAdd \in N \ {a}
      BY <2>4, <1>5
    <3>2. d(e) = d(f) /\ e.etx = f.etx /\ Below(e.nextHopAdd, f.nextHopAdd)
      BY <2>4, <3>1, <1>1, <1>4, <1>5
    <3> QED BY <3>2 DEF Better, d
  <2> QED BY <2>2, <2>3, <2>4
<1> QED BY <1>6 DEF Best

\* getEntry answers the next hop of a working entry, at or above the level at
\* which the destination parts from the node, or that there is none.
LEMMA GetEntryAnswers ==
  ASSUME NEW s, s.table \subseteq RoutingEntry, OneEntryPerAddress(s.table),
         s.address \in Addrs, NEW dst \in Addrs
  PROVE  \/ GetEntry(s, dst) = IP_BROADCAST
         \/ \E e \in s.table : ~e.macFailed /\ e.nextHopId = GetEntry(s, dst)
<1> DEFINE L == LevelsWithin(s, dst, ADDR_SIZE - 1)
<1> SUFFICES ASSUME dst # s.address, L # {}
             PROVE  \E e \in s.table : ~e.macFailed /\ e.nextHopId = GetEntry(s, dst)
  BY DEF GetEntry
<1>1. L \in SUBSET Nat
  <2>1. DiffBit(s.address, dst) \in Nat
    BY DiffBitAt DEF Bits
  <2> QED BY <2>1, AddrSizeAssumption DEF LevelsWithin
<1>2. Min(L) \in L
  <2> HIDE DEF L
  <2> QED BY <1>1, LeastNatural DEF Min
<1> DEFINE E == Usable(s, Min(L))
<1>3. E # {} /\ E \subseteq s.table /\ \A e \in E : ~e.macFailed /\ e.level = Min(L)
  BY <1>2 DEF LevelsWithin, Usable
<1>4. \A e, f \in E : e.nextHopAdd = f.nextHopAdd => e = f
  BY <1>3 DEF OneEntryPerAddress
<1>5. Best(E, dst) \in E
  <2> HIDE DEF E
  <2> QED BY <1>3, <1>4, BestIsBest
<1>6. GetEntry(s, dst) = Best(E, dst).nextHopId
  BY DEF GetEntry
<1> QED BY <1>3, <1>5, <1>6

(***************************************************************************)
(* The invariant of a node, of which n - 1 data packets have been at.      *)
(***************************************************************************)
NodeType(s) ==
  /\ DOMAIN s = {"id", "now", "address", "dht", "queue", "pkt", "table", "out"}
  /\ s.id \in Ids /\ s.now \in Nat /\ s.address \in Addrs
  /\ DOMAIN s.dht \subseteq Ids /\ s.dht \in [DOMAIN s.dht -> DHT_Entry]
  /\ s.queue \subseteq Uids
  /\ s.pkt \in [Uids -> Header]
  /\ s.table \subseteq RoutingEntry

\* A packet that waits is one of the node's own, as format left it.
Fresh(s, p) ==
  /\ p.src = s.id /\ p.dst # s.id
  /\ p.forId = 0 /\ p.forAdd = ZeroAdd
  /\ p.txCount = 0 /\ ~p.up

QueueInv(s) ==
  /\ s.queue = {u \in Uids : s.pkt[u].fate = "queued"}
  /\ Cardinality(s.queue) <= ASPU_QUEUE_LEN
  /\ \A u \in s.queue : Fresh(s, s.pkt[u]) /\ s.pkt[u].dst \notin DOMAIN s.dht

NodeInv(s, n) ==
  /\ NodeType(s)
  /\ OneEntryPerAddress(s.table)
  /\ QueueInv(s)
  /\ \A u \in Uids : s.pkt[u].fate = "mac" => s.pkt[u].dstAdd \in Addrs
  /\ \A u \in Uids : s.pkt[u].fate = "unborn" <=> u >= n

\* A handler preserves the invariant, and runs at one node at one time.
Kept(s, t, n) == NodeInv(t, n) /\ t.id = s.id /\ t.now = s.now

\* What no call of addEntry changes.
SameNode(s, t) ==
  t.id = s.id /\ t.now = s.now /\ t.address = s.address /\ t.table = s.table

\* The end of forward leaves a header, of a packet sent or disposed of.
LEMMA RoutedType ==
  ASSUME NEW s, s.table \subseteq RoutingEntry, OneEntryPerAddress(s.table),
         s.id \in Ids, s.address \in Addrs,
         NEW p \in Header, p.dstAdd \in Addrs
  PROVE  /\ Routed(s, p) \in Header
         /\ Routed(s, p).fate \notin {"queued", "unborn"}
         /\ Routed(s, p).dstAdd \in Addrs
<1>1. GetEntry(s, p.dstAdd) \in Ids \cup {IP_BROADCAST}
  <2>1. \A e \in s.table : e.nextHopId \in Ids
    BY DEF RoutingEntry
  <2> QED BY <2>1, GetEntryAnswers
<1>2. CASE p.dstAdd = s.address
  BY <1>2 DEF Routed, Header, Gone
<1>3. CASE p.dstAdd # s.address /\ GetEntry(s, p.dstAdd) = IP_BROADCAST
  BY <1>3 DEF Routed, Header, Gone
<1>4. CASE p.dstAdd # s.address /\ GetEntry(s, p.dstAdd) # IP_BROADCAST
  BY <1>1, <1>4 DEF Routed, Header, Held
<1> QED BY <1>2, <1>3, <1>4

\* The address that every node starts with is an address.
LEMMA ZeroAddType == ZeroAdd \in Addrs
BY DEF ZeroAdd, Addrs

\* Any set of packets is finite: the queue has a size and an oldest packet.
LEMMA QueueFinite ==
  ASSUME NEW Q \in SUBSET Uids
  PROVE  /\ IsFiniteSet(Q) /\ Cardinality(Q) \in Nat
         /\ \A R \in SUBSET Q : Cardinality(R) <= Cardinality(Q)
<1>1. IsFiniteSet(Uids)
  BY NodeAssumption, FS_Interval DEF Uids
<1>2. IsFiniteSet(Q)
  BY <1>1, FS_Subset
<1> QED BY <1>2, FS_Subset, FS_CardinalityType

\* deque and removeHead, which take the oldest packet, find one.
LEMMA MinOfUids ==
  ASSUME NEW Q \in SUBSET Uids, Q # {}
  PROVE  Min(Q) \in Q
<1>1. Q \in SUBSET Nat
  BY DEF Uids
<1> QED BY <1>1, LeastNatural DEF Min

(***************************************************************************)
(* The queue in order.                                                     *)
(***************************************************************************)
\* Among n packets there is an i-th oldest for every i up to n.
LEMMA RankExists ==
  ASSUME NEW T \in SUBSET Uids, NEW i \in 1 .. Cardinality(T)
  PROVE  \E u \in T : Cardinality({v \in T : v <= u}) = i
<1> DEFINE n == Cardinality(T)
           Upto(u) == {v \in T : v <= u}
           W == {k \in 1 .. n : \A u \in T : Cardinality(Upto(u)) # k}
<1> SUFFICES W = {}
  OBVIOUS
<1>1. IsFiniteSet(T) /\ n \in Nat /\ T \in SUBSET Nat
  BY QueueFinite DEF Uids
<1> HIDE DEF n
<1> SUFFICES ASSUME W # {} PROVE FALSE
  OBVIOUS
<1>2. PICK k \in W : \A j \in W : k <= j
  <2>1. W \in SUBSET Nat
    OBVIOUS
  <2> HIDE DEF W
  <2> QED BY <2>1, LeastNatural
<1>3. \E A \in SUBSET T : Cardinality(A) = k - 1 /\ \A v \in A, w \in T \ A : v < w
  <2>1. CASE k = 1
    <3>1. Cardinality({}) = 0
      BY FS_EmptySet
    <3> QED BY <2>1, <3>1
  <2>2. CASE k # 1
    <3>1. k - 1 \in 1 .. n /\ k - 1 \notin W
      BY <1>1, <1>2, <2>2
    <3>2. PICK u \in T : Cardinality(Upto(u)) = k - 1
      BY <3>1
    <3>3. \A v \in Upto(u), w \in T \ Upto(u) : v < w
      BY <1>1
    <3> QED BY <3>2, <3>3
  <2> QED BY <2>1, <2>2
<1>4. PICK A \in SUBSET T : Cardinality(A) = k - 1 /\ \A v \in A, w \in T \ A : v < w
  BY <1>3
<1>5. T \ A # {}
  <2> SUFFICES ASSUME T \ A = {} PROVE FALSE
    OBVIOUS
  <2>1. A = T
    OBVIOUS
  <2> QED BY <1>1, <1>2, <1>4, <2>1 DEF n
<1>6. PICK w \in T \ A : \A v \in T \ A : w <= v
  <2>1. (T \ A) \in SUBSET Nat
    BY <1>1
  <2> QED BY <1>5, <2>1, LeastNatural
<1>7. Upto(w) = A \cup {w}
  <2>1. ASSUME NEW v \in T PROVE v <= w <=> v \in A \/ v = w
    <3>1. v \in Nat /\ w \in Nat /\ w \in T \ A
      BY <1>1, <1>6
    <3>2. CASE v \in A
      BY <1>4, <3>1, <3>2
    <3>3. CASE v \notin A
      <4>1. w <= v
        BY <1>6, <3>3
      <4> QED BY <3>1, <3>3, <4>1
    <3> QED BY <3>2, <3>3
  <2> QED BY <2>1, <1>6
<1>8. Cardinality(A \cup {w}) = k
  <2>1. IsFiniteSet(A)
    BY <1>1, FS_Subset
  <2>2. Cardinality(A \cup {w}) = Cardinality(A) + 1
    BY <1>6, <2>1, FS_AddElement
  <2> QED BY <1>2, <1>4, <2>2
<1> QED BY <1>2, <1>7, <1>8

\* The packets of a set, oldest first.
LEMMA OldestFirstSorts ==
  ASSUME NEW T \in SUBSET Uids
  PROVE  LET q == OldestFirst(T)
         IN /\ q \in Seq(T)
            /\ \A i, j \in DOMAIN q : i < j => q[i] < q[j]
<1> DEFINE q == OldestFirst(T)
           Upto(u) == {v \in T : v <= u}
<1>1. IsFiniteSet(T) /\ Cardinality(T) \in Nat /\ T \in SUBSET Nat
  BY QueueFinite DEF Uids
<1>2. DOMAIN q = 1 .. Cardinality(T)
  BY DEF OldestFirst
<1>3. ASSUME NEW i \in DOMAIN q PROVE q[i] \in T /\ Cardinality(Upto(q[i])) = i
  <2>1. \E u \in T : Cardinality({v \in T : v <= u}) = i
    BY <1>2, RankExists
  <2>2. q[i] = CHOOSE u \in T : Cardinality({v \in T : v <= u}) = i
    BY <1>2 DEF OldestFirst
  <2> HIDE DEF q
  <2> QED BY <2>1, <2>2
<1>4. q \in [1 .. Cardinality(T) -> T]
  <2>1. q = [i \in 1 .. Cardinality(T) |-> q[i]]
    BY DEF OldestFirst
  <2> HIDE DEF q
  <2> QED BY <1>2, <1>3, <2>1
<1> HIDE DEF q
<1>5. q \in Seq(T)
  <2> DEFINE n == Cardinality(T)
  <2>1. n \in Nat /\ q \in [1 .. n -> T]
    BY <1>1, <1>4
  <2> HIDE DEF n
  <2> QED BY <2>1
<1>6. ASSUME NEW i \in DOMAIN q, NEW j \in DOMAIN q, i < j PROVE q[i] < q[j]
  <2>0. q[i] \in Nat /\ q[j] \in Nat
    <3>1. q[i] \in T /\ q[j] \in T
      BY <1>3
    <3> QED BY <1>1, <3>1
  <2> SUFFICES ASSUME q[j] <= q[i] PROVE FALSE
    BY <2>0
  <2>1. Upto(q[j]) \subseteq Upto(q[i])
    <3>1. \A v \in T : v \in Nat
      BY <1>1
    <3> QED BY <2>0, <3>1
  <2>2. IsFiniteSet(Upto(q[i]))
    BY <1>1, FS_Subset
  <2>3. Cardinality(Upto(q[j])) <= Cardinality(Upto(q[i]))
    BY <2>1, <2>2, FS_Subset
  <2> QED BY <1>2, <1>3, <1>6, <2>3
<1> QED BY <1>5, <1>6 DEF q

\* The packets of a set, newest first.
LEMMA NewestFirstSorts ==
  ASSUME NEW T \in SUBSET Uids
  PROVE  LET q == NewestFirst(T)
         IN /\ q \in Seq(T)
            /\ \A i, j \in DOMAIN q : i < j => q[i] > q[j]
<1> DEFINE o == OldestFirst(T)
           q == NewestFirst(T)
<1>1. o \in Seq(T) /\ \A i, j \in DOMAIN o : i < j => o[i] < o[j]
  BY OldestFirstSorts
<1>2. q = [i \in 1 .. Len(o) |-> o[(Len(o) - i) + 1]]
  BY DEF NewestFirst, Reverse
<1> HIDE DEF o, q
<1>3. \A i \in 1 .. Len(o) : (Len(o) - i) + 1 \in 1 .. Len(o) /\ o[(Len(o) - i) + 1] \in T
  BY <1>1
<1>4. q \in Seq(T) /\ DOMAIN q = 1 .. Len(o)
  <2>1. Len(o) \in Nat /\ q \in [1 .. Len(o) -> T]
    BY <1>1, <1>2, <1>3
  <2> QED BY <2>1
<1>5. ASSUME NEW i \in DOMAIN q, NEW j \in DOMAIN q, i < j PROVE q[i] > q[j]
  <2>1. (Len(o) - j) + 1 < (Len(o) - i) + 1
    BY <1>1, <1>4, <1>5
  <2>2. o[(Len(o) - j) + 1] < o[(Len(o) - i) + 1]
    BY <1>1, <1>3, <1>4, <2>1
  <2>3. q[i] \in Nat /\ q[j] \in Nat
    <3>1. /\ q[i] = o[(Len(o) - i) + 1] /\ q[j] = o[(Len(o) - j) + 1]
          /\ i \in 1 .. Len(o) /\ j \in 1 .. Len(o)
      BY <1>2, <1>4
    <3>2. q[i] \in T
      BY <1>3, <3>1
    <3>3. q[j] \in T
      BY <1>3, <3>1
    <3>4. \A u \in T : u \in Nat
      BY DEF Uids
    <3> QED BY <3>2, <3>3, <3>4
  <2>4. q[i] = o[(Len(o) - i) + 1] /\ q[j] = o[(Len(o) - j) + 1]
    BY <1>2, <1>4
  <2> QED BY <2>2, <2>3, <2>4
<1> QED BY <1>4, <1>5 DEF q

(***************************************************************************)
(* Sequences of messages.                                                  *)
(***************************************************************************)
Sequence(q) == \E T : q \in Seq(T)

\* What one knows of two sequences put together.
LEMMA Together ==
  ASSUME NEW p, NEW q, Sequence(p), Sequence(q)
  PROVE  /\ Sequence(p \o q) /\ Len(p) \in Nat /\ Len(q) \in Nat
         /\ DOMAIN p = 1 .. Len(p) /\ DOMAIN q = 1 .. Len(q)
         /\ DOMAIN (p \o q) = 1 .. (Len(p) + Len(q))
         /\ \A i \in 1 .. Len(p) : (p \o q)[i] = p[i]
         /\ \A i \in (Len(p) + 1) .. (Len(p) + Len(q)) :
              (p \o q)[i] = q[i - Len(p)] /\ i - Len(p) \in 1 .. Len(q)
         /\ << >> \o q = q /\ p \o << >> = p
<1>1. PICK A, B : p \in Seq(A) /\ q \in Seq(B)
  BY DEF Sequence
<1> DEFINE T == A \cup B
<1>2. p \in Seq(T) /\ q \in Seq(T)
  BY <1>1
<1> HIDE DEF T
<1>3. p \o q \in Seq(T)
  BY <1>2
<1>4. << >> \o q = q /\ p \o << >> = p
  BY <1>2
<1> QED BY <1>2, <1>3, <1>4 DEF Sequence

\* What the loop of addEntry sends, newest first.
LEMMA SentOfSends ==
  ASSUME NEW P \in SUBSET Uids, NEW pkts
  PROVE  LET q == SentOf(P, pkts)
         IN /\ Sequence(q)
            /\ \A i \in DOMAIN q :
                 /\ q[i].type = "DATA" /\ q[i].uid \in P /\ pkts[q[i].uid].fate = "mac"
                 /\ q[i].to = pkts[q[i].uid].nextHop
            /\ \A i, j \in DOMAIN q : i < j => q[i].uid > q[j].uid
<1> DEFINE M == {u \in P : pkts[u].fate = "mac"}
           o == NewestFirst(M)
           q == SentOf(P, pkts)
<1>1. o \in Seq(M) /\ \A i, j \in DOMAIN o : i < j => o[i] > o[j]
  BY NewestFirstSorts
<1>2. q = [i \in DOMAIN o |-> Data(o[i], pkts[o[i]])]
  BY DEF SentOf
<1> HIDE DEF o, q
<1>3. \A i \in DOMAIN o : o[i] \in M
  BY <1>1
<1>4. \A i \in DOMAIN q : /\ q[i].type = "DATA" /\ q[i].uid = o[i]
                          /\ q[i].to = pkts[o[i]].nextHop
  BY <1>2 DEF Data
<1>5. Sequence(q)
  <2> DEFINE T == {Data(o[i], pkts[o[i]]) : i \in DOMAIN o}
  <2>1. q \in [DOMAIN o -> T]
    BY <1>2
  <2>2. Len(o) \in Nat /\ DOMAIN o = 1 .. Len(o)
    BY <1>1
  <2> HIDE DEF T
  <2>3. q \in Seq(T)
    BY <2>1, <2>2
  <2> QED BY <2>3 DEF Sequence
<1>6. DOMAIN q = DOMAIN o
  BY <1>2
<1> QED BY <1>1, <1>3, <1>4, <1>5, <1>6 DEF q

(***************************************************************************)
(* ADP::addEntry.                                                          *)
(***************************************************************************)
\* addEntry, with all it sets off, preserves the invariant: it writes entries,
\* and takes out of the queue every packet for an identifier it writes.
LEMMA AddEntryUntilInv ==
  ASSUME NEW s, NEW n, NodeInv(s, n),
         NEW id \in Ids, NEW address \in Addrs, NEW expire \in Nat
  PROVE  LET t == AddEntryUntil(s, id, address, expire)
         IN /\ NodeInv(t, n) /\ SameNode(s, t)
            /\ id \in DOMAIN t.dht /\ DOMAIN s.dht \subseteq DOMAIN t.dht
            /\ \A u \in Uids \ s.queue : t.pkt[u] = s.pkt[u]
            /\ t.queue \subseteq s.queue
<1> DEFINE t == AddEntryUntil(s, id, address, expire)
           mine == Waiting(s, id)
           zero == ForZero(s, id)
           fresh == s.now + ASPU_DHT_ENTRY_TIMEOUT
           last == IF zero # {} /\ mine = {Min(mine)} THEN Min(zero) ELSE Min(mine)
           pkts == [u \in Uids |->
                     IF u \in mine THEN Routed(s, [s.pkt[u] EXCEPT !.dstAdd = address])
                     ELSE IF u \in zero THEN Routed(s, [s.pkt[u] EXCEPT !.dstAdd = ZeroAdd])
                     ELSE s.pkt[u]]
           own == s.pkt[last].srcAdd
           dht == DHTAddEntry(DHTAddEntry(DHTAddEntry(s.dht, id, address, fresh),
                                          s.id, own, fresh), 0, ZeroAdd, fresh)
<1>1. /\ mine \subseteq s.queue /\ zero \subseteq s.queue
      /\ \A u \in s.queue : u \in mine <=> s.pkt[u].dst = id
      /\ \A u \in s.queue : u \in mine \cup zero <=> s.pkt[u].dst \in {id, 0}
  BY DEF Waiting, ForZero
<1>2. CASE mine = {}
  <2>1. t = [s EXCEPT !.dht = DHTAddEntry(@, id, address, expire)]
    BY <1>2 DEF AddEntryUntil
  <2>2. /\ DOMAIN t = DOMAIN s /\ t.queue = s.queue /\ t.pkt = s.pkt /\ SameNode(s, t)
        /\ t.dht = DHTAddEntry(s.dht, id, address, expire)
    BY <2>1 DEF NodeInv, NodeType, SameNode
  <2>3. DOMAIN t.dht = DOMAIN s.dht \cup {id} /\ t.dht \in [DOMAIN t.dht -> DHT_Entry]
    BY <2>2 DEF DHTAddEntry, DHT_Entry, NodeInv, NodeType
  <2>4. \A u \in s.queue : s.pkt[u].dst \notin DOMAIN t.dht
    BY <2>3, <1>1, <1>2 DEF NodeInv, QueueInv
  <2>5. NodeInv(t, n)
    BY <2>2, <2>3, <2>4 DEF NodeInv, NodeType, QueueInv, Fresh, SameNode
  <2> QED BY <2>2, <2>3, <2>5
<1>3. CASE mine # {}
  <2>1. /\ DOMAIN t = DOMAIN s /\ SameNode(s, t)
        /\ t.queue = s.queue \ (mine \cup zero) /\ t.pkt = pkts /\ t.dht = dht
    BY <1>3 DEF AddEntryUntil, NodeInv, NodeType, SameNode
  <2>2. last \in s.queue
    BY <1>1, <1>3, MinOfUids DEF NodeInv, NodeType
  <2>3. own \in Addrs /\ fresh \in Nat /\ 0 \in Ids /\ s.id \in Ids
    BY <2>2, NodeAssumption DEF NodeInv, NodeType, Header
  <2>4. DOMAIN dht = DOMAIN s.dht \cup {id, s.id, 0} /\ dht \in [DOMAIN dht -> DHT_Entry]
    BY <2>3, ZeroAddType DEF DHTAddEntry, DHT_Entry, NodeInv, NodeType
  <2>5. ASSUME NEW u \in Uids
        PROVE  /\ pkts[u] \in Header
               /\ u \in mine \cup zero =>
                     pkts[u].fate \notin {"queued", "unborn"} /\ pkts[u].dstAdd \in Addrs
               /\ u \notin mine \cup zero => pkts[u] = s.pkt[u]
    <3>1. s.pkt[u] \in Header
      BY DEF NodeInv, NodeType
    <3>2. ASSUME NEW a \in Addrs
          PROVE  LET r == Routed(s, [s.pkt[u] EXCEPT !.dstAdd = a])
                 IN r \in Header /\ r.fate \notin {"queued", "unborn"} /\ r.dstAdd \in Addrs
      <4>1. /\ [s.pkt[u] EXCEPT !.dstAdd = a] \in Header
            /\ [s.pkt[u] EXCEPT !.dstAdd = a].dstAdd = a
        BY <3>1 DEF Header
      <4> QED BY <4>1, RoutedType DEF NodeInv, NodeType
    <3> QED BY <3>1, <3>2, ZeroAddType
  <2>6. NodeType(t)
    BY <2>1, <2>4, <2>5, <2>3 DEF NodeInv, NodeType, SameNode
  <2>7. QueueInv(t)
    <3>1. t.queue = {u \in Uids : t.pkt[u].fate = "queued"}
      BY <2>1, <2>5, <1>1 DEF NodeInv, QueueInv
    <3>2. Cardinality(t.queue) <= ASPU_QUEUE_LEN
      <4>1. /\ Cardinality(s.queue) \in Nat /\ Cardinality(t.queue) \in Nat
            /\ Cardinality(t.queue) <= Cardinality(s.queue)
        BY <2>1, QueueFinite DEF NodeInv, NodeType
      <4> QED BY <4>1, NodeAssumption DEF NodeInv, QueueInv
    <3>3. ASSUME NEW u \in t.queue
          PROVE  Fresh(t, t.pkt[u]) /\ t.pkt[u].dst \notin DOMAIN t.dht
      <4>1. u \in s.queue /\ u \in Uids /\ t.pkt[u] = s.pkt[u] /\ s.pkt[u].dst \notin {id, 0}
        BY <2>1, <2>5, <1>1 DEF NodeInv, NodeType
      <4>2. Fresh(s, s.pkt[u]) /\ s.pkt[u].dst \notin DOMAIN s.dht
        BY <4>1 DEF NodeInv, QueueInv
      <4> QED BY <4>1, <4>2, <2>1, <2>4 DEF Fresh, SameNode
    <3> QED BY <3>1, <3>2, <3>3 DEF QueueInv
  <2>8. NodeInv(t, n)
    <3>1. OneEntryPerAddress(t.table)
      BY <2>1 DEF NodeInv, SameNode
    <3>2. ASSUME NEW u \in Uids
          PROVE  /\ t.pkt[u].fate = "mac" => t.pkt[u].dstAdd \in Addrs
                 /\ t.pkt[u].fate = "unborn" <=> u >= n
      <4>1. CASE u \in mine \cup zero
        <5>1. s.pkt[u].fate = "queued"
          BY <4>1, <1>1 DEF NodeInv, QueueInv
        <5> QED BY <4>1, <5>1, <2>1, <2>5 DEF NodeInv
      <4>2. CASE u \notin mine \cup zero
        BY <4>2, <2>1, <2>5 DEF NodeInv
      <4> QED BY <4>1, <4>2
    <3> QED BY <2>6, <2>7, <3>1, <3>2 DEF NodeInv
  <2>9. \A u \in Uids \ s.queue : t.pkt[u] = s.pkt[u]
    BY <2>1, <1>1
  <2> QED BY <2>1, <2>4, <2>8, <2>9
<1> QED BY <1>2, <1>3

\* What a chain of calls of addEntry leaves.
Learnt(s, t, n) ==
  /\ NodeInv(t, n) /\ SameNode(s, t)
  /\ DOMAIN s.dht \subseteq DOMAIN t.dht
  /\ \A u \in Uids \ s.queue : t.pkt[u] = s.pkt[u]
  /\ t.queue \subseteq s.queue

\* addEntry never shrinks the cache, and touches no packet outside the queue.
LEMMA AddEntryLearns ==
  ASSUME NEW s, NEW n, NodeInv(s, n), NEW id \in Ids, NEW address \in Addrs
  PROVE  Learnt(s, AddEntry(s, id, address), n)
<1>1. s.now + ASPU_DHT_ENTRY_TIMEOUT \in Nat
  BY NodeAssumption DEF NodeInv, NodeType
<1> QED BY <1>1, AddEntryUntilInv DEF AddEntry, Learnt

\* Nor do two calls, one after the other.
LEMMA LearntTransitive ==
  ASSUME NEW r, NEW s, NEW t, NEW n, Learnt(r, s, n), Learnt(s, t, n)
  PROVE  Learnt(r, t, n)
BY DEF Learnt, SameNode

\* Such calls keep the invariant of the node.
LEMMA LearntKept ==
  ASSUME NEW s, NEW t, NEW n, Learnt(s, t, n)
  PROVE  Kept(s, t, n)
BY DEF Learnt, Kept, SameNode

\* Two calls that each keep the invariant of the node keep it together.
LEMMA KeptTransitive ==
  ASSUME NEW r, NEW s, NEW t, NEW n, Kept(r, s, n), Kept(s, t, n)
  PROVE  Kept(r, t, n)
BY DEF Kept

\* The two calls of addEntry with which a control message is read.
LEMMA LearnSenderLearns ==
  ASSUME NEW s, NEW n, NodeInv(s, n), NEW m,
         m.src \in Ids, m.srcAdd \in Addrs, m.forId \in Ids, m.forAdd \in Addrs
  PROVE  Learnt(s, LearnSender(s, m), n)
<1>1. Learnt(s, AddEntry(s, m.src, m.srcAdd), n)
  BY AddEntryLearns
<1>2. Learnt(AddEntry(s, m.src, m.srcAdd), LearnSender(s, m), n)
  BY <1>1, AddEntryLearns DEF LearnSender, Learnt
<1> QED BY <1>1, <1>2, LearntTransitive

\* The three calls of addEntry with which forward reads a header.
LEMMA LearnHeaderLearns ==
  ASSUME NEW s, NEW n, NodeInv(s, n), NEW p \in Header, p.dst \in Ids, p.dstAdd \in Addrs
  PROVE  Learnt(s, LearnHeader(s, p), n)
<1> DEFINE r == AddEntry(s, p.dst, p.dstAdd)
           q == AddEntry(r, p.src, p.srcAdd)
           t == AddEntry(q, p.forId, p.forAdd)
<1>1. /\ p.src \in Ids /\ p.srcAdd \in Addrs
      /\ p.forId \in Ids /\ p.forAdd \in Addrs
  BY DEF Header
<1>2. Learnt(s, r, n)
  BY AddEntryLearns
<1>3. Learnt(r, q, n)
  BY <1>1, <1>2, AddEntryLearns DEF Learnt
<1>4. Learnt(q, t, n)
  BY <1>1, <1>3, AddEntryLearns DEF Learnt
<1>5. Learnt(s, q, n)
  BY <1>2, <1>3, LearntTransitive
<1>6. Learnt(s, t, n)
  BY <1>4, <1>5, LearntTransitive
<1> QED BY <1>6 DEF LearnHeader

\* out is no part of the invariant.
LEMMA OutInv ==
  ASSUME NEW s, NEW n, NodeInv(s, n), NEW o
  PROVE  Kept(s, [s EXCEPT !.out = o], n)
<1> DEFINE t == [s EXCEPT !.out = o]
<1>1. /\ DOMAIN t = DOMAIN s /\ SameNode(s, t)
      /\ t.queue = s.queue /\ t.pkt = s.pkt /\ t.dht = s.dht
  BY DEF NodeInv, NodeType, SameNode
<1> HIDE DEF t
<1>2. NodeInv(t, n)
  BY <1>1 DEF NodeInv, NodeType, QueueInv, Fresh, SameNode
<1> QED BY <1>1, <1>2 DEF t, Kept, SameNode

\* The header of a packet that is not in the queue may change.
LEMMA PutInv ==
  ASSUME NEW s, NEW n \in Nat, NodeInv(s, n), NEW u \in Uids, u \notin s.queue, u < n,
         NEW q \in Header, q.fate \notin {"queued", "unborn"},
         q.fate = "mac" => q.dstAdd \in Addrs
  PROVE  Kept(s, [s EXCEPT !.pkt[u] = q], n)
<1> DEFINE t == [s EXCEPT !.pkt[u] = q]
<1>1. /\ DOMAIN t = DOMAIN s /\ SameNode(s, t)
      /\ t.queue = s.queue /\ t.dht = s.dht /\ t.pkt = [s.pkt EXCEPT ![u] = q]
  BY DEF NodeInv, NodeType, SameNode
<1>2. \A v \in Uids : t.pkt[v] = IF v = u THEN q ELSE s.pkt[v]
  BY <1>1 DEF NodeInv, NodeType
<1>3. NodeType(t) /\ OneEntryPerAddress(t.table)
  BY <1>1 DEF NodeInv, NodeType, SameNode
<1>4. QueueInv(t)
  <2>1. t.queue = {v \in Uids : t.pkt[v].fate = "queued"}
    BY <1>1, <1>2 DEF NodeInv, QueueInv
  <2>2. \A v \in t.queue : t.pkt[v] = s.pkt[v]
    BY <1>1, <1>2 DEF NodeInv, NodeType
  <2>3. Cardinality(t.queue) <= ASPU_QUEUE_LEN
    BY <1>1 DEF NodeInv, QueueInv
  <2>4. \A v \in t.queue : Fresh(t, t.pkt[v]) /\ t.pkt[v].dst \notin DOMAIN t.dht
    <3>1. \A v \in t.queue : Fresh(s, s.pkt[v]) /\ s.pkt[v].dst \notin DOMAIN s.dht
      BY <1>1 DEF NodeInv, QueueInv
    <3> QED BY <1>1, <2>2, <3>1 DEF Fresh, SameNode
  <2> QED BY <2>1, <2>3, <2>4 DEF QueueInv
<1>5. \A v \in Uids : t.pkt[v].fate = "mac" => t.pkt[v].dstAdd \in Addrs
  BY <1>2 DEF NodeInv
<1>6. \A v \in Uids : t.pkt[v].fate = "unborn" <=> v >= n
  BY <1>2 DEF NodeInv, Uids
<1>7. NodeInv(t, n)
  BY <1>3, <1>4, <1>5, <1>6 DEF NodeInv
<1> QED BY <1>1, <1>7 DEF Kept, SameNode

\* A packet arrives, the n-th.
LEMMA ArriveInv ==
  ASSUME NEW s, NEW n \in Uids, NodeInv(s, n),
         NEW q \in Header, q.fate \notin {"queued", "unborn", "mac"}
  PROVE  /\ Kept(s, [s EXCEPT !.pkt[n] = q], n + 1)
         /\ [s EXCEPT !.pkt[n] = q].queue = s.queue /\ n \notin s.queue
         /\ [s EXCEPT !.pkt[n] = q].pkt[n] = q
<1> DEFINE t == [s EXCEPT !.pkt[n] = q]
<1>1. /\ DOMAIN t = DOMAIN s /\ SameNode(s, t)
      /\ t.queue = s.queue /\ t.dht = s.dht /\ t.pkt = [s.pkt EXCEPT ![n] = q]
  BY DEF NodeInv, NodeType, SameNode
<1>2. \A v \in Uids : t.pkt[v] = IF v = n THEN q ELSE s.pkt[v]
  BY <1>1 DEF NodeInv, NodeType
<1>3. n \notin s.queue
  <2>1. s.pkt[n].fate = "unborn"
    BY DEF NodeInv, Uids
  <2> QED BY <2>1 DEF NodeInv, QueueInv
<1> HIDE DEF t
<1>4. NodeType(t) /\ OneEntryPerAddress(t.table)
  BY <1>1 DEF NodeInv, NodeType, SameNode
<1>5. QueueInv(t)
  <2>1. t.queue = {v \in Uids : t.pkt[v].fate = "queued"}
    BY <1>1, <1>2, <1>3 DEF NodeInv, QueueInv
  <2>2. Cardinality(t.queue) <= ASPU_QUEUE_LEN
    BY <1>1 DEF NodeInv, QueueInv
  <2>3. ASSUME NEW v \in t.queue
        PROVE  Fresh(t, t.pkt[v]) /\ t.pkt[v].dst \notin DOMAIN t.dht
    <3>1. v \in s.queue /\ t.pkt[v] = s.pkt[v]
      BY <1>1, <1>2, <1>3 DEF NodeInv, NodeType
    <3>2. Fresh(s, s.pkt[v]) /\ s.pkt[v].dst \notin DOMAIN s.dht
      BY <3>1 DEF NodeInv, QueueInv
    <3> QED BY <3>1, <3>2, <1>1 DEF Fresh, SameNode
  <2> QED BY <2>1, <2>2, <2>3 DEF QueueInv
<1>6. \A v \in Uids : /\ t.pkt[v].fate = "mac" => t.pkt[v].dstAdd \in Addrs
                      /\ t.pkt[v].fate = "unborn" <=> v >= n + 1
  BY <1>2 DEF NodeInv, Uids
<1>7. NodeInv(t, n + 1)
  BY <1>4, <1>5, <1>6 DEF NodeInv
<1> QED BY <1>1, <1>2, <1>3, <1>7 DEF t, Kept, SameNode

(***************************************************************************)
(* ASPU::forward.                                                          *)
(***************************************************************************)
\* forward, of a packet that is not in the queue, keeps the node's invariant.
LEMMA ForwardInv ==
  ASSUME NEW s, NEW n \in Nat, NodeInv(s, n), NEW u \in Uids, u \notin s.queue, u < n,
         s.pkt[u].dstAdd \in Addrs
  PROVE  Kept(s, Forward(s, u), n)
<1> DEFINE p == s.pkt[u]
           learnt == LearnHeader(s, p)
           routed == Routed(learnt, p)
<1>1. p \in Header
  BY DEF NodeInv, NodeType
<1>2. CASE p.up /\ p.dst \in {s.id, IP_BROADCAST}
  <2>1. [p EXCEPT !.fate = "dmux"] \in Header /\ [p EXCEPT !.fate = "dmux"].fate = "dmux"
    BY <1>1 DEF Header, Gone
  <2>2. Kept(s, [s EXCEPT !.pkt[u] = [p EXCEPT !.fate = "dmux"]], n)
    BY <2>1, PutInv
  <2> QED BY <1>2, <2>2 DEF Forward
<1>3. CASE ~(p.up /\ p.dst \in {s.id, IP_BROADCAST}) /\ p.dst = IP_BROADCAST
  <2> DEFINE q == [p EXCEPT !.up = FALSE, !.fate = "DROP_IP_BROADCAST"]
  <2>1. q \in Header /\ q.fate = "DROP_IP_BROADCAST"
    BY <1>1 DEF Header, Gone
  <2>2. Kept(s, [s EXCEPT !.pkt[u] = q], n)
    BY <2>1, PutInv
  <2> QED BY <1>3, <2>2 DEF Forward
<1>4. CASE ~(p.up /\ p.dst \in {s.id, IP_BROADCAST}) /\ p.dst # IP_BROADCAST
  <2>1. p.dst \in Ids
    BY <1>1, <1>4 DEF Header
  <2>2. Learnt(s, learnt, n)
    BY <1>1, <2>1, LearnHeaderLearns
  <2>3. /\ routed \in Header /\ routed.fate \notin {"queued", "unborn"}
        /\ routed.dstAdd \in Addrs
    <3>1. /\ learnt.table \subseteq RoutingEntry /\ OneEntryPerAddress(learnt.table)
          /\ learnt.id \in Ids /\ learnt.address \in Addrs
      BY <2>2 DEF Learnt, NodeInv, NodeType
    <3> HIDE DEF learnt
    <3> QED BY <3>1, <1>1, RoutedType
  <2>4. Kept(s, [learnt EXCEPT !.pkt[u] = routed], n)
    <3>1. Kept(s, learnt, n) /\ NodeInv(learnt, n) /\ u \notin learnt.queue
      BY <2>2, LearntKept DEF Learnt
    <3> HIDE DEF learnt
    <3>2. Kept(learnt, [learnt EXCEPT !.pkt[u] = routed], n)
      BY <3>1, <2>3, PutInv
    <3> QED BY <3>1, <3>2, KeptTransitive
  <2>5. Kept(s, Emit([learnt EXCEPT !.pkt[u] = routed], Data(u, routed)), n)
    <3> DEFINE put == [learnt EXCEPT !.pkt[u] = routed]
    <3>1. Kept(s, put, n)
      BY <2>4
    <3> HIDE DEF put
    <3>2. Kept(put, Emit(put, Data(u, routed)), n)
      BY <3>1, OutInv DEF Emit, Kept
    <3>3. Kept(s, Emit(put, Data(u, routed)), n)
      BY <3>1, <3>2, KeptTransitive
    <3> QED BY <3>3 DEF put
  <2> QED BY <1>4, <2>4, <2>5 DEF Forward
<1> QED BY <1>2, <1>3, <1>4

(***************************************************************************)
(* ASPUQueue.                                                              *)
(***************************************************************************)
\* removeHead takes one packet from a queue that is not empty.
LEMMA RemoveHeadInv ==
  ASSUME NEW s, NEW n \in Nat, NodeInv(s, n), s.queue # {}
  PROVE  LET t == RemoveHead(s)
         IN /\ NodeInv(t, n) /\ SameNode(s, t) /\ t.dht = s.dht
            /\ t.queue \subseteq s.queue /\ Cardinality(t.queue) = Cardinality(s.queue) - 1
            /\ \A u \in Uids \ s.queue : t.pkt[u] = s.pkt[u]
<1> DEFINE t == RemoveHead(s)
           head == Min(s.queue)
           why == IF s.pkt[head].ts <= s.now THEN "DROP_RTR_QTIMEOUT" ELSE "DROP_RTR_QFULL"
           q == [s.pkt[head] EXCEPT !.fate = why]
<1>1. head \in s.queue /\ head \in Uids /\ s.queue \in SUBSET Uids
  BY MinOfUids DEF NodeInv, NodeType
<1>2. q \in Header /\ q.fate \notin {"queued", "unborn", "mac"}
  <2>1. s.pkt[head] \in Header
    BY <1>1 DEF NodeInv, NodeType
  <2> QED BY <2>1 DEF Header, Gone
<1>3. /\ DOMAIN t = DOMAIN s /\ SameNode(s, t) /\ t.dht = s.dht
      /\ t.queue = s.queue \ {head} /\ t.pkt = [s.pkt EXCEPT ![head] = q]
  BY DEF RemoveHead, NodeInv, NodeType, SameNode
<1> HIDE DEF t, q, head
<1>4. \A v \in Uids : t.pkt[v] = IF v = head THEN q ELSE s.pkt[v]
  BY <1>1, <1>3 DEF NodeInv, NodeType
<1>5. Cardinality(t.queue) = Cardinality(s.queue) - 1 /\ Cardinality(s.queue) \in Nat
  BY <1>1, <1>3, QueueFinite, FS_RemoveElement
<1>6. NodeType(t) /\ OneEntryPerAddress(t.table)
  BY <1>1, <1>2, <1>3 DEF NodeInv, NodeType, SameNode
<1>7. QueueInv(t)
  <2>1. t.queue = {v \in Uids : t.pkt[v].fate = "queued"}
    BY <1>1, <1>2, <1>3, <1>4 DEF NodeInv, QueueInv
  <2>2. Cardinality(t.queue) <= ASPU_QUEUE_LEN
    BY <1>5, NodeAssumption DEF NodeInv, QueueInv
  <2>3. ASSUME NEW v \in t.queue
        PROVE  Fresh(t, t.pkt[v]) /\ t.pkt[v].dst \notin DOMAIN t.dht
    <3>1. v \in s.queue /\ t.pkt[v] = s.pkt[v]
      BY <1>1, <1>3, <1>4
    <3>2. Fresh(s, s.pkt[v]) /\ s.pkt[v].dst \notin DOMAIN s.dht
      BY <3>1 DEF NodeInv, QueueInv
    <3> QED BY <3>1, <3>2, <1>3 DEF Fresh, SameNode
  <2> QED BY <2>1, <2>2, <2>3 DEF QueueInv
<1>8. \A v \in Uids : /\ t.pkt[v].fate = "mac" => t.pkt[v].dstAdd \in Addrs
                      /\ t.pkt[v].fate = "unborn" <=> v >= n
  <2>1. s.pkt[head].fate = "queued"
    BY <1>1 DEF NodeInv, QueueInv
  <2> QED BY <2>1, <1>2, <1>4 DEF NodeInv
<1>9. NodeInv(t, n)
  BY <1>6, <1>7, <1>8 DEF NodeInv
<1> QED BY <1>1, <1>3, <1>4, <1>5, <1>9 DEF t

\* enque, of a packet that format has just written.
LEMMA EnqueInv ==
  ASSUME NEW s, NEW n \in Nat, NodeInv(s, n), NEW u \in Uids, u \notin s.queue, u < n,
         Fresh(s, s.pkt[u]), s.pkt[u].dst \notin DOMAIN s.dht,
         s.pkt[u].fate \notin {"mac", "unborn"}
  PROVE  Kept(s, Enque(s, u), n)
<1> DEFINE r == IF Cardinality(s.queue) >= ASPU_QUEUE_LEN THEN RemoveHead(s) ELSE s
           q == [s.pkt[u] EXCEPT !.fate = "queued",
                                 !.ts = s.now + ASPU_QUEUE_TIMEOUT,
                                 !.lifetime = s.now + ADP_DARQ_TIMEOUT]
           t == Enque(s, u)
<1>1. s.queue \in SUBSET Uids /\ Cardinality(s.queue) \in Nat
  BY QueueFinite DEF NodeInv, NodeType
<1>2. /\ NodeInv(r, n) /\ SameNode(s, r) /\ r.dht = s.dht
      /\ r.queue \subseteq s.queue /\ Cardinality(r.queue) + 1 <= ASPU_QUEUE_LEN
      /\ r.pkt[u] = s.pkt[u]
  <2>1. CASE Cardinality(s.queue) >= ASPU_QUEUE_LEN
    <3>1. s.queue # {}
      BY <2>1, FS_EmptySet, NodeAssumption
    <3>2. Cardinality(s.queue) <= ASPU_QUEUE_LEN
      BY DEF NodeInv, QueueInv
    <3> QED BY <2>1, <3>1, <3>2, <1>1, RemoveHeadInv, NodeAssumption
  <2>2. CASE ~(Cardinality(s.queue) >= ASPU_QUEUE_LEN)
    BY <2>2, <1>1, NodeAssumption DEF SameNode
  <2> QED BY <2>1, <2>2
<1>3. /\ DOMAIN t = DOMAIN r /\ SameNode(s, t) /\ t.dht = s.dht
      /\ t.queue = r.queue \cup {u} /\ t.pkt = [r.pkt EXCEPT ![u] = q]
  <2> HIDE DEF r
  <2> QED BY <1>2 DEF Enque, r, NodeInv, NodeType, SameNode
<1> HIDE DEF r, t
<1>4. /\ q \in Header /\ q.fate = "queued" /\ q.dst = s.pkt[u].dst /\ Fresh(s, q)
  <2>1. s.pkt[u] \in Header
    BY DEF NodeInv, NodeType
  <2>2. s.now + ASPU_QUEUE_TIMEOUT \in Nat /\ s.now + ADP_DARQ_TIMEOUT \in Nat
    BY NodeAssumption DEF NodeInv, NodeType
  <2>3. q \in Header
    BY <2>1, <2>2 DEF Header, Held
  <2>4. /\ q.fate = "queued" /\ q.dst = s.pkt[u].dst /\ q.src = s.pkt[u].src
        /\ q.forId = s.pkt[u].forId /\ q.forAdd = s.pkt[u].forAdd
        /\ q.txCount = s.pkt[u].txCount /\ q.up = s.pkt[u].up
    BY <2>1 DEF Header
  <2> QED BY <2>3, <2>4 DEF Fresh
<1> HIDE DEF q
<1>5. \A v \in Uids : t.pkt[v] = IF v = u THEN q ELSE r.pkt[v]
  BY <1>2, <1>3 DEF NodeInv, NodeType
<1>6. NodeType(t) /\ OneEntryPerAddress(t.table)
  BY <1>2, <1>3, <1>4 DEF NodeInv, NodeType, SameNode
<1>7. QueueInv(t)
  <2>1. t.queue = {v \in Uids : t.pkt[v].fate = "queued"}
    <3>1. r.queue = {v \in Uids : r.pkt[v].fate = "queued"}
      BY <1>2 DEF NodeInv, QueueInv
    <3> QED BY <3>1, <1>3, <1>4, <1>5
  <2>2. Cardinality(t.queue) <= ASPU_QUEUE_LEN
    <3>1. r.queue \in SUBSET Uids
      BY <1>2 DEF NodeInv, NodeType
    <3>2. IsFiniteSet(r.queue) /\ Cardinality(r.queue) \in Nat
      BY <3>1, QueueFinite
    <3>3. Cardinality(t.queue) <= Cardinality(r.queue) + 1
      <4>1. u \notin r.queue
        BY <1>2
      <4>2. Cardinality(r.queue \cup {u}) = Cardinality(r.queue) + 1
        BY <3>2, <4>1, FS_AddElement
      <4> QED BY <1>3, <3>2, <4>2
    <3>4. Cardinality(t.queue) \in Nat
      BY <3>1, <1>3, QueueFinite
    <3> QED BY <3>2, <3>3, <3>4, <1>2, NodeAssumption
  <2>3. ASSUME NEW v \in t.queue
        PROVE  Fresh(t, t.pkt[v]) /\ t.pkt[v].dst \notin DOMAIN t.dht
    <3>1. CASE v = u
      BY <3>1, <1>3, <1>4, <1>5 DEF Fresh, SameNode
    <3>2. CASE v # u
      <4>1. v \in r.queue /\ t.pkt[v] = r.pkt[v]
        BY <3>2, <1>2, <1>3, <1>5 DEF NodeInv, NodeType
      <4>2. Fresh(r, r.pkt[v]) /\ r.pkt[v].dst \notin DOMAIN r.dht
        BY <4>1, <1>2 DEF NodeInv, QueueInv
      <4> QED BY <4>1, <4>2, <1>2, <1>3 DEF Fresh, SameNode
    <3> QED BY <3>1, <3>2
  <2> QED BY <2>1, <2>2, <2>3 DEF QueueInv
<1>8. \A v \in Uids : /\ t.pkt[v].fate = "mac" => t.pkt[v].dstAdd \in Addrs
                      /\ t.pkt[v].fate = "unborn" <=> v >= n
  BY <1>2, <1>4, <1>5 DEF NodeInv, Uids
<1>9. NodeInv(t, n)
  BY <1>6, <1>7, <1>8 DEF NodeInv
<1> QED BY <1>3, <1>9 DEF t, Kept, SameNode

\* checkDarq moves deadlines and counts, and leaves the packets where they are.
LEMMA CheckDarqInv ==
  ASSUME NEW s, NEW n, NodeInv(s, n)
  PROVE  Kept(s, CheckDarq(s), n)
<1> DEFINE t == BackedOff(s)
           q(u) == [s.pkt[u] EXCEPT !.lifetime = s.now + s.pkt[u].darqCount * ADP_DARQ_EB_TIMEOUT,
                                    !.darqCount = @ + 1]
<1>1. /\ DOMAIN t = DOMAIN s /\ SameNode(s, t) /\ t.dht = s.dht /\ t.queue = s.queue
      /\ t.pkt = [u \in Uids |-> IF u \in Expired(s) THEN q(u) ELSE s.pkt[u]]
  BY DEF BackedOff, NodeInv, NodeType, SameNode
<1>2. ASSUME NEW u \in Uids
      PROVE  /\ q(u) \in Header /\ q(u).fate = s.pkt[u].fate /\ q(u).dst = s.pkt[u].dst
             /\ q(u).dstAdd = s.pkt[u].dstAdd
             /\ Fresh(s, s.pkt[u]) => Fresh(s, q(u))
  <2>1. s.pkt[u] \in Header /\ s.now \in Nat
    BY DEF NodeInv, NodeType
  <2>2. s.pkt[u].darqCount \in Nat
    BY <2>1 DEF Header
  <2>3. s.pkt[u].darqCount * ADP_DARQ_EB_TIMEOUT \in Nat
    BY <2>2, NodeAssumption
  <2>4. /\ s.now + s.pkt[u].darqCount * ADP_DARQ_EB_TIMEOUT \in Nat
        /\ s.pkt[u].darqCount + 1 \in Nat
    BY <2>1, <2>2, <2>3
  <2>5. q(u) \in Header
    BY <2>1, <2>4 DEF Header
  <2>6. /\ q(u).fate = s.pkt[u].fate /\ q(u).dst = s.pkt[u].dst
        /\ q(u).dstAdd = s.pkt[u].dstAdd /\ q(u).src = s.pkt[u].src
        /\ q(u).forId = s.pkt[u].forId /\ q(u).forAdd = s.pkt[u].forAdd
        /\ q(u).txCount = s.pkt[u].txCount /\ q(u).up = s.pkt[u].up
    BY <2>1 DEF Header
  <2> HIDE DEF q
  <2> QED BY <2>5, <2>6 DEF Fresh
<1>3. ASSUME NEW u \in Uids
      PROVE  /\ t.pkt[u] \in Header /\ t.pkt[u].fate = s.pkt[u].fate
             /\ t.pkt[u].dst = s.pkt[u].dst /\ t.pkt[u].dstAdd = s.pkt[u].dstAdd
             /\ Fresh(s, s.pkt[u]) => Fresh(s, t.pkt[u])
  <2>1. s.pkt[u] \in Header
    BY DEF NodeInv, NodeType
  <2>2. t.pkt[u] = IF u \in Expired(s) THEN q(u) ELSE s.pkt[u]
    BY <1>1
  <2> HIDE DEF t, q
  <2> QED BY <2>1, <2>2, <1>2
<1> HIDE DEF t, q
<1>4. NodeType(t) /\ OneEntryPerAddress(t.table)
  BY <1>1, <1>3 DEF NodeInv, NodeType, SameNode
<1>5. QueueInv(t)
  <2>1. t.queue = {v \in Uids : t.pkt[v].fate = "queued"}
    BY <1>1, <1>3 DEF NodeInv, QueueInv
  <2>2. Cardinality(t.queue) <= ASPU_QUEUE_LEN
    BY <1>1 DEF NodeInv, QueueInv
  <2>3. ASSUME NEW v \in t.queue
        PROVE  Fresh(t, t.pkt[v]) /\ t.pkt[v].dst \notin DOMAIN t.dht
    <3>1. v \in s.queue /\ v \in Uids
      BY <1>1 DEF NodeInv, NodeType
    <3>2. Fresh(s, s.pkt[v]) /\ s.pkt[v].dst \notin DOMAIN s.dht
      BY <3>1 DEF NodeInv, QueueInv
    <3> QED BY <3>1, <3>2, <1>1, <1>3 DEF Fresh, SameNode
  <2> QED BY <2>1, <2>2, <2>3 DEF QueueInv
<1>6. NodeInv(t, n)
  BY <1>3, <1>4, <1>5 DEF NodeInv
<1>7. Kept(s, t, n)
  BY <1>1, <1>6 DEF Kept, SameNode
<1>8. \A o : Kept(t, [t EXCEPT !.out = o], n)
  BY <1>6, OutInv
<1>9. \A o : Kept(s, [t EXCEPT !.out = o], n)
  BY <1>7, <1>8, KeptTransitive
<1> QED BY <1>9 DEF CheckDarq, t

(***************************************************************************)
(* The routing table and the cache replaced.                               *)
(***************************************************************************)
\* updateRoutingTable installs another table.
LEMMA TableInv ==
  ASSUME NEW s, NEW n, NodeInv(s, n), NEW table \in SUBSET RoutingEntry,
         OneEntryPerAddress(table)
  PROVE  Kept(s, [s EXCEPT !.table = table], n)
<1> DEFINE t == [s EXCEPT !.table = table]
<1>1. /\ DOMAIN t = DOMAIN s /\ t.id = s.id /\ t.now = s.now /\ t.address = s.address
      /\ t.table = table /\ t.queue = s.queue /\ t.pkt = s.pkt /\ t.dht = s.dht
  BY DEF NodeInv, NodeType
<1> HIDE DEF t
<1>2. NodeInv(t, n)
  BY <1>1 DEF NodeInv, NodeType, QueueInv, Fresh
<1> QED BY <1>1, <1>2 DEF t, Kept

\* selectAddress replaces the node's address by another one.
LEMMA AddressInv ==
  ASSUME NEW s, NEW n, NodeInv(s, n), NEW a \in Addrs
  PROVE  Kept(s, [s EXCEPT !.address = a], n)
<1> DEFINE t == [s EXCEPT !.address = a]
<1>1. /\ DOMAIN t = DOMAIN s /\ t.id = s.id /\ t.now = s.now /\ t.address = a
      /\ t.table = s.table /\ t.queue = s.queue /\ t.pkt = s.pkt /\ t.dht = s.dht
  BY DEF NodeInv, NodeType
<1> HIDE DEF t
<1>2. NodeInv(t, n)
  BY <1>1 DEF NodeInv, NodeType, QueueInv, Fresh
<1> QED BY <1>1, <1>2 DEF t, Kept

\* purge only takes entries out.
LEMMA PurgeInv ==
  ASSUME NEW s, NEW n, NodeInv(s, n)
  PROVE  Kept(s, [s EXCEPT !.dht = DHTPurged(s.dht, s.now)], n)
<1> DEFINE t == [s EXCEPT !.dht = DHTPurged(s.dht, s.now)]
<1>1. /\ DOMAIN t = DOMAIN s /\ SameNode(s, t)
      /\ t.queue = s.queue /\ t.pkt = s.pkt /\ t.dht = DHTPurged(s.dht, s.now)
  BY DEF NodeInv, NodeType, SameNode
<1>2. DOMAIN t.dht \subseteq DOMAIN s.dht /\ t.dht \in [DOMAIN t.dht -> DHT_Entry]
  BY <1>1 DEF DHTPurged, NodeInv, NodeType
<1> HIDE DEF t
<1>3. NodeInv(t, n)
  BY <1>1, <1>2 DEF NodeInv, NodeType, QueueInv, Fresh, SameNode
<1> QED BY <1>1, <1>3 DEF t, Kept, SameNode

\* RoutingTable::macFailed marks entries; each keeps its level and next hop.
LEMMA TableMacFailedInv ==
  ASSUME NEW s, NEW n, NodeInv(s, n), NEW hop
  PROVE  /\ Kept(s, TableMacFailed(s, hop), n)
         /\ TableMacFailed(s, hop).queue = s.queue
         /\ TableMacFailed(s, hop).pkt = s.pkt
<1> DEFINE mark(e) == IF e.nextHopId = hop THEN [e EXCEPT !.macFailed = TRUE, !.etx = @ + 1]
                                           ELSE e
           table == {mark(e) : e \in s.table}
<1>1. TableMacFailed(s, hop) = [s EXCEPT !.table = table]
  BY DEF TableMacFailed
<1>2. \A e \in s.table : /\ mark(e) \in RoutingEntry
                         /\ mark(e).level = e.level /\ mark(e).nextHopAdd = e.nextHopAdd
  <2> TAKE e \in s.table
  <2>1. e \in RoutingEntry
    BY DEF NodeInv, NodeType
  <2>2. e.etx + 1 \in Nat
    BY <2>1 DEF RoutingEntry
  <2>3. CASE e.nextHopId = hop
    BY <2>1, <2>2, <2>3 DEF RoutingEntry
  <2>4. CASE e.nextHopId # hop
    BY <2>1, <2>4
  <2> QED BY <2>3, <2>4
<1>3. table \in SUBSET RoutingEntry
  BY <1>2
<1>4. OneEntryPerAddress(table)
  <2> SUFFICES ASSUME NEW x \in table, NEW y \in table,
                      x.level = y.level, x.nextHopAdd = y.nextHopAdd
               PROVE  x = y
    BY DEF OneEntryPerAddress
  <2>1. PICK e \in s.table : x = mark(e)
    OBVIOUS
  <2>2. PICK f \in s.table : y = mark(f)
    OBVIOUS
  <2> HIDE DEF mark
  <2>3. e.level = f.level /\ e.nextHopAdd = f.nextHopAdd
    BY <1>2, <2>1, <2>2
  <2>4. e = f
    BY <2>3 DEF NodeInv, OneEntryPerAddress
  <2> QED BY <2>1, <2>2, <2>4
<1>5. Kept(s, [s EXCEPT !.table = table], n)
  <2> HIDE DEF table
  <2> QED BY <1>3, <1>4, TableInv
<1> QED BY <1>1, <1>5 DEF NodeInv, NodeType

(***************************************************************************)
(* Control messages.                                                       *)
(***************************************************************************)
ControlType(m) ==
  /\ m.src \in Ids /\ m.srcAdd \in Addrs
  /\ m.forId \in Ids /\ m.forAdd \in Addrs /\ m.dstAdd \in Addrs

\* sendDarq writes to the interface only.
LEMMA SendDarqInv ==
  ASSUME NEW s, NEW n, NodeInv(s, n), NEW id
  PROVE  Kept(s, SendDarq(s, id), n)
BY OutInv DEF SendDarq

\* A message sent on changes nothing but what the interface was given.
LEMMA RelayInv ==
  ASSUME NEW s, NEW n, NodeInv(s, n), NEW m, NEW hop, NEW dst
  PROVE  Kept(s, Relay(s, m, hop, dst), n)
BY OutInv DEF Relay, Emit

\* recvDarq, whether it answers, relays or drops the request.
LEMMA RecvDarqInv ==
  ASSUME NEW s, NEW n, NodeInv(s, n), NEW m, ControlType(m)
  PROVE  Kept(s, RecvDarq(s, m), n)
<1> DEFINE l == LearnSender(s, m)
<1>1. Kept(s, l, n)
  BY LearnSenderLearns, LearntKept DEF ControlType
<1> HIDE DEF l
<1>2. Kept(l, SendDarp(l, m), n)
  BY <1>1, OutInv DEF SendDarp, Emit, Kept
<1>3. Kept(l, SendOn(l, m), n)
  BY <1>1, RelayInv DEF SendOn, Kept
<1>4. Kept(s, SendDarp(l, m), n) /\ Kept(s, SendOn(l, m), n)
  BY <1>1, <1>2, <1>3, KeptTransitive
<1> QED BY <1>1, <1>4 DEF RecvDarq, l

\* recvDarp, whether the answer is for this node or is relayed.
LEMMA RecvDarpInv ==
  ASSUME NEW s, NEW n, NodeInv(s, n), NEW m, ControlType(m),
         m.dst \in Ids, m.req \in Ids, m.reqAdd \in Addrs
  PROVE  Kept(s, RecvDarp(s, m), n)
<1> DEFINE r == LearnSender(s, m)
           q == AddEntry(r, m.dst, m.dstAdd)
           l == AddEntry(q, m.req, m.reqAdd)
           nextHop == GetEntry(l, m.dstAdd)
<1>1. Kept(s, r, n)
  BY LearnSenderLearns, LearntKept DEF ControlType
<1>2. Kept(r, q, n)
  BY <1>1, AddEntryLearns, LearntKept DEF ControlType, Kept
<1>3. Kept(q, l, n)
  BY <1>2, AddEntryLearns, LearntKept DEF Kept
<1>4. Kept(s, l, n)
  BY <1>1, <1>2, <1>3, KeptTransitive
<1> HIDE DEF l
<1>5. Kept(l, AddEntry(l, m.req, m.reqAdd), n)
  BY <1>4, AddEntryLearns, LearntKept DEF Kept
<1>6. Kept(l, Relay(l, m, nextHop, m.dstAdd), n)
  BY <1>4, RelayInv DEF Kept
<1>7. /\ Kept(s, AddEntry(l, m.req, m.reqAdd), n)
      /\ Kept(s, Relay(l, m, nextHop, m.dstAdd), n)
  BY <1>4, <1>5, <1>6, KeptTransitive
<1> QED BY <1>4, <1>7 DEF RecvDarp, l

\* recvDaup, whether this node stores the entry or sends it on.
LEMMA RecvDaupInv ==
  ASSUME NEW s, NEW n, NodeInv(s, n), NEW m, ControlType(m)
  PROVE  Kept(s, RecvDaup(s, m), n)
<1> DEFINE l == LearnSender(s, m)
<1>1. Kept(s, l, n)
  BY LearnSenderLearns, LearntKept DEF ControlType
<1> HIDE DEF l
<1>2. Kept(l, AddEntry(l, m.src, m.srcAdd), n)
  BY <1>1, AddEntryLearns, LearntKept DEF ControlType, Kept
<1>3. Kept(l, SendOn(l, m), n)
  BY <1>1, RelayInv DEF SendOn, Kept
<1>4. Kept(s, AddEntry(l, m.src, m.srcAdd), n) /\ Kept(s, SendOn(l, m), n)
  BY <1>1, <1>2, <1>3, KeptTransitive
<1> QED BY <1>4 DEF RecvDaup, l

\* updateAdd, after a new address was selected.
LEMMA UpdateAddInv ==
  ASSUME NEW s, NEW n, NodeInv(s, n)
  PROVE  Kept(s, UpdateAdd(s), n)
<1> DEFINE l == AddEntry(s, s.id, s.address)
<1>1. Kept(s, l, n)
  <2>1. s.id \in Ids /\ s.address \in Addrs
    BY DEF NodeInv, NodeType
  <2> QED BY <2>1, AddEntryLearns, LearntKept
<1> HIDE DEF l
<1>2. \A o : Kept(l, [l EXCEPT !.out = o], n)
  BY <1>1, OutInv DEF Kept
<1>3. \A o : Kept(s, [l EXCEPT !.out = o], n)
  BY <1>1, <1>2, KeptTransitive
<1> QED BY <1>3 DEF UpdateAdd, Emit, l
=============================================================================
