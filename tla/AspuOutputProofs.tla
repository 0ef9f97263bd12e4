--------------------------- MODULE AspuOutputProofs ---------------------------
(***************************************************************************)
(* What one event makes an agent give to its interface, for every          *)
(* environment that AgentAssumption admits: which packets, in which order, *)
(* through which neighbours, and what the cache holds of them afterwards.  *)
(***************************************************************************)
EXTENDS AspuCalls, AspuAgentProofs, SequenceTheorems

\* Putting sequences together is associative.
LEMMA TogetherAssociative ==
  ASSUME NEW p, NEW q, NEW r, Sequence(p), Sequence(q), Sequence(r)
  PROVE  (p \o q) \o r = p \o (q \o r)
<1>1. PICK A, B, C : p \in Seq(A) /\ q \in Seq(B) /\ r \in Seq(C)
  BY DEF Sequence
<1> DEFINE T == A \cup B \cup C
<1>2. p \in Seq(T) /\ q \in Seq(T) /\ r \in Seq(T)
  BY <1>1
<1> HIDE DEF T
<1>3. \A x, y, z \in Seq(T) : (x \o y) \o z = x \o (y \o z)
  BY ConcatAssociative
<1> QED BY <1>2, <1>3

(***************************************************************************)
(* Neighbours that work.                                                   *)
(***************************************************************************)
\* The table holds an entry for the neighbour that macFailed has not marked.
Works(t, hop) == \E e \in t : e.nextHopId = hop /\ ~e.macFailed

\* The powers of two, as the sizes of sets of subsets.
LEMMA PowerOfTwo ==
  ASSUME NEW i \in Nat
  PROVE  2^i \in Nat /\ 2^i > 0
<1> DEFINE T == 1 .. i
<1>1. IsFiniteSet(T) /\ Cardinality(T) = i
  BY FS_Interval
<1> HIDE DEF T
<1>2. IsFiniteSet(SUBSET T) /\ Cardinality(SUBSET T) = 2^i
  BY <1>1, FS_SUBSET
<1>3. {} \in SUBSET T
  OBVIOUS
<1>4. Cardinality(SUBSET T) # 0 /\ Cardinality(SUBSET T) \in Nat
  BY <1>2, <1>3, FS_EmptySet, FS_CardinalityType
<1> QED BY <1>2, <1>4

\* hash answers with an address, also for IP_BROADCAST.
LEMMA HashType ==
  ASSUME NEW id \in Int
  PROVE  Hash(id) \in Addrs
<1>1. ToBits(id) \in Addrs
  <2>1. ASSUME NEW i \in Bits PROVE (id \div 2^i) % 2 \in {0, 1}
    <3>1. i \in Nat
      BY AddrSizeAssumption DEF Bits
    <3>2. 2^i \in Nat /\ 2^i > 0
      BY <3>1, PowerOfTwo
    <3>3. id \div 2^i \in Int
      BY <3>2
    <3> QED BY <3>3
  <2> QED BY <2>1 DEF ToBits, Addrs
<1>2. \A i \in Bits : ADDR_SIZE - 1 - i \in Bits
  BY AddrSizeAssumption DEF Bits
<1>3. [i \in Bits |-> ToBits(id)[ADDR_SIZE - 1 - i]] \in Addrs
  BY <1>1, <1>2 DEF Addrs
<1>4. \A a \in Addrs, i \in Bits : Flip(a, i) \in Addrs
  BY DEF Flip, Addrs
<1>5. ADDR_SIZE - 1 \in Bits
  BY AddrSizeAssumption DEF Bits
<1> QED BY <1>3, <1>4, <1>5 DEF Hash, HashBits

\* Clearing bits leaves an address.
LEMMA RedirectType ==
  ASSUME NEW s, NEW dst \in Addrs, NEW bad
  PROVE  Redirect(s, dst, bad) \in Addrs
<1>1. \A k : ResetBelow(dst, k) \in Addrs
  BY DEF ResetBelow, Addrs
<1> QED BY <1>1 DEF Redirect

\* getEntry and DAGetEntry answer with a neighbour that works, or with none.
LEMMA LookupsWork ==
  ASSUME NEW s, s.table \subseteq RoutingEntry, OneEntryPerAddress(s.table),
         s.address \in Addrs, NEW dst \in Addrs
  PROVE  /\ GetEntry(s, dst) # IP_BROADCAST => Works(s.table, GetEntry(s, dst))
         /\ DAGetEntry(s, dst) # IP_BROADCAST => Works(s.table, DAGetEntry(s, dst))
<1>1. GetEntry(s, dst) # IP_BROADCAST => Works(s.table, GetEntry(s, dst))
  BY GetEntryAnswers DEF Works
<1>2. ASSUME DAGetEntry(s, dst) # IP_BROADCAST
      PROVE  Works(s.table, DAGetEntry(s, dst))
  <2> DEFINE E == Usable(s, DiffBit(s.address, dst))
  <2>1. E # {} /\ DAGetEntry(s, dst) = Best(E, dst).nextHopId
    BY <1>2 DEF DAGetEntry
  <2>2. /\ E \subseteq s.table /\ \A e \in E : ~e.macFailed
        /\ \A e, f \in E : e.nextHopAdd = f.nextHopAdd => e = f
    BY DEF Usable, OneEntryPerAddress
  <2> HIDE DEF E
  <2>3. Best(E, dst) \in E
    BY <2>1, <2>2, BestIsBest
  <2> QED BY <2>1, <2>2, <2>3 DEF Works
<1> QED BY <1>1, <1>2

(***************************************************************************)
(* Packets released from the queue.  s is the state in which the event     *)
(* began, t the one that its handler has reached.                          *)
(***************************************************************************)
\* A packet of the queue, given to a neighbour that works; its destination is
\* known, and known for as long as anything the handler learns.
Sent(s, t, m) ==
  /\ m.type = "DATA" /\ m.uid \in s.queue \ t.queue
  /\ Works(t.table, m.to)
  /\ s.pkt[m.uid].dst \in DOMAIN t.dht
  /\ t.dht[s.pkt[m.uid].dst].expire = s.now + ASPU_DHT_ENTRY_TIMEOUT

\* m may be sent before l.
Ordered(s, m, l) ==
  /\ m.uid # l.uid
  /\ s.pkt[m.uid].dst = s.pkt[l.uid].dst => m.uid > l.uid

Batch(s, t, q) ==
  /\ Sequence(q)
  /\ \A i \in DOMAIN q : Sent(s, t, q[i])
  /\ \A i, j \in DOMAIN q : i < j => Ordered(s, q[i], q[j])

\* Two batches make one, if any message of the first may precede any of the second.
LEMMA BatchesTogether ==
  ASSUME NEW s, NEW t, NEW p, NEW q, Batch(s, t, p), Batch(s, t, q),
         \A i \in DOMAIN p, j \in DOMAIN q : Ordered(s, p[i], q[j])
  PROVE  Batch(s, t, p \o q)
<1> DEFINE m == Len(p)
           k == Len(q)
           r == p \o q
<1>1. Sequence(p) /\ Sequence(q)
  BY DEF Batch
<1>2. /\ Sequence(r) /\ m \in Nat /\ k \in Nat
      /\ DOMAIN p = 1 .. m /\ DOMAIN q = 1 .. k
      /\ DOMAIN r = 1 .. (m + k)
      /\ \A i \in 1 .. m : r[i] = p[i]
      /\ \A i \in (m + 1) .. (m + k) : r[i] = q[i - m] /\ i - m \in 1 .. k
  BY <1>1, Together
<1> HIDE DEF m, k, r
<1>3. ASSUME NEW i \in DOMAIN r PROVE Sent(s, t, r[i])
  <2>1. CASE i \in 1 .. m
    BY <1>2, <2>1 DEF Batch
  <2>2. CASE i \in (m + 1) .. (m + k)
    BY <1>2, <2>2 DEF Batch
  <2> QED BY <1>2, <2>1, <2>2
<1>4. ASSUME NEW i \in DOMAIN r, NEW j \in DOMAIN r, i < j PROVE Ordered(s, r[i], r[j])
  <2>1. CASE i \in 1 .. m /\ j \in 1 .. m
    BY <1>2, <1>4, <2>1 DEF Batch
  <2>2. CASE i \in 1 .. m /\ j \in (m + 1) .. (m + k)
    BY <1>2, <2>2
  <2>3. CASE i \in (m + 1) .. (m + k) /\ j \in (m + 1) .. (m + k)
    <3>1. /\ i - m \in DOMAIN q /\ j - m \in DOMAIN q /\ i - m < j - m
          /\ r[i] = q[i - m] /\ r[j] = q[j - m]
      BY <1>2, <1>4, <2>3
    <3> QED BY <3>1 DEF Batch
  <2> QED BY <1>2, <1>4, <2>1, <2>2, <2>3
<1> QED BY <1>2, <1>3, <1>4 DEF Batch, r

\* A packet that the end of forward sends goes to a neighbour that works, and
\* names the node as its forwarder.
LEMMA RoutedWorks ==
  ASSUME NEW s, s.table \subseteq RoutingEntry, OneEntryPerAddress(s.table),
         s.address \in Addrs, NEW p \in Header, p.dstAdd \in Addrs
  PROVE  /\ Routed(s, p).dst = p.dst /\ Routed(s, p).src = p.src
         /\ Routed(s, p).dstAdd = p.dstAdd
         /\ Routed(s, p).fate = "mac" => /\ Works(s.table, Routed(s, p).nextHop)
                                         /\ Routed(s, p).forId = s.id
<1>1. GetEntry(s, p.dstAdd) # IP_BROADCAST => Works(s.table, GetEntry(s, p.dstAdd))
  BY LookupsWork
<1> QED BY <1>1 DEF Routed, Header

\* A packet of the node's own that the interface holds is for another node, and
\* names the node itself as its forwarder.
Own(s, p) == p.fate = "mac" /\ p.src = s.id => p.dst # s.id /\ p.forId = s.id

\* So far the handler has only released packets from the queue.
Releasing(s, t, n) ==
  /\ NodeInv(t, n) /\ t.id = s.id /\ t.now = s.now /\ t.table = s.table
  /\ t.queue \subseteq s.queue /\ s.queue \subseteq Uids
  /\ \A u \in Uids : t.pkt[u].dst = s.pkt[u].dst /\ Own(t, t.pkt[u])
  /\ Batch(s, t, t.out)

\* What AddEntryUntil does to headers: those of packets that it releases are
\* routed, all others are left alone.
LEMMA AddEntryUntilHeaders ==
  ASSUME NEW s, NEW n, NodeInv(s, n),
         NEW id \in Ids, NEW address_ \in Addrs, NEW expire \in Nat,
         \A u \in Uids : Own(s, s.pkt[u])
  PROVE  LET t == AddEntryUntil(s, id, address_, expire)
         IN \A u \in Uids : /\ t.pkt[u].dst = s.pkt[u].dst /\ Own(t, t.pkt[u])
                            /\ u \in s.queue \ t.queue =>
                                 (t.pkt[u].fate = "mac" => Works(t.table, t.pkt[u].nextHop))
<1> DEFINE t == AddEntryUntil(s, id, address_, expire)
           mine == Waiting(s, id)
           zero == ForZero(s, id)
<1> SUFFICES ASSUME NEW u \in Uids
             PROVE  /\ t.pkt[u].dst = s.pkt[u].dst /\ Own(t, t.pkt[u])
                    /\ u \in s.queue \ t.queue => (t.pkt[u].fate = "mac"
                                                     => Works(t.table, t.pkt[u].nextHop))
  OBVIOUS
<1>0. /\ s.table \subseteq RoutingEntry /\ OneEntryPerAddress(s.table) /\ s.address \in Addrs
      /\ s.pkt \in [Uids -> Header] /\ s.queue \subseteq Uids
  BY DEF NodeInv, NodeType
<1>1. t.id = s.id /\ t.table = s.table
  <2>1. SameNode(s, t)
    BY AddEntryUntilInv
  <2> HIDE DEF t
  <2> QED BY <2>1 DEF SameNode
<1>2. CASE mine = {}
  <2>1. t = [s EXCEPT !.dht = DHTAddEntry(@, id, address_, expire)]
    BY <1>2 DEF AddEntryUntil
  <2>2. t.pkt = s.pkt /\ t.queue = s.queue
    BY <2>1 DEF NodeInv, NodeType
  <2> HIDE DEF t
  <2>3. Own(s, s.pkt[u]) /\ u \notin s.queue \ t.queue
    BY <2>2
  <2> QED BY <1>1, <2>2, <2>3 DEF Own
<1>3. CASE mine # {}
  <2> DEFINE pkts == [v \in Uids |->
                        IF v \in mine THEN Routed(s, [s.pkt[v] EXCEPT !.dstAdd = address_])
                        ELSE IF v \in zero THEN Routed(s, [s.pkt[v] EXCEPT !.dstAdd = ZeroAdd])
                        ELSE s.pkt[v]]
  <2>1. t.pkt = pkts /\ t.queue = s.queue \ (mine \cup zero)
    BY <1>3 DEF AddEntryUntil, NodeInv, NodeType
  <2>2. mine \subseteq s.queue /\ zero \subseteq s.queue
    BY DEF Waiting, ForZero
  <2>3. \A v \in s.queue : s.pkt[v].dst # s.id
    BY DEF NodeInv, QueueInv, Fresh
  <2> HIDE DEF t, mine, zero
  <2>4. ASSUME u \in mine \cup zero
        PROVE  /\ t.pkt[u].dst = s.pkt[u].dst /\ Own(t, t.pkt[u])
               /\ t.pkt[u].fate = "mac" => Works(t.table, t.pkt[u].nextHop)
    <3>1. PICK a \in Addrs : t.pkt[u] = Routed(s, [s.pkt[u] EXCEPT !.dstAdd = a])
      BY <2>1, <2>4, ZeroAddType
    <3> DEFINE p == [s.pkt[u] EXCEPT !.dstAdd = a]
    <3>2. p \in Header /\ p.dstAdd = a /\ p.dst = s.pkt[u].dst
      BY <1>0 DEF Header
    <3> HIDE DEF p
    <3>3. /\ Routed(s, p).dst = p.dst
          /\ Routed(s, p).fate = "mac" => /\ Works(s.table, Routed(s, p).nextHop)
                                          /\ Routed(s, p).forId = s.id
      BY <1>0, <3>2, RoutedWorks
    <3>4. t.pkt[u] = Routed(s, p) /\ s.pkt[u].dst # s.id
      BY <2>2, <2>3, <2>4, <3>1 DEF p
    <3> QED BY <1>1, <3>2, <3>3, <3>4 DEF Own
  <2>5. ASSUME u \notin mine \cup zero
        PROVE  t.pkt[u] = s.pkt[u] /\ Own(t, t.pkt[u]) /\ u \notin s.queue \ t.queue
    <3>1. t.pkt[u] = s.pkt[u] /\ u \notin s.queue \ t.queue
      BY <2>1, <2>5
    <3> QED BY <1>1, <3>1 DEF Own
  <2> QED BY <2>4, <2>5
<1> HIDE DEF t
<1> QED BY <1>2, <1>3

\* What AddEntryUntil does to the cache, and what it sends.
Writes(s, t, id, address_, expire) ==
  /\ \A x \in DOMAIN s.dht : x \in DOMAIN t.dht
  /\ \A x \in DOMAIN s.dht \ {id, s.id, 0} : t.dht[x] = s.dht[x]
  /\ id \in DOMAIN t.dht
  /\ id \notin {s.id, 0} => t.dht[id].add = address_
  /\ Waiting(s, id) = {} =>
       /\ t.out = s.out /\ t.queue = s.queue
       /\ t.dht[id].expire = expire
       /\ \A x \in DOMAIN s.dht \ {id} : t.dht[x] = s.dht[x]
  /\ Waiting(s, id) # {} =>
       /\ t.out = s.out \o SentOf(ForZero(s, id), t.pkt) \o SentOf(Waiting(s, id), t.pkt)
       /\ t.queue = s.queue \ (Waiting(s, id) \cup ForZero(s, id))
       /\ {id, s.id, 0} \subseteq DOMAIN t.dht
       /\ \A x \in {id, s.id, 0} : t.dht[x].expire = s.now + ASPU_DHT_ENTRY_TIMEOUT

\* addEntry writes that, whatever waits when it is called.
LEMMA AddEntryUntilWrites ==
  ASSUME NEW s, NEW n, NodeInv(s, n),
         NEW id \in Ids, NEW address_ \in Addrs, NEW expire \in Nat
  PROVE  Writes(s, AddEntryUntil(s, id, address_, expire), id, address_, expire)
<1> DEFINE t == AddEntryUntil(s, id, address_, expire)
           mine == Waiting(s, id)
           zero == ForZero(s, id)
           fresh == s.now + ASPU_DHT_ENTRY_TIMEOUT
<1> SUFFICES Writes(s, t, id, address_, expire)
  OBVIOUS
<1>1. CASE mine = {}
  <2>1. t = [s EXCEPT !.dht = DHTAddEntry(@, id, address_, expire)]
    BY <1>1 DEF AddEntryUntil
  <2>2. t.out = s.out /\ t.queue = s.queue /\ t.dht = DHTAddEntry(s.dht, id, address_, expire)
    BY <2>1 DEF NodeInv, NodeType
  <2> HIDE DEF t
  <2>3. /\ DOMAIN t.dht = DOMAIN s.dht \cup {id} /\ t.dht[id].add = address_
        /\ t.dht[id].expire = expire
        /\ \A x \in DOMAIN s.dht \ {id} : t.dht[x] = s.dht[x]
    BY <2>2 DEF DHTAddEntry
  <2> QED BY <1>1, <2>2, <2>3 DEF Writes
<1>2. CASE mine # {}
  <2> DEFINE last == IF zero # {} /\ mine = {Min(mine)} THEN Min(zero) ELSE Min(mine)
             own == s.pkt[last].srcAdd
             dht1 == DHTAddEntry(s.dht, id, address_, fresh)
             dht2 == DHTAddEntry(dht1, s.id, own, fresh)
             dht3 == DHTAddEntry(dht2, 0, ZeroAdd, fresh)
  <2>1. /\ t.dht = dht3 /\ t.queue = s.queue \ (mine \cup zero)
        /\ t.out = s.out \o SentOf(zero, t.pkt) \o SentOf(mine, t.pkt)
    BY <1>2 DEF AddEntryUntil, NodeInv, NodeType
  <2> HIDE DEF t, own, mine, zero, fresh
  <2>2. /\ DOMAIN dht3 = DOMAIN s.dht \cup {id, s.id, 0}
        /\ \A x \in DOMAIN s.dht \ {id, s.id, 0} : dht3[x] = s.dht[x]
        /\ \A x \in {id, s.id, 0} : dht3[x].expire = fresh
        /\ id \notin {s.id, 0} => dht3[id].add = address_
    BY DEF DHTAddEntry
  <2> HIDE DEF dht3
  <2>3. mine # {}
    BY <1>2
  <2> QED BY <2>1, <2>2, <2>3 DEF mine, zero, fresh, Writes
<1> QED BY <1>1, <1>2

\* addEntry, called with the usual expiry or as the first thing that a handler
\* does, only releases packets from the queue.
LEMMA AddEntryUntilReleases ==
  ASSUME NEW s, NEW t, NEW n, Releasing(s, t, n),
         NEW id \in Ids, NEW address_ \in Addrs, NEW expire \in Nat,
         t.out = << >> \/ expire = s.now + ASPU_DHT_ENTRY_TIMEOUT
  PROVE  Releasing(s, AddEntryUntil(t, id, address_, expire), n)
<1> DEFINE r == AddEntryUntil(t, id, address_, expire)
           mine == Waiting(t, id)
           zero == ForZero(t, id)
           fresh == t.now + ASPU_DHT_ENTRY_TIMEOUT
           Z == SentOf(zero, r.pkt)
           M == SentOf(mine, r.pkt)
<1>0. /\ NodeInv(t, n) /\ t.id = s.id /\ t.now = s.now /\ t.table = s.table
      /\ t.queue \subseteq s.queue /\ s.queue \subseteq Uids /\ t.queue \subseteq Uids
      /\ \A u \in Uids : t.pkt[u].dst = s.pkt[u].dst /\ Own(t, t.pkt[u])
      /\ Batch(s, t, t.out)
  BY DEF Releasing
<1>1. NodeInv(r, n) /\ SameNode(t, r) /\ r.queue \subseteq t.queue
  BY <1>0, AddEntryUntilInv
<1>2. \A u \in Uids : /\ r.pkt[u].dst = t.pkt[u].dst /\ Own(r, r.pkt[u])
                      /\ u \in t.queue \ r.queue =>
                           (r.pkt[u].fate = "mac" => Works(r.table, r.pkt[u].nextHop))
  BY <1>0, AddEntryUntilHeaders
<1>20. Writes(t, r, id, address_, expire)
  BY <1>0, AddEntryUntilWrites
<1> HIDE DEF r
<1>3. /\ \A x \in DOMAIN t.dht : x \in DOMAIN r.dht
      /\ \A x \in DOMAIN t.dht \ {id, t.id, 0} : r.dht[x] = t.dht[x]
      /\ mine = {} => /\ r.out = t.out /\ r.queue = t.queue
                      /\ r.dht[id].expire = expire
                      /\ \A x \in DOMAIN t.dht \ {id} : r.dht[x] = t.dht[x]
      /\ mine # {} => /\ r.out = t.out \o Z \o M
                      /\ r.queue = t.queue \ (mine \cup zero)
                      /\ {id, t.id, 0} \subseteq DOMAIN r.dht
                      /\ \A x \in {id, t.id, 0} : r.dht[x].expire = fresh
  BY <1>20 DEF Writes
<1>21. fresh = s.now + ASPU_DHT_ENTRY_TIMEOUT
  BY <1>0
<1>4. /\ mine \subseteq t.queue /\ \A u \in mine : t.pkt[u].dst = id
      /\ zero \subseteq t.queue /\ \A u \in zero : t.pkt[u].dst = 0 /\ id # 0
  BY DEF Waiting, ForZero
<1>5. r.table = t.table /\ r.id = t.id /\ r.now = t.now
  BY <1>1 DEF SameNode
<1>6. \A u \in t.queue : t.pkt[u].dst \notin DOMAIN t.dht
  BY <1>0 DEF NodeInv, QueueInv
<1> HIDE DEF mine, zero, Z, M
<1>7. Batch(s, r, t.out)
  <2>1. ASSUME NEW i \in DOMAIN t.out PROVE Sent(s, r, t.out[i])
    <3>1. Sent(s, t, t.out[i]) /\ expire = fresh
      <4>1. t.out # << >>
        BY <2>1
      <4> QED BY <1>0, <1>21, <4>1 DEF Batch
    <3> DEFINE x == s.pkt[t.out[i].uid].dst
    <3>2. x \in DOMAIN t.dht /\ t.dht[x].expire = fresh
      BY <1>21, <3>1 DEF Sent
    <3> HIDE DEF x, fresh
    <3>3. x \in DOMAIN r.dht /\ r.dht[x].expire = fresh
      <4>1. CASE mine = {}
        BY <1>3, <3>1, <3>2, <4>1
      <4>2. CASE mine # {}
        BY <1>3, <3>2, <4>2
      <4> QED BY <4>1, <4>2
    <3> QED BY <1>1, <1>5, <1>21, <3>1, <3>3 DEF Sent, x, fresh
  <2> QED BY <1>0, <2>1 DEF Batch
<1>8. ASSUME Batch(s, r, r.out) PROVE Releasing(s, r, n)
  <2>1. \A u \in Uids : r.pkt[u].dst = s.pkt[u].dst /\ Own(r, r.pkt[u])
    BY <1>0, <1>2
  <2>2. r.id = s.id /\ r.now = s.now /\ r.table = s.table /\ r.queue \subseteq s.queue
    BY <1>0, <1>1, <1>5
  <2> QED BY <1>0, <1>1, <1>8, <2>1, <2>2 DEF Releasing
<1>10. CASE mine = {}
  <2>1. Batch(s, r, r.out)
    BY <1>3, <1>7, <1>10
  <2> QED BY <1>8, <2>1 DEF r
<1>9. CASE mine # {}
  <2>1. /\ r.out = t.out \o Z \o M /\ r.queue = t.queue \ (mine \cup zero)
        /\ \A x \in {id, 0} : x \in DOMAIN r.dht /\ r.dht[x].expire = fresh
    BY <1>3, <1>9
  <2>2. ASSUME NEW P \in SUBSET t.queue, NEW d \in {id, 0}, P \cap r.queue = {},
               \A u \in P : t.pkt[u].dst = d
        PROVE  /\ Batch(s, r, SentOf(P, r.pkt))
               /\ \A i \in DOMAIN SentOf(P, r.pkt) : SentOf(P, r.pkt)[i].uid \in P
    <3> DEFINE q == SentOf(P, r.pkt)
    <3>1. P \in SUBSET Uids
      BY <1>0
    <3>2. /\ Sequence(q)
          /\ \A i \in DOMAIN q :
               /\ q[i].type = "DATA" /\ q[i].uid \in P /\ r.pkt[q[i].uid].fate = "mac"
               /\ q[i].to = r.pkt[q[i].uid].nextHop
          /\ \A i, j \in DOMAIN q : i < j => q[i].uid > q[j].uid
      BY <3>1, SentOfSends
    <3> HIDE DEF q
    <3>3. ASSUME NEW u \in P
          PROVE  /\ u \in s.queue \ r.queue /\ u \in t.queue \ r.queue /\ u \in Uids /\ u \in Nat
                 /\ s.pkt[u].dst = d
      BY <1>0, <2>2, <3>1, <3>3 DEF Uids
    <3>4. ASSUME NEW i \in DOMAIN q PROVE Sent(s, r, q[i])
      <4>1. q[i].uid \in P
        BY <3>2
      <4>2. Works(r.table, q[i].to)
        BY <1>2, <3>2, <3>3, <4>1
      <4> QED BY <1>21, <2>1, <2>2, <3>2, <3>3, <4>1, <4>2 DEF Sent
    <3>5. ASSUME NEW i \in DOMAIN q, NEW j \in DOMAIN q, i < j PROVE Ordered(s, q[i], q[j])
      <4>1. /\ q[i].uid \in Nat /\ q[j].uid \in Nat /\ q[i].uid > q[j].uid
        BY <3>2, <3>3, <3>5
      <4> QED BY <4>1 DEF Ordered
    <3> QED BY <3>2, <3>4, <3>5 DEF Batch, q
  <2>3. /\ Batch(s, r, Z) /\ \A i \in DOMAIN Z : Z[i].uid \in zero
        /\ Batch(s, r, M) /\ \A i \in DOMAIN M : M[i].uid \in mine
    <3>1. Batch(s, r, Z) /\ \A i \in DOMAIN Z : Z[i].uid \in zero
      BY <1>4, <2>1, <2>2 DEF Z
    <3>2. Batch(s, r, M) /\ \A i \in DOMAIN M : M[i].uid \in mine
      BY <1>4, <2>1, <2>2 DEF M
    <3> QED BY <3>1, <3>2
  <2>4. ASSUME NEW m, NEW l, Sent(s, t, m), l.uid \in t.queue PROVE Ordered(s, m, l)
    <3>1. m.uid \notin t.queue /\ s.pkt[m.uid].dst \in DOMAIN t.dht
      BY <2>4 DEF Sent
    <3>2. s.pkt[l.uid].dst \notin DOMAIN t.dht
      BY <1>0, <1>6, <2>4
    <3> QED BY <2>4, <3>1, <3>2 DEF Ordered
  <2>5. ASSUME NEW m, NEW l, m.uid \in zero, l.uid \in mine PROVE Ordered(s, m, l)
    <3>1. s.pkt[m.uid].dst = 0 /\ s.pkt[l.uid].dst = id /\ id # 0
      BY <1>0, <1>4, <2>5
    <3>2. m.uid # l.uid
      BY <3>1
    <3> QED BY <3>1, <3>2 DEF Ordered
  <2>6. \A i \in DOMAIN t.out : Sent(s, t, t.out[i])
    BY <1>0 DEF Batch
  <2>7. Batch(s, r, t.out \o Z)
    <3>1. \A i \in DOMAIN t.out, j \in DOMAIN Z : Ordered(s, t.out[i], Z[j])
      BY <1>4, <2>3, <2>4, <2>6
    <3> QED BY <1>7, <2>3, <3>1, BatchesTogether
  <2>8. ASSUME NEW i \in DOMAIN (t.out \o Z), NEW j \in DOMAIN M
        PROVE  Ordered(s, (t.out \o Z)[i], M[j])
    <3>1. Sequence(t.out) /\ Sequence(Z)
      BY <1>7, <2>3 DEF Batch
    <3>2. \/ \E k \in DOMAIN t.out : (t.out \o Z)[i] = t.out[k]
          \/ \E k \in DOMAIN Z : (t.out \o Z)[i] = Z[k]
      <4>1. /\ Len(t.out) \in Nat /\ Len(Z) \in Nat
            /\ DOMAIN t.out = 1 .. Len(t.out) /\ DOMAIN Z = 1 .. Len(Z)
            /\ DOMAIN (t.out \o Z) = 1 .. (Len(t.out) + Len(Z))
            /\ \A k \in 1 .. Len(t.out) : (t.out \o Z)[k] = t.out[k]
            /\ \A k \in (Len(t.out) + 1) .. (Len(t.out) + Len(Z)) :
                 (t.out \o Z)[k] = Z[k - Len(t.out)] /\ k - Len(t.out) \in 1 .. Len(Z)
        BY <3>1, Together
      <4>2. i \in 1 .. Len(t.out) \/ i \in (Len(t.out) + 1) .. (Len(t.out) + Len(Z))
        BY <4>1
      <4> QED BY <4>1, <4>2
    <3>3. M[j].uid \in mine /\ M[j].uid \in t.queue
      BY <1>4, <2>3
    <3>4. CASE \E k \in DOMAIN t.out : (t.out \o Z)[i] = t.out[k]
      BY <2>4, <2>6, <3>3, <3>4
    <3>5. CASE \E k \in DOMAIN Z : (t.out \o Z)[i] = Z[k]
      BY <2>3, <2>5, <3>3, <3>5
    <3> QED BY <3>2, <3>4, <3>5
  <2>9. Batch(s, r, r.out)
    <3> DEFINE Y == t.out \o Z
    <3>1. Batch(s, r, Y) /\ \A i \in DOMAIN Y, j \in DOMAIN M : Ordered(s, Y[i], M[j])
      BY <2>7, <2>8
    <3>2. r.out = Y \o M
      BY <2>1
    <3> HIDE DEF Y
    <3>3. Batch(s, r, Y \o M)
      BY <2>3, <3>1, BatchesTogether
    <3> QED BY <3>2, <3>3
  <2> QED BY <1>8, <2>9 DEF r
<1> QED BY <1>9, <1>10

\* A handler that has only released packets from the queue still has after one
\* more call of addEntry: a packet that left the queue is not there for a second
\* call to find.
LEMMA AddEntryReleases ==
  ASSUME NEW s, NEW t, NEW n, Releasing(s, t, n), NEW id \in Ids, NEW address_ \in Addrs
  PROVE  Releasing(s, AddEntry(t, id, address_), n)
<1>1. t.now = s.now /\ t.now \in Nat
  BY DEF Releasing, NodeInv, NodeType
<1>2. t.now + ASPU_DHT_ENTRY_TIMEOUT \in Nat
  BY <1>1, NodeAssumption
<1>3. Releasing(s, AddEntryUntil(t, id, address_, t.now + ASPU_DHT_ENTRY_TIMEOUT), n)
  <2> DEFINE e == t.now + ASPU_DHT_ENTRY_TIMEOUT
  <2>1. e \in Nat /\ e = s.now + ASPU_DHT_ENTRY_TIMEOUT
    BY <1>1, <1>2
  <2> HIDE DEF e
  <2>2. Releasing(s, AddEntryUntil(t, id, address_, e), n)
    BY <2>1, AddEntryUntilReleases
  <2> QED BY <2>2 DEF e
<1> QED BY <1>3 DEF AddEntry

\* What the sender of a message teaches.
LEMMA LearnSenderReleases ==
  ASSUME NEW s, NEW t, NEW n, Releasing(s, t, n), NEW m,
         m.src \in Ids, m.srcAdd \in Addrs, m.forId \in Ids, m.forAdd \in Addrs
  PROVE  Releasing(s, LearnSender(t, m), n)
<1>1. Releasing(s, AddEntry(t, m.src, m.srcAdd), n)
  BY AddEntryReleases
<1>2. Releasing(s, AddEntry(AddEntry(t, m.src, m.srcAdd), m.forId, m.forAdd), n)
  <2> DEFINE l == AddEntry(t, m.src, m.srcAdd)
  <2>1. Releasing(s, l, n)
    BY <1>1
  <2> HIDE DEF l
  <2>2. Releasing(s, AddEntry(l, m.forId, m.forAdd), n)
    BY <2>1, AddEntryReleases
  <2> QED BY <2>2 DEF l
<1> QED BY <1>2 DEF LearnSender

\* A handler that has not done anything yet.
LEMMA ReleasingNothing ==
  ASSUME NEW s, NEW n, NodeInv(s, n), s.out = << >>, \A u \in Uids : Own(s, s.pkt[u])
  PROVE  Releasing(s, s, n)
<1>1. Batch(s, s, s.out)
  <2>1. << >> \in Seq({}) /\ DOMAIN << >> = {}
    OBVIOUS
  <2> QED BY <2>1 DEF Batch, Sequence
<1> QED BY <1>1 DEF Releasing, NodeInv, NodeType

\* An address that the node has just learnt holds for as long as any other.
Renewed(s, t, x) == x \in DOMAIN t.dht /\ t.dht[x].expire = s.now + ASPU_DHT_ENTRY_TIMEOUT

\* What one more call of addEntry does to what the handler has learnt.
Renews(s, t, r, id, address_) ==
  /\ Renewed(s, r, id)
  /\ \A x : Renewed(s, t, x) => Renewed(s, r, x)
  /\ id \notin {t.id, 0} => r.dht[id].add = address_
  /\ \A x \in DOMAIN t.dht \ {id, t.id, 0} : r.dht[x].add = t.dht[x].add

\* A call of addEntry renews the entry it is for, and spoils no other.
LEMMA AddEntryRenews ==
  ASSUME NEW s, NEW t, NEW n, NodeInv(t, n), t.now = s.now,
         NEW id \in Ids, NEW address_ \in Addrs
  PROVE  /\ Renews(s, t, AddEntry(t, id, address_), id, address_)
         /\ Learnt(t, AddEntry(t, id, address_), n)
<1> DEFINE r == AddEntry(t, id, address_)
           e == t.now + ASPU_DHT_ENTRY_TIMEOUT
<1>1. e \in Nat
  BY NodeAssumption DEF NodeInv, NodeType
<1>2. Writes(t, AddEntryUntil(t, id, address_, e), id, address_, e)
  <2> HIDE DEF e
  <2> QED BY <1>1, AddEntryUntilWrites
<1>3. r = AddEntryUntil(t, id, address_, e)
  BY DEF AddEntry
<1>4. Learnt(t, r, n)
  BY AddEntryLearns
<1> SUFFICES Renews(s, t, r, id, address_)
  BY <1>4
<1> HIDE DEF r
<1>5. Writes(t, r, id, address_, e)
  BY <1>2, <1>3
<1>6. NodeInv(r, n) /\ r.now = s.now /\ r.id = t.id
  BY <1>4 DEF Learnt, SameNode
<1>7. e = s.now + ASPU_DHT_ENTRY_TIMEOUT
  OBVIOUS
<1>8. /\ \A x \in DOMAIN t.dht : x \in DOMAIN r.dht
      /\ \A x \in DOMAIN t.dht \ {id, t.id, 0} : r.dht[x] = t.dht[x]
      /\ id \in DOMAIN r.dht
      /\ id \notin {t.id, 0} => r.dht[id].add = address_
  BY <1>5 DEF Writes
<1>9. /\ r.dht[id].expire = e
      /\ \A x \in DOMAIN t.dht : r.dht[x] = t.dht[x] \/ r.dht[x].expire = e
  <2>1. CASE Waiting(t, id) = {}
    <3>1. /\ r.dht[id].expire = e
          /\ \A x \in DOMAIN t.dht \ {id} : r.dht[x] = t.dht[x]
      BY <1>5, <2>1 DEF Writes
    <3> QED BY <3>1
  <2>2. CASE Waiting(t, id) # {}
    <3>1. \A x \in {id, t.id, 0} : r.dht[x].expire = e
      BY <1>5, <2>2 DEF Writes
    <3> QED BY <1>8, <3>1
  <2> QED BY <2>1, <2>2
<1> HIDE DEF e
<1>10. Renewed(s, r, id) /\ \A x : Renewed(s, t, x) => Renewed(s, r, x)
  BY <1>7, <1>8, <1>9 DEF Renewed
<1> QED BY <1>6, <1>8, <1>10 DEF Renews

(***************************************************************************)
(* Whole handlers.  s is the state in which the event began, t the one     *)
(* that its handler leaves.                                                *)
(***************************************************************************)
\* What is true of a message that the handler gave to the interface.
Good(s, t, m) ==
  /\ m.type = "DATA" =>
       LET p == t.pkt[m.uid]
       IN /\ Works(t.table, m.to)
          /\ Renewed(s, t, p.dst)
          /\ m.uid \notin s.queue /\ p.src = t.id /\ p.dst # 0 =>
               t.dht[p.dst].add = p.dstAdd
  /\ m.type = "DARQ" => m.req \notin DOMAIN t.dht /\ Works(t.table, m.to)

\* m may be given to the interface before l.
GoodOrder(s, m, l) ==
  m.type = "DATA" /\ l.type = "DATA" =>
    /\ m.uid # l.uid
    /\ m.uid \in s.queue /\ l.uid \in s.queue /\ s.pkt[m.uid].dst = s.pkt[l.uid].dst
         => m.uid > l.uid

Right(s, t) ==
  /\ Sequence(t.out) /\ t.id = s.id /\ t.now = s.now /\ t.table = s.table
  /\ \A i \in DOMAIN t.out : Good(s, t, t.out[i])
  /\ \A i, j \in DOMAIN t.out : i < j => GoodOrder(s, t.out[i], t.out[j])
  /\ \A u \in Uids : Own(t, t.pkt[u])

\* A handler that releases packets and then sends at most one message more.
LEMMA LastRight ==
  ASSUME NEW s, NEW l, NEW n, Releasing(s, l, n),
         NEW t, t.id = s.id, t.now = s.now, t.table = l.table, t.dht = l.dht,
         \A u \in Uids : Own(t, t.pkt[u]),
         \A u \in s.queue : t.pkt[u].dst = s.pkt[u].dst,
         NEW m,
         \/ t.out = l.out
         \/ /\ t.out = Append(l.out, m)
            /\ Good(s, t, m) /\ (m.type = "DATA" => m.uid \notin s.queue)
  PROVE  Right(s, t)
<1>1. /\ Sequence(l.out) /\ t.table = s.table
      /\ \A i \in DOMAIN l.out : Sent(s, l, l.out[i])
      /\ \A i, j \in DOMAIN l.out : i < j => Ordered(s, l.out[i], l.out[j])
  BY DEF Releasing, Batch
<1>2. ASSUME NEW i \in DOMAIN l.out
      PROVE  Good(s, t, l.out[i]) /\ l.out[i].type = "DATA" /\ l.out[i].uid \in s.queue
  <2>1. Sent(s, l, l.out[i])
    BY <1>1
  <2>2. l.out[i].uid \in s.queue /\ t.pkt[l.out[i].uid].dst = s.pkt[l.out[i].uid].dst
    BY <2>1 DEF Sent
  <2> QED BY <2>1, <2>2 DEF Sent, Good, Renewed
<1>3. ASSUME NEW i \in DOMAIN l.out, NEW j \in DOMAIN l.out, i < j
      PROVE  GoodOrder(s, l.out[i], l.out[j])
  BY <1>1, <1>3 DEF Ordered, GoodOrder
<1>4. CASE t.out = l.out
  BY <1>1, <1>2, <1>3, <1>4 DEF Right
<1>5. CASE /\ t.out = Append(l.out, m)
           /\ Good(s, t, m) /\ (m.type = "DATA" => m.uid \notin s.queue)
  <2>1. PICK T : l.out \in Seq(T)
    BY <1>1 DEF Sequence
  <2> DEFINE U == T \cup {m}
             k == Len(l.out)
  <2>2. l.out \in Seq(U) /\ m \in U /\ k \in Nat /\ DOMAIN l.out = 1 .. k
    BY <2>1
  <2>3. /\ Append(l.out, m) \in Seq(U) /\ DOMAIN Append(l.out, m) = 1 .. (k + 1)
        /\ \A i \in 1 .. k : Append(l.out, m)[i] = l.out[i]
        /\ Append(l.out, m)[k + 1] = m
    <3> HIDE DEF U
    <3> QED BY <2>2
  <2> HIDE DEF U, k
  <2>4. /\ Sequence(t.out) /\ DOMAIN t.out = 1 .. (k + 1)
        /\ \A i \in 1 .. k : i \in DOMAIN l.out /\ t.out[i] = l.out[i]
        /\ t.out[k + 1] = m
    BY <1>5, <2>2, <2>3 DEF Sequence
  <2>5. ASSUME NEW i \in DOMAIN t.out PROVE Good(s, t, t.out[i])
    <3>1. i \in 1 .. k \/ i = k + 1
      BY <2>2, <2>4
    <3>2. CASE i \in 1 .. k
      BY <1>2, <2>4, <3>2
    <3>3. CASE i = k + 1
      BY <1>5, <2>4, <3>3
    <3> QED BY <3>1, <3>2, <3>3
  <2>6. ASSUME NEW i \in DOMAIN t.out, NEW j \in DOMAIN t.out, i < j
        PROVE  GoodOrder(s, t.out[i], t.out[j])
    <3>1. i \in 1 .. k /\ (j \in 1 .. k \/ j = k + 1)
      BY <2>2, <2>4, <2>6
    <3>2. CASE j \in 1 .. k
      BY <1>3, <2>4, <2>6, <3>1, <3>2
    <3>3. CASE j = k + 1
      <4>1. t.out[i] = l.out[i] /\ i \in DOMAIN l.out /\ t.out[j] = m
        BY <2>4, <3>1, <3>3
      <4>2. l.out[i].type = "DATA" /\ l.out[i].uid \in s.queue
        BY <1>2, <4>1
      <4>3. m.type = "DATA" => m.uid \notin s.queue
        BY <1>5
      <4> QED BY <4>1, <4>2, <4>3 DEF GoodOrder
    <3> QED BY <3>1, <3>2, <3>3
  <2> QED BY <1>1, <2>4, <2>5, <2>6 DEF Right
<1> QED BY <1>4, <1>5

\* A handler that only releases packets.
LEMMA ReleasingRight ==
  ASSUME NEW s, NEW t, NEW n, Releasing(s, t, n)
  PROVE  Right(s, t)
<1>1. /\ t.id = s.id /\ t.now = s.now
      /\ \A u \in Uids : Own(t, t.pkt[u]) /\ t.pkt[u].dst = s.pkt[u].dst
      /\ s.queue \subseteq Uids
  BY DEF Releasing
<1>2. \A u \in s.queue : t.pkt[u].dst = s.pkt[u].dst
  BY <1>1
<1> QED BY <1>1, <1>2, LastRight

\* A handler that ends with a control message.
LEMMA EmitRight ==
  ASSUME NEW s, NEW t, NEW n, Releasing(s, t, n), NEW m, m.type # "DATA",
         m.type = "DARQ" => m.req \notin DOMAIN t.dht /\ Works(t.table, m.to)
  PROVE  Right(s, Emit(t, m))
<1> DEFINE r == Emit(t, m)
<1>1. /\ t.id = s.id /\ t.now = s.now /\ NodeInv(t, n)
      /\ \A u \in Uids : Own(t, t.pkt[u]) /\ t.pkt[u].dst = s.pkt[u].dst
      /\ s.queue \subseteq Uids
  BY DEF Releasing
<1>2. /\ r.id = t.id /\ r.now = t.now /\ r.table = t.table /\ r.dht = t.dht /\ r.pkt = t.pkt
      /\ r.out = Append(t.out, m)
  BY <1>1 DEF Emit, NodeInv, NodeType
<1> SUFFICES Right(s, r)
  OBVIOUS
<1> HIDE DEF r
<1>3. \A u \in Uids : Own(r, r.pkt[u])
  BY <1>1, <1>2 DEF Own
<1>4. \A u \in s.queue : r.pkt[u].dst = s.pkt[u].dst
  BY <1>1, <1>2
<1>5. Good(s, r, m)
  BY <1>2 DEF Good
<1> QED BY <1>1, <1>2, <1>3, <1>4, <1>5, LastRight

\* A handler that sends nothing.
LEMMA SilentRight ==
  ASSUME NEW s, NEW n, NodeInv(s, n), s.out = << >>, \A u \in Uids : Own(s, s.pkt[u]),
         NEW t, t.id = s.id, t.now = s.now, t.table = s.table, t.dht = s.dht, t.out = << >>,
         \A u \in Uids : Own(t, t.pkt[u]),
         \A u \in s.queue : t.pkt[u].dst = s.pkt[u].dst
  PROVE  Right(s, t)
<1>1. Releasing(s, s, n)
  BY ReleasingNothing
<1>2. t.out = s.out
  OBVIOUS
<1> QED BY <1>1, <1>2, LastRight

\* The beginning of an event may be looked at a little later.
LEMMA RightFrom ==
  ASSUME NEW r, NEW s, NEW t, Right(s, t),
         r.id = s.id, r.now = s.now, r.table = s.table, r.queue = s.queue,
         \A u \in s.queue : r.pkt[u].dst = s.pkt[u].dst
  PROVE  Right(r, t)
<1>1. \A m : Good(s, t, m) => Good(r, t, m)
  BY DEF Good, Renewed
<1>2. \A m, l : GoodOrder(s, m, l) => GoodOrder(r, m, l)
  BY DEF GoodOrder
<1> QED BY <1>1, <1>2 DEF Right

\* forward, of a packet that is not in the queue.
LEMMA ForwardRight ==
  ASSUME NEW s, NEW n, NodeInv(s, n), s.out = << >>, \A v \in Uids : Own(s, s.pkt[v]),
         NEW u \in Uids, u \notin s.queue, s.pkt[u].dstAdd \in Addrs,
         s.pkt[u].src = s.id => s.pkt[u].dst # s.id /\ s.pkt[u].forId \in {0, s.id}
  PROVE  Right(s, Forward(s, u))
<1> DEFINE p == s.pkt[u]
           l == LearnHeader(s, p)
           q == Routed(l, p)
           t == Forward(s, u)
<1>1. /\ p \in Header /\ p.dstAdd \in Addrs /\ s.pkt \in [Uids -> Header]
      /\ DOMAIN s = {"id", "now", "address", "dht", "queue", "pkt", "table", "out"}
      /\ s.queue \subseteq Uids
  BY DEF NodeInv, NodeType
<1>2. ASSUME NEW q1 \in Header, q1.fate # "mac", t = [s EXCEPT !.pkt[u] = q1]
      PROVE  Right(s, t)
  <2>1. /\ t.id = s.id /\ t.now = s.now /\ t.table = s.table /\ t.dht = s.dht /\ t.out = << >>
        /\ t.pkt = [s.pkt EXCEPT ![u] = q1]
    BY <1>1, <1>2
  <2> HIDE DEF t
  <2>2. \A v \in Uids : Own(t, t.pkt[v])
    BY <1>1, <1>2, <2>1 DEF Own
  <2>3. \A v \in s.queue : t.pkt[v].dst = s.pkt[v].dst
    BY <1>1, <2>1
  <2>4. Right(s, t)
    BY <2>1, <2>2, <2>3, SilentRight
  <2> QED BY <2>4 DEF t
<1>3. CASE p.up /\ p.dst \in {s.id, IP_BROADCAST}
  <2>1. t = [s EXCEPT !.pkt[u] = [p EXCEPT !.fate = "dmux"]]
    BY <1>3 DEF Forward
  <2>2. [p EXCEPT !.fate = "dmux"] \in Header /\ [p EXCEPT !.fate = "dmux"].fate # "mac"
    BY <1>1 DEF Header, Held, Gone
  <2> QED BY <1>2, <2>1, <2>2
<1>4. CASE p.dst = IP_BROADCAST /\ ~(p.up /\ p.dst \in {s.id, IP_BROADCAST})
  <2> DEFINE q1 == [p EXCEPT !.up = FALSE, !.fate = "DROP_IP_BROADCAST"]
  <2>1. t = [s EXCEPT !.pkt[u] = q1]
    BY <1>4 DEF Forward
  <2>2. q1 \in Header /\ q1.fate # "mac"
    BY <1>1 DEF Header, Held, Gone
  <2> QED BY <1>2, <2>1, <2>2
<1>5. CASE p.dst # IP_BROADCAST /\ ~(p.up /\ p.dst \in {s.id, IP_BROADCAST})
  <2>1. t = IF q.fate = "mac" THEN Emit([l EXCEPT !.pkt[u] = q], Data(u, q))
            ELSE [l EXCEPT !.pkt[u] = q]
    BY <1>5 DEF Forward
  <2>2. /\ p.dst \in Ids /\ p.src \in Ids /\ p.srcAdd \in Addrs
        /\ p.forId \in Ids /\ p.forAdd \in Addrs
    BY <1>1, <1>5 DEF Header
  <2> DEFINE l1 == AddEntry(s, p.dst, p.dstAdd)
             l2 == AddEntry(l1, p.src, p.srcAdd)
             l3 == AddEntry(l2, p.forId, p.forAdd)
  <2>3. Releasing(s, s, n)
    BY ReleasingNothing
  <2>4. l = l3
    BY DEF LearnHeader
  <2> HIDE DEF p, l, q, t
  <2>5. Releasing(s, l1, n)
    BY <1>1, <2>2, <2>3, AddEntryReleases
  <2>6. /\ NodeInv(l1, n) /\ l1.now = s.now /\ l1.id = s.id
        /\ Renewed(s, l1, p.dst)
        /\ p.dst \notin {s.id, 0} => l1.dht[p.dst].add = p.dstAdd
    <3>1. Renews(s, s, l1, p.dst, p.dstAdd) /\ Learnt(s, l1, n)
      BY <1>1, <2>2, AddEntryRenews
    <3> HIDE DEF l1
    <3> QED BY <3>1 DEF Renews, Learnt, SameNode
  <2> HIDE DEF l1
  <2>7. Releasing(s, l2, n)
    BY <2>2, <2>5, AddEntryReleases
  <2>8. /\ NodeInv(l2, n) /\ l2.now = s.now /\ l2.id = s.id
        /\ Renewed(s, l2, p.dst)
        /\ p.src = s.id /\ p.dst \notin {s.id, 0} => l2.dht[p.dst].add = p.dstAdd
    <3>1. Renews(s, l1, l2, p.src, p.srcAdd) /\ Learnt(l1, l2, n)
      BY <2>2, <2>6, AddEntryRenews
    <3> HIDE DEF l2
    <3> QED BY <2>6, <3>1 DEF Renewed, Renews, Learnt, SameNode
  <2> HIDE DEF l2
  <2>9. Releasing(s, l, n)
    BY <2>2, <2>4, <2>7, AddEntryReleases
  <2>10. /\ Renewed(s, l, p.dst)
         /\ p.src = s.id /\ p.dst # 0 => l.dht[p.dst].add = p.dstAdd
    <3>1. Renews(s, l2, l, p.forId, p.forAdd)
      BY <2>2, <2>4, <2>8, AddEntryRenews
    <3>2. p.src = s.id => p.dst # s.id /\ p.forId \in {0, s.id}
      BY DEF p
    <3> QED BY <2>8, <3>1, <3>2 DEF Renewed, Renews
  <2>11. /\ NodeInv(l, n) /\ l.id = s.id /\ l.now = s.now
         /\ \A v \in Uids : l.pkt[v].dst = s.pkt[v].dst /\ Own(l, l.pkt[v])
    BY <2>9 DEF Releasing
  <2>12. /\ l.table \subseteq RoutingEntry /\ OneEntryPerAddress(l.table) /\ l.address \in Addrs
         /\ DOMAIN l = {"id", "now", "address", "dht", "queue", "pkt", "table", "out"}
         /\ l.pkt \in [Uids -> Header]
    BY <2>11 DEF NodeInv, NodeType
  <2>13. /\ q.dst = p.dst /\ q.src = p.src /\ q.dstAdd = p.dstAdd
         /\ q.fate = "mac" => Works(l.table, q.nextHop) /\ q.forId = l.id
    BY <1>1, <2>12, RoutedWorks DEF q
  <2>14. /\ t.id = l.id /\ t.now = l.now /\ t.table = l.table /\ t.dht = l.dht
         /\ t.pkt = [l.pkt EXCEPT ![u] = q]
         /\ t.out = IF q.fate = "mac" THEN Append(l.out, Data(u, q)) ELSE l.out
    BY <2>1, <2>12 DEF Emit
  <2>15. \A v \in Uids : Own(t, t.pkt[v])
    <3>1. Own(t, q)
      <4>1. p.src = s.id => p.dst # s.id
        BY DEF p
      <4> QED BY <2>11, <2>13, <2>14, <4>1 DEF Own
    <3>2. \A v \in Uids \ {u} : t.pkt[v] = l.pkt[v]
      BY <2>12, <2>14
    <3>3. t.pkt[u] = q
      BY <2>12, <2>14
    <3> QED BY <2>11, <2>14, <3>1, <3>2, <3>3 DEF Own
  <2>16. \A v \in s.queue : t.pkt[v].dst = s.pkt[v].dst
    BY <1>1, <2>11, <2>12, <2>14
  <2>17. q.fate = "mac" => Good(s, t, Data(u, q))
    <3>1. /\ Data(u, q).type = "DATA" /\ Data(u, q).uid = u /\ Data(u, q).to = q.nextHop
      BY DEF Data
    <3>2. t.pkt[u] = q
      BY <2>12, <2>14
    <3> QED BY <2>10, <2>11, <2>13, <2>14, <3>1, <3>2 DEF Good, Renewed
  <2>18. Data(u, q).uid \notin s.queue
    BY DEF Data
  <2>19. Right(s, t)
    <3>1. t.id = s.id /\ t.now = s.now /\ t.table = l.table /\ t.dht = l.dht
      BY <2>11, <2>14
    <3>2. \/ t.out = l.out
          \/ /\ t.out = Append(l.out, Data(u, q)) /\ Good(s, t, Data(u, q))
             /\ (Data(u, q).type = "DATA" => Data(u, q).uid \notin s.queue)
      BY <2>14, <2>17, <2>18
    <3> QED BY <2>9, <2>15, <2>16, <3>1, <3>2, LastRight
  <2> QED BY <2>19 DEF t
<1> QED BY <1>3, <1>4, <1>5

\* recvDarq.
LEMMA RecvDarqRight ==
  ASSUME NEW s, NEW n, NodeInv(s, n), s.out = << >>, \A u \in Uids : Own(s, s.pkt[u]),
         NEW m \in Darqs
  PROVE  Right(s, RecvDarq(s, m))
<1> DEFINE l == LearnSender(s, m)
           to == DAGetEntry(l, Onward(l, m))
<1>1. /\ m.src \in Ids /\ m.srcAdd \in Addrs /\ m.forId \in Ids /\ m.forAdd \in Addrs
      /\ m.dstAdd \in Addrs /\ m.type = "DARQ"
      /\ m \in [type : {"DARQ"}, to : Ids, src : Ids, srcAdd : Addrs, forId : Ids,
                forAdd : Addrs, dstAdd : Addrs, req : Ids]
  BY AgentAssumption
<1>2. Releasing(s, l, n)
  BY <1>1, ReleasingNothing, LearnSenderReleases
<1>3. Right(s, l)
  BY <1>2, ReleasingRight
<1>4. /\ l.table \subseteq RoutingEntry /\ OneEntryPerAddress(l.table) /\ l.address \in Addrs
  BY <1>2 DEF Releasing, NodeInv, NodeType
<1> HIDE DEF l
<1>5. CASE m.req \in DOMAIN l.dht
  <2>1. RecvDarq(s, m) = SendDarp(l, m)
    BY <1>5 DEF RecvDarq, l
  <2>2. Right(s, SendDarp(l, m))
    <3> DEFINE r == [type |-> "DARP", to |-> GetEntry(l, m.srcAdd), src |-> l.id,
                     srcAdd |-> l.address, forId |-> l.id, forAdd |-> l.address,
                     dst |-> m.src, dstAdd |-> m.srcAdd,
                     req |-> m.req, reqAdd |-> FindAdd(l, m.req)]
    <3>1. r.type = "DARP" /\ SendDarp(l, m) = Emit(l, r)
      BY DEF SendDarp
    <3> HIDE DEF r
    <3> QED BY <1>2, <3>1, EmitRight
  <2> QED BY <2>1, <2>2
<1>6. CASE m.req \notin DOMAIN l.dht /\ (m.dstAdd = l.address \/ Stuck(l, m))
  <2>1. RecvDarq(s, m) = l
    BY <1>6 DEF RecvDarq, l
  <2> QED BY <1>3, <2>1
<1>7. CASE m.req \notin DOMAIN l.dht /\ ~(m.dstAdd = l.address \/ Stuck(l, m))
  <2> DEFINE r == [m EXCEPT !.to = to, !.forId = l.id, !.forAdd = l.address,
                            !.dstAdd = Onward(l, m)]
  <2>1. RecvDarq(s, m) = Emit(l, r)
    BY <1>7 DEF RecvDarq, SendOn, Relay, l
  <2>2. Onward(l, m) \in Addrs
    BY <1>1, RedirectType DEF Onward
  <2>3. to # IP_BROADCAST
    BY <1>7 DEF Stuck
  <2>4. Works(l.table, to)
    BY <1>4, <2>2, <2>3, LookupsWork
  <2>5. r.type = "DARQ" /\ r.req = m.req /\ r.to = to
    BY <1>1
  <2> HIDE DEF r, to
  <2>6. Right(s, Emit(l, r))
    BY <1>2, <1>7, <2>4, <2>5, EmitRight
  <2> QED BY <2>1, <2>6
<1> QED BY <1>5, <1>6, <1>7

\* recvDarp.
LEMMA RecvDarpRight ==
  ASSUME NEW s, NEW n, NodeInv(s, n), s.out = << >>, \A u \in Uids : Own(s, s.pkt[u]),
         NEW m \in Darps
  PROVE  Right(s, RecvDarp(s, m))
<1> DEFINE l1 == LearnSender(s, m)
           l2 == AddEntry(l1, m.dst, m.dstAdd)
           l == AddEntry(l2, m.req, m.reqAdd)
           to == GetEntry(l, m.dstAdd)
           r == [m EXCEPT !.to = to, !.forId = l.id, !.forAdd = l.address, !.dstAdd = m.dstAdd]
<1>1. /\ m.src \in Ids /\ m.srcAdd \in Addrs /\ m.forId \in Ids /\ m.forAdd \in Addrs
      /\ m.dst \in Ids /\ m.dstAdd \in Addrs /\ m.req \in Ids /\ m.reqAdd \in Addrs
      /\ m.type = "DARP"
      /\ m \in [type : {"DARP"}, to : Ids, src : Ids, srcAdd : Addrs, forId : Ids,
                forAdd : Addrs, dst : Ids, dstAdd : Addrs, req : Ids, reqAdd : Addrs]
  BY AgentAssumption
<1>2. \/ RecvDarp(s, m) = AddEntry(l, m.req, m.reqAdd)
      \/ RecvDarp(s, m) = l
      \/ RecvDarp(s, m) = Emit(l, r)
  BY DEF RecvDarp, Relay
<1>3. Releasing(s, l1, n)
  BY <1>1, ReleasingNothing, LearnSenderReleases
<1> HIDE DEF l1
<1>4. Releasing(s, l2, n)
  BY <1>1, <1>3, AddEntryReleases
<1> HIDE DEF l2
<1>5. Releasing(s, l, n)
  BY <1>1, <1>4, AddEntryReleases
<1>6. r.type # "DATA" /\ r.type # "DARQ"
  BY <1>1
<1> HIDE DEF l, to, r
<1>7. Right(s, l)
  BY <1>5, ReleasingRight
<1>8. Right(s, Emit(l, r))
  BY <1>5, <1>6, EmitRight
<1>9. Right(s, AddEntry(l, m.req, m.reqAdd))
  <2>1. Releasing(s, AddEntry(l, m.req, m.reqAdd), n)
    BY <1>1, <1>5, AddEntryReleases
  <2> QED BY <2>1, ReleasingRight
<1> QED BY <1>2, <1>7, <1>8, <1>9

\* recvDaup.
LEMMA RecvDaupRight ==
  ASSUME NEW s, NEW n, NodeInv(s, n), s.out = << >>, \A u \in Uids : Own(s, s.pkt[u]),
         NEW m \in Daups
  PROVE  Right(s, RecvDaup(s, m))
<1> DEFINE l == LearnSender(s, m)
           r == [m EXCEPT !.to = DAGetEntry(l, Onward(l, m)), !.forId = l.id,
                          !.forAdd = l.address, !.dstAdd = Onward(l, m)]
<1>1. /\ m.src \in Ids /\ m.srcAdd \in Addrs /\ m.forId \in Ids /\ m.forAdd \in Addrs
      /\ m.type = "DAUP"
      /\ m \in [type : {"DAUP"}, to : Ids, src : Ids, srcAdd : Addrs, forId : Ids,
                forAdd : Addrs, dstAdd : Addrs]
  BY AgentAssumption
<1>2. \/ RecvDaup(s, m) = AddEntry(l, m.src, m.srcAdd)
      \/ RecvDaup(s, m) = Emit(l, r)
  BY DEF RecvDaup, SendOn, Relay
<1>3. Releasing(s, l, n)
  BY <1>1, ReleasingNothing, LearnSenderReleases
<1>4. r.type # "DATA" /\ r.type # "DARQ"
  BY <1>1
<1> HIDE DEF l, r
<1>5. Right(s, Emit(l, r))
  BY <1>3, <1>4, EmitRight
<1>6. Right(s, AddEntry(l, m.src, m.srcAdd))
  <2>1. Releasing(s, AddEntry(l, m.src, m.srcAdd), n)
    BY <1>1, <1>3, AddEntryReleases
  <2> QED BY <2>1, ReleasingRight
<1> QED BY <1>2, <1>5, <1>6

\* enque disturbs nothing but the queue, the packet and the one that makes room.
LEMMA EnqueKeeps ==
  ASSUME NEW s, NEW n, NodeInv(s, n), NEW u \in Uids, \A v \in Uids : Own(s, s.pkt[v])
  PROVE  LET t == Enque(s, u)
         IN /\ SameNode(s, t) /\ t.dht = s.dht /\ t.out = s.out /\ DOMAIN t = DOMAIN s
            /\ \A v \in Uids : t.pkt[v].dst = s.pkt[v].dst /\ Own(t, t.pkt[v])
<1> DEFINE r == IF Cardinality(s.queue) >= ASPU_QUEUE_LEN THEN RemoveHead(s) ELSE s
           q == [r.pkt[u] EXCEPT !.fate = "queued",
                                 !.ts = s.now + ASPU_QUEUE_TIMEOUT,
                                 !.lifetime = s.now + ADP_DARQ_TIMEOUT]
           t == Enque(s, u)
<1>0. /\ DOMAIN s = {"id", "now", "address", "dht", "queue", "pkt", "table", "out"}
      /\ s.queue \subseteq Uids /\ s.pkt \in [Uids -> Header]
  BY DEF NodeInv, NodeType
<1>1. /\ SameNode(s, r) /\ r.dht = s.dht /\ r.out = s.out /\ DOMAIN r = DOMAIN s
      /\ r.pkt \in [Uids -> Header]
      /\ \A v \in Uids : r.pkt[v].dst = s.pkt[v].dst /\ Own(r, r.pkt[v])
  <2>1. CASE Cardinality(s.queue) >= ASPU_QUEUE_LEN
    <3>1. s.queue # {}
      BY <2>1, FS_EmptySet, NodeAssumption
    <3> DEFINE head == Min(s.queue)
               why == IF s.pkt[head].ts <= s.now THEN "DROP_RTR_QTIMEOUT" ELSE "DROP_RTR_QFULL"
               g == [s.pkt[head] EXCEPT !.fate = why]
    <3>2. head \in Uids
      BY <1>0, <3>1, MinOfUids
    <3>3. RemoveHead(s) = [s EXCEPT !.queue = @ \ {head}, !.pkt[head].fate = why]
      BY DEF RemoveHead
    <3>4. why \in Gone /\ why # "mac"
      BY DEF Gone
    <3> HIDE DEF head, why
    <3>5. /\ g \in Header /\ g.dst = s.pkt[head].dst /\ g.fate # "mac"
      BY <1>0, <3>2, <3>4 DEF Header
    <3>6. /\ SameNode(s, r) /\ r.dht = s.dht /\ r.out = s.out /\ DOMAIN r = DOMAIN s
          /\ r.pkt = [s.pkt EXCEPT ![head] = g]
      BY <1>0, <2>1, <3>2, <3>3 DEF SameNode
    <3> HIDE DEF r, g
    <3>7. r.pkt \in [Uids -> Header]
      BY <1>0, <3>2, <3>5, <3>6
    <3>8. ASSUME NEW v \in Uids PROVE r.pkt[v].dst = s.pkt[v].dst /\ Own(r, r.pkt[v])
      <4>1. CASE v = head
        BY <1>0, <3>2, <3>5, <3>6, <4>1 DEF Own
      <4>2. CASE v # head
        BY <1>0, <3>2, <3>6, <4>2 DEF Own, SameNode
      <4> QED BY <4>1, <4>2
    <3> QED BY <3>6, <3>7, <3>8
  <2>2. CASE ~(Cardinality(s.queue) >= ASPU_QUEUE_LEN)
    <3>1. r = s
      BY <2>2
    <3> QED BY <1>0, <3>1 DEF SameNode
  <2> QED BY <2>1, <2>2
<1>2. t = [r EXCEPT !.queue = @ \cup {u},
                    !.pkt[u] = [@ EXCEPT !.fate = "queued",
                                         !.ts = s.now + ASPU_QUEUE_TIMEOUT,
                                         !.lifetime = s.now + ADP_DARQ_TIMEOUT]]
  BY DEF Enque
<1> SUFFICES /\ SameNode(s, t) /\ t.dht = s.dht /\ t.out = s.out /\ DOMAIN t = DOMAIN s
             /\ \A v \in Uids : t.pkt[v].dst = s.pkt[v].dst /\ Own(t, t.pkt[v])
  OBVIOUS
<1> HIDE DEF r, t
<1>3. /\ SameNode(r, t) /\ t.dht = r.dht /\ t.out = r.out /\ DOMAIN t = DOMAIN r
      /\ t.pkt = [r.pkt EXCEPT ![u] = q]
  BY <1>0, <1>1, <1>2 DEF SameNode
<1>4. q.dst = r.pkt[u].dst /\ q.fate = "queued"
  BY <1>1 DEF Header
<1> HIDE DEF q
<1>5. ASSUME NEW v \in Uids PROVE t.pkt[v].dst = s.pkt[v].dst /\ Own(t, t.pkt[v])
  <2>1. CASE v = u
    BY <1>1, <1>3, <1>4, <2>1 DEF Own
  <2>2. CASE v # u
    BY <1>1, <1>3, <2>2 DEF Own, SameNode
  <2> QED BY <2>1, <2>2
<1> QED BY <1>1, <1>3, <1>5 DEF SameNode

\* A request that sendDarq sends goes to a neighbour that works.
LEMMA DarqWorks ==
  ASSUME NEW s, s.table \subseteq RoutingEntry, OneEntryPerAddress(s.table),
         s.address \in Addrs, NEW id \in Int
  PROVE  \/ Darq(s, id) = << >>
         \/ \E m : /\ Darq(s, id) = << m >>
                   /\ m.type = "DARQ" /\ m.req = id /\ Works(s.table, m.to)
<1> DEFINE dst == Redirect(s, Hash(id), {IP_BROADCAST})
           nextHop == DAGetEntry(s, dst)
           m == [type |-> "DARQ", to |-> nextHop, src |-> s.id, srcAdd |-> s.address,
                 forId |-> s.id, forAdd |-> s.address, dstAdd |-> dst, req |-> id]
<1>1. dst \in Addrs
  BY HashType, RedirectType
<1>2. Darq(s, id) = IF Hash(id) = s.address \/ nextHop = IP_BROADCAST THEN << >> ELSE << m >>
  BY DEF Darq
<1>3. m.type = "DARQ" /\ m.req = id /\ m.to = nextHop
  OBVIOUS
<1> HIDE DEF m
<1>4. nextHop # IP_BROADCAST => Works(s.table, nextHop)
  <2> HIDE DEF dst
  <2> QED BY <1>1, LookupsWork
<1> HIDE DEF nextHop
<1> QED BY <1>2, <1>3, <1>4

\* format, of a new packet of the node's own.
LEMMA FormatRight ==
  ASSUME NEW s, NEW n \in Nat, NodeInv(s, n), s.out = << >>, \A v \in Uids : Own(s, s.pkt[v]),
         NEW u \in Uids, u \notin s.queue, u < n,
         s.pkt[u].dst # s.id, s.pkt[u].forId = 0, s.pkt[u].fate = "new"
  PROVE  Right(s, Format(s, u))
<1> DEFINE d == s.pkt[u].dst
           p == [s.pkt[u] EXCEPT !.dstAdd = FindAdd(s, d), !.src = s.id, !.srcAdd = s.address]
           f == [s EXCEPT !.pkt[u] = p]
<1>1. /\ s.pkt[u] \in Header /\ s.id \in Ids /\ s.address \in Addrs
      /\ s.pkt \in [Uids -> Header] /\ s.queue \subseteq Uids
      /\ DOMAIN s = {"id", "now", "address", "dht", "queue", "pkt", "table", "out"}
  BY DEF NodeInv, NodeType
<1>2. /\ d \in DOMAIN s.dht => FindAdd(s, d) \in Addrs
      /\ FindAdd(s, d) \in Addrs \cup {NoAdd}
  <2>1. \A x \in DOMAIN s.dht : s.dht[x].add \in Addrs
    BY DEF NodeInv, NodeType, DHT_Entry
  <2> QED BY <2>1 DEF FindAdd
<1>3. /\ p \in Header /\ p.fate = "new" /\ p.dst = d /\ p.dstAdd = FindAdd(s, d)
      /\ p.forId = 0 /\ d \in Ids \cup {IP_BROADCAST}
  BY <1>1, <1>2 DEF Header
<1> HIDE DEF p
<1>4. NodeInv(f, n)
  BY <1>3, PutCall DEF Learns, Kept
<1>5. /\ f.queue = s.queue /\ f.dht = s.dht /\ f.now = s.now /\ f.id = s.id /\ f.table = s.table
      /\ f.out = << >>
      /\ f.pkt = [s.pkt EXCEPT ![u] = p]
  BY <1>1
<1> HIDE DEF f
<1>6. /\ f.pkt[u] = p /\ \A v \in Uids : Own(f, f.pkt[v])
      /\ \A v \in s.queue : s.pkt[v].dst = f.pkt[v].dst
  BY <1>1, <1>3, <1>5 DEF Own
<1>7. CASE d \in DOMAIN s.dht
  <2>1. Format(s, u) = Forward(f, u)
    BY <1>7 DEF Format, f, p
  <2>2. f.pkt[u].dst # f.id /\ f.pkt[u].forId = 0 /\ f.pkt[u].dstAdd \in Addrs
    BY <1>2, <1>3, <1>5, <1>6, <1>7
  <2>3. Right(f, Forward(f, u))
    BY <1>4, <1>5, <1>6, <2>2, ForwardRight
  <2>4. Right(s, Forward(f, u))
    BY <1>5, <1>6, <2>3, RightFrom
  <2> QED BY <2>1, <2>4
<1>8. CASE d \notin DOMAIN s.dht
  <2> DEFINE e == Enque(f, u)
             t == SendDarq(e, d)
  <2>1. Format(s, u) = t
    BY <1>8 DEF Format, f, p
  <2>2. /\ SameNode(f, e) /\ e.dht = f.dht /\ e.out = f.out /\ DOMAIN e = DOMAIN f
        /\ \A v \in Uids : e.pkt[v].dst = f.pkt[v].dst /\ Own(e, e.pkt[v])
    BY <1>4, <1>6, EnqueKeeps
  <2> HIDE DEF e, d
  <2>3. /\ DOMAIN f = {"id", "now", "address", "dht", "queue", "pkt", "table", "out"}
        /\ f.table \subseteq RoutingEntry /\ OneEntryPerAddress(f.table) /\ f.address \in Addrs
    BY <1>4 DEF NodeInv, NodeType
  <2>4. /\ t.id = f.id /\ t.now = f.now /\ t.table = f.table /\ t.dht = f.dht
        /\ t.pkt = e.pkt /\ t.out = << >> \o Darq(e, d)
    BY <1>5, <2>2, <2>3 DEF SendDarq, SameNode
  <2> HIDE DEF t
  <2>5. \A v \in Uids : Own(t, t.pkt[v])
    BY <2>2, <2>4 DEF Own, SameNode
  <2>6. \A v \in f.queue : t.pkt[v].dst = f.pkt[v].dst
    BY <1>1, <1>5, <2>2, <2>4
  <2>7. d \in Int
    BY <1>3, NodeAssumption DEF IP_BROADCAST
  <2>8. \/ Darq(e, d) = << >>
        \/ \E m : /\ Darq(e, d) = << m >>
                  /\ m.type = "DARQ" /\ m.req = d /\ Works(e.table, m.to)
    BY <2>2, <2>3, <2>7, DarqWorks DEF SameNode
  <2>9. Right(f, t)
    <3>1. CASE Darq(e, d) = << >>
      <4>1. t.out = << >>
        BY <2>4, <3>1
      <4> QED BY <1>4, <1>5, <1>6, <2>4, <2>5, <2>6, <4>1, SilentRight
    <3>2. CASE \E m : /\ Darq(e, d) = << m >>
                      /\ m.type = "DARQ" /\ m.req = d /\ Works(e.table, m.to)
      <4>1. PICK m : /\ Darq(e, d) = << m >>
                     /\ m.type = "DARQ" /\ m.req = d /\ Works(e.table, m.to)
        BY <3>2
      <4>2. t.out = Append(f.out, m)
        <5>1. << >> \o << m >> = << m >> /\ Append(<< >>, m) = << m >>
          OBVIOUS
        <5> QED BY <1>5, <2>4, <4>1, <5>1
      <4>3. Good(f, t, m)
        BY <1>5, <1>8, <2>2, <2>4, <4>1 DEF Good, SameNode
      <4>4. Releasing(f, f, n)
        BY <1>4, <1>5, <1>6, ReleasingNothing
      <4> QED BY <2>4, <2>5, <2>6, <4>1, <4>2, <4>3, <4>4, LastRight
    <3> QED BY <2>8, <3>1, <3>2
  <2>10. Right(s, t)
    BY <1>5, <1>6, <2>9, RightFrom
  <2> QED BY <2>1, <2>10
<1> QED BY <1>7, <1>8

\* checkDarq.
LEMMA CheckDarqRight ==
  ASSUME NEW s, NEW n, NodeInv(s, n), s.out = << >>, \A u \in Uids : Own(s, s.pkt[u])
  PROVE  Right(s, CheckDarq(s))
<1> DEFINE L == {u \in Expired(s) : Darq(s, s.pkt[u].dst) # << >>}
           late == OldestFirst(L)
           q == [i \in DOMAIN late |-> Head(Darq(s, s.pkt[late[i]].dst))]
           b == BackedOff(s)
           t == CheckDarq(s)
<1>1. /\ DOMAIN s = {"id", "now", "address", "dht", "queue", "pkt", "table", "out"}
      /\ s.queue \subseteq Uids /\ s.pkt \in [Uids -> Header]
      /\ s.table \subseteq RoutingEntry /\ OneEntryPerAddress(s.table) /\ s.address \in Addrs
  BY DEF NodeInv, NodeType
<1>2. L \subseteq s.queue /\ L \in SUBSET Uids
  BY <1>1 DEF Expired
<1>3. late \in Seq(L)
  <2> HIDE DEF L
  <2> QED BY <1>2, OldestFirstSorts
<1>4. /\ b.id = s.id /\ b.now = s.now /\ b.table = s.table /\ b.dht = s.dht /\ b.out = << >>
      /\ DOMAIN b = DOMAIN s
      /\ \A u \in Uids : Own(b, b.pkt[u])
  <2>1. /\ b.id = s.id /\ b.now = s.now /\ b.table = s.table /\ b.dht = s.dht /\ b.out = << >>
        /\ DOMAIN b = DOMAIN s
        /\ b.pkt = [u \in Uids |->
              IF u \in Expired(s)
              THEN [s.pkt[u] EXCEPT !.lifetime = s.now + s.pkt[u].darqCount * ADP_DARQ_EB_TIMEOUT,
                                    !.darqCount = @ + 1]
              ELSE s.pkt[u]]
    BY <1>1 DEF BackedOff
  <2> HIDE DEF b
  <2>2. ASSUME NEW u \in Uids
        PROVE  /\ b.pkt[u].fate = s.pkt[u].fate /\ b.pkt[u].src = s.pkt[u].src
               /\ b.pkt[u].dst = s.pkt[u].dst /\ b.pkt[u].forId = s.pkt[u].forId
    <3> DEFINE due == s.now + s.pkt[u].darqCount * ADP_DARQ_EB_TIMEOUT
    <3>1. \/ b.pkt[u] = [s.pkt[u] EXCEPT !.lifetime = due, !.darqCount = @ + 1]
          \/ b.pkt[u] = s.pkt[u]
      BY <2>1
    <3>2. s.pkt[u] \in Header
      BY <1>1
    <3> HIDE DEF due
    <3> QED BY <3>1, <3>2 DEF Header
  <2>3. ASSUME NEW u \in Uids PROVE Own(b, b.pkt[u])
    <3>1. Own(s, s.pkt[u])
      OBVIOUS
    <3> QED BY <2>1, <2>2, <3>1 DEF Own
  <2> QED BY <2>1, <2>3
<1>5. /\ t.id = s.id /\ t.now = s.now /\ t.table = s.table /\ t.dht = s.dht
      /\ t.pkt = b.pkt /\ t.out = << >> \o q
  <2>1. t = [b EXCEPT !.out = @ \o q]
    BY DEF CheckDarq
  <2> HIDE DEF b, q, t
  <2> QED BY <1>1, <1>4, <2>1
<1> HIDE DEF L, late
<1>6. ASSUME NEW i \in DOMAIN late
      PROVE  q[i].type = "DARQ" /\ q[i].req \notin DOMAIN s.dht /\ Works(s.table, q[i].to)
  <2>1. late[i] \in L
    BY <1>3
  <2> DEFINE d == s.pkt[late[i]].dst
  <2>2. d \in Int /\ d \notin DOMAIN s.dht /\ Darq(s, d) # << >>
    <3>1. late[i] \in s.queue /\ s.pkt[late[i]] \in Header /\ Darq(s, d) # << >>
      BY <1>1, <1>2, <2>1 DEF L
    <3>2. d \in Ids \cup {IP_BROADCAST}
      BY <3>1 DEF Header
    <3>3. d \notin DOMAIN s.dht
      BY <3>1 DEF NodeInv, QueueInv
    <3>4. \A x \in Ids \cup {IP_BROADCAST} : x \in Int
      BY NodeAssumption DEF IP_BROADCAST
    <3> QED BY <3>1, <3>2, <3>3, <3>4
  <2>3. q[i] = Head(Darq(s, d))
    OBVIOUS
  <2> HIDE DEF d, q
  <2>4. PICK m : Darq(s, d) = << m >> /\ m.type = "DARQ" /\ m.req = d /\ Works(s.table, m.to)
    BY <1>1, <2>2, DarqWorks
  <2>5. q[i] = m
    BY <2>3, <2>4
  <2> QED BY <2>2, <2>4, <2>5
<1>7. Sequence(q) /\ DOMAIN q = DOMAIN late
  <2> DEFINE T == {q[i] : i \in DOMAIN late}
  <2>1. Len(late) \in Nat /\ DOMAIN late = 1 .. Len(late)
    BY <1>3
  <2>2. q \in [DOMAIN late -> T]
    OBVIOUS
  <2>3. DOMAIN q = DOMAIN late
    OBVIOUS
  <2> HIDE DEF T, q
  <2>4. q \in Seq(T)
    BY <2>1, <2>2
  <2> QED BY <2>3, <2>4 DEF Sequence
<1> HIDE DEF q
<1>8. t.out = q
  <2>1. << >> \o q = q
    BY <1>7, Together
  <2> QED BY <1>5, <2>1
<1> SUFFICES Right(s, t)
  OBVIOUS
<1> HIDE DEF t, b
<1>9. \A i \in DOMAIN t.out : Good(s, t, t.out[i]) /\ t.out[i].type # "DATA"
  BY <1>5, <1>6, <1>7, <1>8 DEF Good
<1>10. \A u \in Uids : Own(t, t.pkt[u])
  BY <1>4, <1>5 DEF Own
<1> QED BY <1>5, <1>7, <1>8, <1>9, <1>10 DEF Right, GoodOrder

(***************************************************************************)
(* The steps of the agent.  All entries for a neighbour agree on whether   *)
(* it failed, because macFailed marks them all and NDP builds tables of    *)
(* unmarked entries.                                                       *)
(***************************************************************************)
Uniform(t) == \A e, f \in t : e.nextHopId = f.nextHopId => e.macFailed = f.macFailed

SendInv == AgentInv /\ Uniform(table) /\ \A u \in Uids : Own(S, pkt[u])

GoodStep ==
  /\ ScheduledOnce' /\ NoFailedHopUsed' /\ RequestsAreNeeded'
  /\ TrafficTeaches /\ NewestSentFirst
  /\ Uniform(table') /\ \A u \in Uids : Own(S, pkt'[u])

\* Handlers begin with nothing to send.
LEMMA HandlerBegins ==
  ASSUME SendInv
  PROVE  /\ NodeInv(S, nextUid) /\ S.out = << >> /\ \A u \in Uids : Own(S, S.pkt[u])
         /\ Uniform(S.table) /\ S.id = Self /\ S.now = now /\ S.queue = queue /\ S.pkt = pkt
         /\ S.table = table /\ S.dht = dht /\ S.address = address
         /\ nextUid \in Nat /\ now \in Nat
BY DEF SendInv, AgentInv, EnvType, S

\* An event whose handler is right is a good step.
LEMMA BecomeRight ==
  ASSUME SendInv, NEW s, NEW t, Right(s, t), Become(t), now' = now,
         s.id = Self, s.now = now, s.queue = queue, Uniform(s.table),
         \A u \in queue : s.pkt[u].dst = pkt[u].dst
  PROVE  GoodStep
<1>1. /\ out' = t.out /\ dht' = t.dht /\ table' = t.table /\ pkt' = t.pkt /\ t.id = Self
      /\ t.table = s.table /\ now' = s.now
      /\ \A i \in DOMAIN out' : Good(s, t, out'[i])
      /\ \A i, j \in DOMAIN out' : i < j => GoodOrder(s, out'[i], out'[j])
      /\ \A u \in Uids : Own(t, pkt'[u])
  BY DEF Become, Right
<1>2. DOMAIN out' \subseteq Nat
  <2>1. PICK T : out' \in Seq(T)
    BY <1>1 DEF Right, Sequence
  <2>2. Len(out') \in Nat /\ DOMAIN out' = 1 .. Len(out')
    BY <2>1
  <2> QED BY <2>2
<1>3. Uniform(table')
  BY <1>1
<1>4. \A u \in Uids : Own(S, pkt'[u])
  BY <1>1, HandlerBegins DEF Own
<1>5. ASSUME NEW i \in DOMAIN out', NEW j \in DOMAIN out', i # j,
             out'[i].type = "DATA", out'[j].type = "DATA"
      PROVE  out'[i].uid # out'[j].uid
  <2>1. i < j \/ j < i
    BY <1>2, <1>5
  <2>2. CASE i < j
    <3>1. GoodOrder(s, out'[i], out'[j])
      BY <1>1, <1>5, <2>2
    <3> QED BY <1>5, <3>1 DEF GoodOrder
  <2>3. CASE j < i
    <3>1. GoodOrder(s, out'[j], out'[i])
      BY <1>1, <1>5, <2>3
    <3> QED BY <1>5, <3>1 DEF GoodOrder
  <2> QED BY <2>1, <2>2, <2>3
<1>6. ScheduledOnce'
  BY <1>5 DEF ScheduledOnce, DataOut
<1>7. NoFailedHopUsed'
  <2> SUFFICES ASSUME NEW i \in DOMAIN out', out'[i].type = "DATA",
                      NEW e \in table', e.nextHopId = out'[i].to
               PROVE  ~e.macFailed
    BY DEF NoFailedHopUsed, DataOut
  <2>1. PICK f \in table' : f.nextHopId = out'[i].to /\ ~f.macFailed
    BY <1>1 DEF Good, Works
  <2> QED BY <1>3, <2>1 DEF Uniform
<1>8. RequestsAreNeeded'
  BY <1>1 DEF RequestsAreNeeded, Good, Works
<1>9. TrafficTeaches
  <2> SUFFICES ASSUME NEW i \in DOMAIN out', out'[i].type = "DATA"
               PROVE  LET u == out'[i].uid
                          p == pkt'[u]
                      IN /\ p.dst \in DOMAIN dht'
                         /\ dht'[p.dst].expire = now' + ASPU_DHT_ENTRY_TIMEOUT
                         /\ u \notin queue /\ p.src = Self /\ p.dst # 0
                              => dht'[p.dst].add = p.dstAdd
    BY DEF TrafficTeaches
  <2>1. Good(s, t, out'[i])
    BY <1>1
  <2> QED BY <1>1, <2>1 DEF Good, Renewed
<1>10. NewestSentFirst
  <2> SUFFICES ASSUME NEW i \in DOMAIN out', NEW j \in DOMAIN out', i < j,
                      out'[i].type = "DATA", out'[j].type = "DATA",
                      out'[i].uid \in queue, out'[j].uid \in queue,
                      pkt[out'[i].uid].dst = pkt[out'[j].uid].dst
               PROVE  out'[i].uid > out'[j].uid
    BY DEF NewestSentFirst
  <2>1. GoodOrder(s, out'[i], out'[j])
    BY <1>1
  <2> QED BY <2>1 DEF GoodOrder
<1> QED BY <1>3, <1>4, <1>6, <1>7, <1>8, <1>9, <1>10 DEF GoodStep

\* So is an event whose handler sends no data packet and no request.
LEMMA QuietStep ==
  ASSUME SendInv, \A i \in DOMAIN out' : out'[i].type \notin {"DATA", "DARQ"},
         Uniform(table'), \A u \in Uids : Own(S, pkt'[u])
  PROVE  GoodStep
BY DEF GoodStep, ScheduledOnce, DataOut, NoFailedHopUsed, RequestsAreNeeded,
       TrafficTeaches, NewestSentFirst

\* And one whose handler sends nothing and leaves packets and table alone.
LEMMA IdleStep ==
  ASSUME SendInv, out' = << >>, Uniform(table'), pkt' = pkt
  PROVE  GoodStep
<1>1. DOMAIN out' = {}
  OBVIOUS
<1>2. \A u \in Uids : Own(S, pkt'[u])
  BY DEF SendInv
<1> QED BY <1>1, <1>2, QuietStep

\* A data packet arrives.
LEMMA ArrivalRight ==
  ASSUME SendInv, nextUid \in Uids, NEW q \in Header, q.fate \notin {"queued", "unborn", "mac"}
  PROVE  LET b == Born(S, q)
         IN /\ NodeInv(b, nextUid + 1) /\ b.out = << >> /\ \A v \in Uids : Own(b, b.pkt[v])
            /\ b.pkt[nextUid] = q /\ nextUid \notin b.queue
            /\ b.id = Self /\ b.now = now /\ b.queue = queue /\ b.table = table
            /\ \A v \in queue : b.pkt[v].dst = pkt[v].dst
<1> DEFINE b == Born(S, q)
<1>0. /\ NodeInv(S, nextUid) /\ S.out = << >> /\ \A u \in Uids : Own(S, S.pkt[u])
      /\ S.id = Self /\ S.now = now /\ S.queue = queue /\ S.pkt = pkt /\ S.table = table
  BY HandlerBegins
<1>1. /\ DOMAIN S = {"id", "now", "address", "dht", "queue", "pkt", "table", "out"}
      /\ S.pkt \in [Uids -> Header] /\ S.queue \subseteq Uids
  BY <1>0 DEF NodeInv, NodeType
<1>2. /\ NodeInv(b, nextUid + 1) /\ nextUid \notin S.queue
  BY <1>0, ArriveCall DEF Born, Learns, Kept
<1>3. /\ b.out = S.out /\ b.pkt = [S.pkt EXCEPT ![nextUid] = q] /\ b.queue = S.queue
      /\ b.id = S.id /\ b.now = S.now /\ b.table = S.table
  BY <1>1 DEF Born
<1> SUFFICES /\ NodeInv(b, nextUid + 1) /\ b.out = << >> /\ \A v \in Uids : Own(b, b.pkt[v])
             /\ b.pkt[nextUid] = q /\ nextUid \notin b.queue
             /\ b.id = Self /\ b.now = now /\ b.queue = queue /\ b.table = table
             /\ \A v \in queue : b.pkt[v].dst = pkt[v].dst
  OBVIOUS
<1> HIDE DEF b, S
<1>4. b.pkt[nextUid] = q /\ \A v \in Uids \ {nextUid} : b.pkt[v] = S.pkt[v]
  BY <1>1, <1>3
<1>5. \A v \in Uids : Own(b, b.pkt[v])
  BY <1>0, <1>3, <1>4 DEF Own
<1>6. \A v \in queue : b.pkt[v].dst = pkt[v].dst
  BY <1>0, <1>1, <1>2, <1>4
<1> QED BY <1>0, <1>2, <1>3, <1>4, <1>5, <1>6

\* A data packet of the node's own (recv, format).
LEMMA RecvLocalGood ==
  ASSUME SendInv, NEW d \in LocalDsts, RecvLocal(d)
  PROVE  GoodStep
<1> DEFINE q == [Blank EXCEPT !.dst = d, !.src = Self, !.fate = "new"]
           b == Born(S, q)
           t == Format(b, nextUid)
<1>1. nextUid \in Uids /\ now' = now /\ Become(t)
  BY DEF RecvLocal, NewPacket
<1>2. Blank \in Header
  BY NodeAssumption, ZeroAddType DEF Blank, Header
<1>3. q \in Header /\ q.fate = "new" /\ q.dst # Self /\ q.forId = 0
  BY <1>2, AgentAssumption DEF Blank, Header, Held
<1> HIDE DEF q
<1>4. /\ NodeInv(b, nextUid + 1) /\ b.out = << >> /\ \A v \in Uids : Own(b, b.pkt[v])
      /\ b.pkt[nextUid] = q /\ nextUid \notin b.queue
      /\ b.id = Self /\ b.now = now /\ b.queue = queue /\ b.table = table
      /\ \A v \in queue : b.pkt[v].dst = pkt[v].dst
  BY <1>1, <1>3, ArrivalRight
<1> HIDE DEF b
<1>5. nextUid + 1 \in Nat /\ nextUid < nextUid + 1
  BY <1>1 DEF Uids
<1>6. Right(b, t)
  BY <1>1, <1>3, <1>4, <1>5, FormatRight
<1>7. Uniform(b.table)
  BY <1>4 DEF SendInv
<1> HIDE DEF t
<1> QED BY <1>1, <1>4, <1>6, <1>7, BecomeRight

\* A data packet from another node (recv, forward).
LEMMA RecvTransitGood ==
  ASSUME SendInv, NEW h \in Transit, RecvTransit(h)
  PROVE  GoodStep
<1> DEFINE q(f) == [Relayed(h) EXCEPT !.fate = f]
<1>1. nextUid \in Uids /\ now' = now /\ Become(RecvData(S, h)) /\ S.id = Self
  BY DEF RecvTransit, NewPacket, S
<1>2. Blank \in Header
  BY NodeAssumption, ZeroAddType DEF Blank, Header
<1>3. /\ Relayed(h) \in Header /\ Relayed(h).dstAdd \in Addrs /\ Relayed(h).fate = "new"
      /\ Relayed(h).src = h.src
  <2>1. /\ h.dst \in Ids \cup {IP_BROADCAST} /\ h.dstAdd \in Addrs
        /\ h.src \in Ids /\ h.srcAdd \in Addrs /\ h.forId \in Ids /\ h.forAdd \in Addrs
    BY AgentAssumption
  <2> QED BY <2>1, <1>2 DEF Relayed, Header, Held
<1>4. ASSUME NEW f \in {"DROP_RTR_ROUTE_LOOP", "DROP_RTR_TTL"}, Become(Born(S, q(f)))
      PROVE  GoodStep
  <2> DEFINE b == Born(S, q(f))
  <2>1. q(f) \in Header /\ q(f).fate \notin {"queued", "unborn", "mac"}
    BY <1>3 DEF Header, Gone, Held
  <2> HIDE DEF q
  <2>2. /\ b.out = << >> /\ \A v \in Uids : Own(b, b.pkt[v])
        /\ b.id = Self /\ b.table = table
    BY <1>1, <2>1, ArrivalRight
  <2>3. Become(b)
    BY <1>4
  <2> HIDE DEF b
  <2>4. out' = << >> /\ Uniform(table') /\ \A v \in Uids : Own(S, pkt'[v])
    BY <1>1, <2>2, <2>3 DEF Become, SendInv, Own
  <2> QED BY <2>4, QuietStep
<1>5. ASSUME h.src # Self, Become(Forward(Born(S, Relayed(h)), nextUid))
      PROVE  GoodStep
  <2> DEFINE b == Born(S, Relayed(h))
  <2>1. /\ NodeInv(b, nextUid + 1) /\ b.out = << >> /\ \A v \in Uids : Own(b, b.pkt[v])
        /\ b.pkt[nextUid] = Relayed(h) /\ nextUid \notin b.queue
        /\ b.id = Self /\ b.now = now /\ b.queue = queue /\ b.table = table
        /\ \A v \in queue : b.pkt[v].dst = pkt[v].dst
    BY <1>1, <1>3, ArrivalRight
  <2> HIDE DEF b
  <2>2. b.pkt[nextUid].src # b.id /\ b.pkt[nextUid].dstAdd \in Addrs
    BY <1>3, <1>5, <2>1
  <2>3. Right(b, Forward(b, nextUid))
    BY <1>1, <2>1, <2>2, ForwardRight
  <2>4. Uniform(b.table)
    BY <2>1 DEF SendInv
  <2>5. Become(Forward(b, nextUid))
    BY <1>5 DEF b
  <2> QED BY <1>1, <2>1, <2>3, <2>4, <2>5, BecomeRight
<1>6. \/ RecvData(S, h) = Born(S, q("DROP_RTR_ROUTE_LOOP"))
      \/ RecvData(S, h) = Born(S, q("DROP_RTR_TTL"))
      \/ h.src # Self /\ RecvData(S, h) = Forward(Born(S, Relayed(h)), nextUid)
  BY <1>1 DEF RecvData
<1> HIDE DEF q
<1> QED BY <1>1, <1>4, <1>5, <1>6

\* A transmission that failed (macFailed): the hop is marked, then the packet forwarded.
LEMMA MacFailedGood ==
  ASSUME SendInv, NEW u \in Uids, MacFailed(u)
  PROVE  GoodStep
<1> DEFINE t == TableMacFailed(S, S.pkt[u].nextHop)
           c == [S.pkt[u] EXCEPT !.txCount = @ + 1]
           counted == [t EXCEPT !.pkt[u] = c]
           lost == [S.pkt[u] EXCEPT !.fate = "DROP_RTR_MAC_CALLBACK"]
           late == [c EXCEPT !.fate = "DROP_RTR_TX_COUNT"]
<1>1. now' = now /\ Become(LinkFailed(S, u)) /\ S.pkt[u].fate = "mac"
  BY DEF MacFailed, S
<1>2. /\ NodeInv(S, nextUid) /\ S.out = << >> /\ \A v \in Uids : Own(S, S.pkt[v])
      /\ Uniform(S.table) /\ S.id = Self /\ S.now = now /\ S.queue = queue /\ S.pkt = pkt
      /\ S.table = table /\ nextUid \in Nat
  BY HandlerBegins
<1>3. /\ DOMAIN S = {"id", "now", "address", "dht", "queue", "pkt", "table", "out"}
      /\ S.pkt \in [Uids -> Header] /\ S.queue \subseteq Uids /\ S.table \subseteq RoutingEntry
  BY <1>2 DEF NodeInv, NodeType
<1>4. u \notin S.queue /\ u < nextUid /\ S.pkt[u].dstAdd \in Addrs
  <2>1. u \notin S.queue
    BY <1>1, <1>2 DEF NodeInv, QueueInv
  <2>2. ~(u >= nextUid) /\ S.pkt[u].dstAdd \in Addrs
    BY <1>1, <1>2 DEF NodeInv
  <2> QED BY <2>1, <2>2, <1>2 DEF Uids
<1> HIDE DEF S
<1>5. /\ t.id = S.id /\ t.now = S.now /\ t.queue = S.queue /\ t.pkt = S.pkt /\ t.out = S.out
      /\ DOMAIN t = DOMAIN S
  BY <1>3 DEF TableMacFailed
<1>6. [t EXCEPT !.pkt[u].txCount = @ + 1] = counted
  BY <1>5
<1> HIDE DEF counted
<1>7. \/ LinkFailed(S, u) = [S EXCEPT !.pkt[u] = lost]
      \/ LinkFailed(S, u) = Forward(counted, u)
      \/ LinkFailed(S, u) = [counted EXCEPT !.pkt[u].fate = "DROP_RTR_TX_COUNT"]
  BY <1>6 DEF LinkFailed, t
<1> USE DEF counted
<1>8. Uniform(t.table)
  <2> DEFINE hop == S.pkt[u].nextHop
             mark(e) == [e EXCEPT !.macFailed = TRUE, !.etx = @ + 1]
  <2>1. t.table = {IF e.nextHopId = hop THEN mark(e) ELSE e : e \in S.table}
    BY <1>3 DEF TableMacFailed
  <2>2. \A e \in S.table : mark(e).nextHopId = e.nextHopId /\ mark(e).macFailed = TRUE
    BY <1>3 DEF RoutingEntry
  <2> HIDE DEF hop, mark, t
  <2>3. ASSUME NEW e \in t.table
        PROVE  \/ e.nextHopId = hop /\ e.macFailed = TRUE
               \/ e.nextHopId # hop /\ e \in S.table
    <3>1. PICK f \in S.table : e = IF f.nextHopId = hop THEN mark(f) ELSE f
      BY <2>1
    <3> QED BY <2>2, <3>1
  <2>4. ASSUME NEW e \in t.table, NEW f \in t.table, e.nextHopId = f.nextHopId
        PROVE  e.macFailed = f.macFailed
    <3>1. /\ \/ e.nextHopId = hop /\ e.macFailed = TRUE
             \/ e.nextHopId # hop /\ e \in S.table
          /\ \/ f.nextHopId = hop /\ f.macFailed = TRUE
             \/ f.nextHopId # hop /\ f \in S.table
      BY <2>3
    <3> QED BY <1>2, <2>4, <3>1 DEF Uniform
  <2> QED BY <2>4 DEF Uniform
<1>9. Kept(S, t, nextUid)
  BY <1>2, TableMacFailedInv
<1> HIDE DEF t
<1>10. /\ c \in Header /\ c.fate = "mac" /\ c.dst = S.pkt[u].dst /\ c.src = S.pkt[u].src
      /\ c.forId = S.pkt[u].forId /\ c.dstAdd = S.pkt[u].dstAdd
  <2>1. S.pkt[u] \in Header /\ S.pkt[u].txCount + 1 \in Nat
    BY <1>3 DEF Header
  <2> QED BY <2>1, <1>1 DEF Header
<1>11. /\ lost.fate # "mac" /\ late.fate # "mac"
  BY <1>3, <1>10 DEF Header
<1> HIDE DEF c
<1>12. /\ counted.id = Self /\ counted.now = now /\ counted.queue = queue
       /\ counted.out = << >> /\ counted.table = t.table
       /\ counted.pkt = [S.pkt EXCEPT ![u] = c] /\ DOMAIN counted = DOMAIN S
  BY <1>2, <1>3, <1>5
<1>13. NodeInv(counted, nextUid)
  <2>1. NodeInv(t, nextUid)
    BY <1>9 DEF Kept
  <2> QED BY <1>2, <1>4, <1>5, <1>10, <2>1, PutCall DEF Learns, Kept
<1> HIDE DEF counted
<1>14. ASSUME NEW f, f.fate # "mac", pkt' = [S.pkt EXCEPT ![u] = f], out' = << >>,
              Uniform(table')
       PROVE  GoodStep
  <2>1. \A v \in Uids : Own(S, pkt'[v])
    BY <1>2, <1>3, <1>14 DEF Own
  <2> QED BY <1>14, <2>1, QuietStep
<1>15. CASE LinkFailed(S, u) = [S EXCEPT !.pkt[u] = lost]
  <2>1. pkt' = [S.pkt EXCEPT ![u] = lost] /\ out' = << >> /\ table' = S.table
    BY <1>1, <1>2, <1>3, <1>15 DEF Become
  <2> QED BY <1>2, <1>11, <1>14, <2>1
<1>16. CASE LinkFailed(S, u) = Forward(counted, u)
  <2>1. /\ counted.pkt[u] = c /\ \A v \in Uids \ {u} : counted.pkt[v] = S.pkt[v]
    BY <1>3, <1>12
  <2>2. \A v \in Uids : Own(counted, counted.pkt[v]) /\ counted.pkt[v].dst = pkt[v].dst
    BY <1>2, <1>10, <1>12, <1>1, <2>1 DEF Own
  <2>3. c.src = Self => c.dst # Self /\ c.forId = Self
    BY <1>1, <1>2, <1>10 DEF Own
  <2>4. Right(counted, Forward(counted, u))
    BY <1>2, <1>4, <1>10, <1>12, <1>13, <2>1, <2>2, <2>3, ForwardRight
  <2>5. \A v \in queue : counted.pkt[v].dst = pkt[v].dst
    BY <1>2, <1>3, <2>2
  <2>6. Become(Forward(counted, u))
    BY <1>1, <1>16
  <2>7. Uniform(counted.table)
    BY <1>8, <1>12
  <2> QED BY <1>1, <1>12, <2>4, <2>5, <2>6, <2>7, BecomeRight
<1>17. CASE LinkFailed(S, u) = [counted EXCEPT !.pkt[u].fate = "DROP_RTR_TX_COUNT"]
  <2>1. pkt' = [S.pkt EXCEPT ![u] = late] /\ out' = << >> /\ table' = t.table
    BY <1>1, <1>3, <1>12, <1>17 DEF Become
  <2> QED BY <1>8, <1>11, <1>14, <2>1
<1> QED BY <1>7, <1>15, <1>16, <1>17

\* An event whose handler starts from the state as it is.
LEMMA PlainStep ==
  ASSUME SendInv, NEW t, Right(S, t), Become(t), now' = now
  PROVE  GoodStep
<1>1. /\ S.id = Self /\ S.now = now /\ S.queue = queue /\ S.pkt = pkt /\ Uniform(S.table)
  BY HandlerBegins
<1>2. \A u \in queue : S.pkt[u].dst = pkt[u].dst
  BY <1>1
<1> HIDE DEF S
<1> QED BY <1>1, <1>2, BecomeRight

\* A control message arrives.
LEMMA ControlGood ==
  ASSUME SendInv,
         \/ \E m \in Hellos : RecvHello(m)
         \/ \E m \in Darqs : RecvDARQ(m)
         \/ \E m \in Darps : RecvDARP(m)
         \/ \E m \in Daups : RecvDAUP(m)
  PROVE  GoodStep
<1>1. NodeInv(S, nextUid) /\ S.out = << >> /\ \A u \in Uids : Own(S, S.pkt[u])
  BY HandlerBegins
<1>2. ASSUME NEW t, RecvControl(t), Right(S, t) PROVE GoodStep
  <2>1. Become(t) /\ now' = now
    BY <1>2 DEF RecvControl
  <2> QED BY <1>2, <2>1, PlainStep
<1>3. ASSUME NEW m \in Hellos, RecvHello(m) PROVE GoodStep
  <2>1. m.src \in Ids /\ m.srcAdd \in Addrs
    BY AgentAssumption
  <2>2. Releasing(S, S, nextUid)
    BY <1>1, ReleasingNothing
  <2>3. Releasing(S, AddEntry(S, m.src, m.srcAdd), nextUid)
    BY <2>1, <2>2, AddEntryReleases
  <2>4. Right(S, AddEntry(S, m.src, m.srcAdd))
    BY <2>3, ReleasingRight
  <2> QED BY <1>2, <1>3, <2>4 DEF RecvHello
<1>4. ASSUME NEW m \in Darqs, RecvDARQ(m) PROVE GoodStep
  <2>1. Right(S, RecvDarq(S, m))
    BY <1>1, RecvDarqRight
  <2> QED BY <1>2, <1>4, <2>1 DEF RecvDARQ
<1>5. ASSUME NEW m \in Darps, RecvDARP(m) PROVE GoodStep
  <2>1. Right(S, RecvDarp(S, m))
    BY <1>1, RecvDarpRight
  <2> QED BY <1>2, <1>5, <2>1 DEF RecvDARP
<1>6. ASSUME NEW m \in Daups, RecvDAUP(m) PROVE GoodStep
  <2>1. Right(S, RecvDaup(S, m))
    BY <1>1, RecvDaupRight
  <2> QED BY <1>2, <1>6, <2>1 DEF RecvDAUP
<1> QED BY <1>3, <1>4, <1>5, <1>6

\* recvDabr reads one more entry.
LEMMA DabrEntryGood ==
  ASSUME SendInv, DabrEntry
  PROVE  GoodStep
<1>1. NodeInv(S, nextUid) /\ S.out = << >> /\ \A u \in Uids : Own(S, S.pkt[u])
  BY HandlerBegins
<1>2. /\ dabr # << >> /\ dabr \in Seq([id : Ids, add : Addrs, age : Int]) /\ now \in Nat
  BY DEF DabrEntry, SendInv, AgentInv, EnvType
<1> DEFINE e == Head(dabr)
<1>3. e \in [id : Ids, add : Addrs, age : Int]
  <2> DEFINE T == [id : Ids, add : Addrs, age : Int]
  <2>1. dabr # << >> /\ dabr \in Seq(T)
    BY <1>2
  <2> HIDE DEF T
  <2>2. e \in T
    BY <2>1
  <2> QED BY <2>2 DEF T
<1>4. e.id \in Ids /\ e.add \in Addrs /\ Expiry(e) \in Nat
  <2>1. now + e.age \in Int
    BY <1>2, <1>3
  <2> QED BY <1>3, <2>1 DEF Expiry
<1>5. Become(AddEntryUntil(S, e.id, e.add, Expiry(e))) /\ now' = now
  BY DEF DabrEntry
<1> HIDE DEF e
<1>6. Releasing(S, S, nextUid)
  BY <1>1, ReleasingNothing
<1>7. Releasing(S, AddEntryUntil(S, e.id, e.add, Expiry(e)), nextUid)
  BY <1>1, <1>4, <1>6, AddEntryUntilReleases
<1>8. Right(S, AddEntryUntil(S, e.id, e.add, Expiry(e)))
  BY <1>7, ReleasingRight
<1> QED BY <1>5, <1>8, PlainStep

\* NDP selects an address.  No packet waits for the node itself, so updateAdd
\* sends the DABR and nothing else.
LEMMA AddressSelectedGood ==
  ASSUME SendInv, NEW a \in NewAddrs, NEW t \in Tables, AddressSelected(a, t)
  PROVE  GoodStep
<1> DEFINE b == [S EXCEPT !.address = a, !.table = {}]
           l == AddEntry(b, b.id, b.address)
           m == [type |-> "DABR", to |-> IP_BROADCAST, src |-> l.id, srcAdd |-> l.address,
                 dht |-> l.dht]
           e == Emit(l, m)
<1>1. /\ Become([UpdateAdd(b) EXCEPT !.table = t]) /\ a \in Addrs
      /\ Uniform(t)
  <2>1. \A f \in t : ~f.macFailed
    BY AgentAssumption
  <2>2. Uniform(t)
    <3>1. t \subseteq RoutingEntry
      BY AgentAssumption
    <3>2. \A f \in t : f.macFailed = FALSE
      BY <2>1, <3>1 DEF RoutingEntry
    <3> QED BY <3>2 DEF Uniform
  <2> QED BY <2>2, AgentAssumption DEF AddressSelected
<1>2. /\ NodeInv(S, nextUid) /\ S.out = << >> /\ \A u \in Uids : Own(S, S.pkt[u])
      /\ S.id = Self
  BY HandlerBegins
<1>3. DOMAIN S = {"id", "now", "address", "dht", "queue", "pkt", "table", "out"}
  BY <1>2 DEF NodeInv, NodeType
<1>4. NodeInv(b, nextUid)
  <2> DEFINE c == [S EXCEPT !.address = a]
  <2>1. NodeInv(c, nextUid)
    BY <1>1, <1>2, AddressCall DEF Learns, Kept
  <2>2. OneEntryPerAddress({}) /\ {} \in SUBSET RoutingEntry
    BY DEF OneEntryPerAddress
  <2>3. NodeInv([c EXCEPT !.table = {}], nextUid)
    <3> HIDE DEF c
    <3> QED BY <2>1, <2>2, TableCall DEF Learns, Kept
  <2>4. b = [c EXCEPT !.table = {}]
    BY <1>3
  <2> QED BY <2>3, <2>4
<1>5. /\ b.id = S.id /\ b.out = << >> /\ b.pkt = S.pkt /\ b.address = a /\ b.now = S.now
      /\ b.queue = S.queue
  BY <1>2, <1>3
<1>6. UpdateAdd(b) = e
  BY DEF UpdateAdd
<1> HIDE DEF b, S
<1>7. Waiting(b, b.id) = {}
  BY <1>4 DEF Waiting, NodeInv, QueueInv, Fresh
<1>8. b.id \in Ids /\ b.address \in Addrs /\ b.now + ASPU_DHT_ENTRY_TIMEOUT \in Nat
  BY <1>4, NodeAssumption DEF NodeInv, NodeType
<1>9. l = AddEntryUntil(b, b.id, b.address, b.now + ASPU_DHT_ENTRY_TIMEOUT)
  BY DEF AddEntry
<1>10. Writes(b, l, b.id, b.address, b.now + ASPU_DHT_ENTRY_TIMEOUT) /\ NodeInv(l, nextUid)
  <2> DEFINE x == b.now + ASPU_DHT_ENTRY_TIMEOUT
  <2>1. x \in Nat
    BY <1>8
  <2> HIDE DEF x, l
  <2>2. l = AddEntryUntil(b, b.id, b.address, x)
    BY <1>9 DEF x
  <2>3. Writes(b, l, b.id, b.address, x) /\ NodeInv(l, nextUid)
    BY <1>4, <1>8, <2>1, <2>2, AddEntryUntilWrites, AddEntryUntilInv
  <2> QED BY <2>3 DEF x
<1>11. \A u \in Uids : Own(l, l.pkt[u]) /\ l.id = b.id
  <2>1. \A u \in Uids : Own(b, b.pkt[u])
    BY <1>2, <1>5 DEF Own
  <2>2. Releasing(b, b, nextUid)
    BY <1>4, <1>5, <2>1, ReleasingNothing
  <2>3. Releasing(b, l, nextUid)
    BY <1>8, <2>2, AddEntryReleases
  <2> HIDE DEF l
  <2> QED BY <2>3 DEF Releasing
<1> HIDE DEF l
<1>12. l.out = << >>
  BY <1>5, <1>7, <1>10 DEF Writes
<1>13. DOMAIN l = {"id", "now", "address", "dht", "queue", "pkt", "table", "out"}
  BY <1>10 DEF NodeInv, NodeType
<1>14. m.type = "DABR"
  OBVIOUS
<1> HIDE DEF m
<1>15. out' = << m >> /\ pkt' = l.pkt /\ table' = t
  <2>1. /\ e.out = Append(<< >>, m) /\ e.pkt = l.pkt /\ DOMAIN e = DOMAIN l
    BY <1>12, <1>13 DEF Emit
  <2> HIDE DEF e
  <2> QED BY <1>1, <1>6, <1>13, <2>1 DEF Become
<1>16. \A i \in DOMAIN out' : out'[i] = m
  BY <1>15
<1>17. \A u \in Uids : Own(S, pkt'[u])
  BY <1>2, <1>5, <1>11, <1>15 DEF Own
<1> QED BY <1>1, <1>14, <1>15, <1>16, <1>17, QuietStep

\* Every step is good.
LEMMA NextGood ==
  ASSUME SendInv, Next
  PROVE  GoodStep
<1>0. /\ S.out = << >> /\ \A u \in Uids : Own(S, S.pkt[u])
      /\ Uniform(S.table) /\ S.id = Self /\ S.pkt = pkt /\ S.table = table
      /\ NodeInv(S, nextUid)
  BY HandlerBegins
<1>1. DOMAIN S = {"id", "now", "address", "dht", "queue", "pkt", "table", "out"}
  BY <1>0 DEF NodeInv, NodeType
<1>2. CASE \E d \in LocalDsts : RecvLocal(d)
  BY <1>2, RecvLocalGood
<1>3. CASE \E h \in Transit : RecvTransit(h)
  BY <1>3, RecvTransitGood
<1>4. CASE \E u \in Uids : MacFailed(u)
  BY <1>4, MacFailedGood
<1>5. ASSUME NEW u \in Uids, MacDone(u) PROVE GoodStep
  <2>1. Become([S EXCEPT !.pkt[u].fate = "sent"])
    BY <1>5 DEF MacDone
  <2>2. S.pkt \in [Uids -> Header]
    BY <1>0 DEF NodeInv, NodeType
  <2> DEFINE q == [S.pkt[u] EXCEPT !.fate = "sent"]
  <2>3. q.fate # "mac"
    BY <2>2 DEF Header
  <2>4. out' = << >> /\ table' = table /\ pkt' = [S.pkt EXCEPT ![u] = q]
    BY <1>0, <1>1, <2>1 DEF Become
  <2> HIDE DEF q, S
  <2>5. \A v \in Uids : Own(S, pkt'[v])
    BY <1>0, <2>2, <2>3, <2>4 DEF Own
  <2>6. DOMAIN out' = {} /\ Uniform(table')
    BY <1>0, <2>4
  <2> QED BY <2>5, <2>6, QuietStep
<1>6. CASE \/ \E m \in Hellos : RecvHello(m)
           \/ \E m \in Darqs : RecvDARQ(m)
           \/ \E m \in Darps : RecvDARP(m)
           \/ \E m \in Daups : RecvDAUP(m)
  BY <1>6, ControlGood
<1>7. CASE \/ \E m \in Dabrs : RecvDABR(m)
           \/ Tick
  <2>1. Become(S)
    BY <1>7 DEF RecvDABR, Tick
  <2> QED BY <1>0, <2>1, IdleStep DEF Become
<1>8. CASE DabrEntry
  BY <1>8, DabrEntryGood
<1>9. ASSUME NEW t \in Tables, AddressKept(t) PROVE GoodStep
  <2>1. Become([S EXCEPT !.table = t])
    BY <1>9 DEF AddressKept
  <2>2. out' = << >> /\ table' = t /\ pkt' = pkt
    BY <1>0, <1>1, <2>1 DEF Become
  <2>3. t \subseteq RoutingEntry /\ \A f \in t : ~f.macFailed
    BY AgentAssumption
  <2>4. \A f \in t : f.macFailed = FALSE
    BY <2>3 DEF RoutingEntry
  <2> QED BY <2>2, <2>4, IdleStep DEF Uniform
<1>10. CASE \E a \in NewAddrs, t \in Tables : AddressSelected(a, t)
  BY <1>10, AddressSelectedGood
<1>11. ASSUME NEW t \in {"daup", "darq"}, DarqTimer(t) PROVE GoodStep
  <2>1. Become(CheckDarq(S)) /\ now' = now
    BY <1>11 DEF DarqTimer
  <2>2. Right(S, CheckDarq(S))
    BY <1>0, CheckDarqRight
  <2> QED BY <2>1, <2>2, PlainStep
<1>12. CASE DHTTimer
  <2>1. \E d : Become([S EXCEPT !.dht = d])
    BY <1>12 DEF DHTTimer
  <2>2. out' = << >> /\ table' = table /\ pkt' = pkt
    BY <1>0, <1>1, <2>1 DEF Become
  <2> QED BY <1>0, <2>2, IdleStep
<1> QED BY <1>2, <1>3, <1>4, <1>5, <1>6, <1>7, <1>8, <1>9, <1>10, <1>11, <1>12 DEF Next

(***************************************************************************)
(* The theorems.  Output is the inductive invariant: what the handlers     *)
(* keep, and what the last of them sent.                                   *)
(***************************************************************************)
Output == SendInv /\ ScheduledOnce /\ NoFailedHopUsed /\ RequestsAreNeeded

\* The agent starts with an empty table, and with nothing sent.
LEMMA InitOutput == Init => Output
<1> SUFFICES ASSUME Init PROVE Output
  OBVIOUS
<1>1. AgentInv
  BY InitAgentInv
<1>2. table = {} /\ out = << >> /\ pkt = [u \in Uids |-> Blank]
  BY DEF Init
<1>3. \A u \in Uids : Own(S, pkt[u])
  BY <1>2 DEF Own, Blank
<1>4. DOMAIN out = {}
  BY <1>2
<1> QED BY <1>1, <1>2, <1>3, <1>4
        DEF Output, SendInv, Uniform, ScheduledOnce, DataOut, NoFailedHopUsed, RequestsAreNeeded

\* Every step keeps Output.
LEMMA StepOutput == Output /\ [Next]_vars => Output'
<1> SUFFICES ASSUME Output, [Next]_vars PROVE Output'
  OBVIOUS
<1>1. AgentInv'
  BY StepAgentInv DEF Output, SendInv
<1>2. CASE Next
  <2>1. GoodStep
    BY <1>2, NextGood DEF Output
  <2>2. \A u \in Uids : Own(S, pkt[u])'
    BY <2>1 DEF GoodStep, Own, S
  <2> QED BY <1>1, <2>1, <2>2 DEF GoodStep, Output, SendInv, Uniform
<1>3. CASE UNCHANGED vars
  <2>1. table' = table /\ pkt' = pkt /\ out' = out /\ dht' = dht
    BY <1>3 DEF vars, node
  <2>2. (\A u \in Uids : Own(S, pkt[u]))'
    BY <2>1 DEF Output, SendInv, Own, S
  <2>3. Uniform(table)'
    BY <2>1 DEF Output, SendInv
  <2>4. ScheduledOnce' /\ NoFailedHopUsed' /\ RequestsAreNeeded'
    BY <2>1 DEF Output, ScheduledOnce, NoFailedHopUsed, RequestsAreNeeded, DataOut
  <2> QED BY <1>1, <2>2, <2>3, <2>4 DEF Output, SendInv
<1> QED BY <1>2, <1>3

\* Output is an invariant of the agent.
LEMMA OutputInvariant == Spec => []Output
BY InitOutput, StepOutput, PTL DEF Spec

\* One event hands a packet to the interface at most once, although forward and
\* addEntry call each other (src/aspu.cc:453, 1697).
THEOREM SentOnce == Spec => []ScheduledOnce
<1>1. Output => ScheduledOnce
  BY DEF Output
<1> QED BY <1>1, OutputInvariant, PTL

\* A next hop that the interface reported dead is not used again, on any level
\* of the table, until NDP rebuilds the table (src/aspu_rtable.cc: macFailed).
THEOREM DeadHopsRest == Spec => []NoFailedHopUsed
<1>1. Output => NoFailedHopUsed
  BY DEF Output
<1> QED BY <1>1, OutputInvariant, PTL

\* A request is sent, repeated or relayed only for an address that the node does
\* not know, and only to a neighbour that works (checkDarq, recvDarq).
THEOREM NoVainRequests == Spec => []RequestsAreNeeded
<1>1. Output => RequestsAreNeeded
  BY DEF Output
<1> QED BY <1>1, OutputInvariant, PTL

\* Sending a data packet renews the cache entry of its destination, and writes
\* the address of the packet's header back into it (ADP_DATA_CACHING in forward).
THEOREM CacheIsTaught == Spec => CacheFollowsTraffic
<1>1. Output /\ [Next]_vars => [TrafficTeaches]_vars
  BY NextGood DEF Output, GoodStep
<1> QED BY <1>1, OutputInvariant, PTL DEF Spec, CacheFollowsTraffic

\* The waiting packets of a destination are sent newest first (addEntry takes
\* each from the queue before the one it took earlier is scheduled).
THEOREM QueueIsReversed == Spec => ReleaseNewestFirst
<1>1. Output /\ [Next]_vars => [NewestSentFirst]_vars
  BY NextGood DEF Output, GoodStep
<1> QED BY <1>1, OutputInvariant, PTL DEF Spec, ReleaseNewestFirst

(***************************************************************************)
(* The recursion of addEntry and forward.                                  *)
(***************************************************************************)
\* The states that the calls pass on: the packets that wait are as format left
\* them.  The invariant of a node is more than that; it does not hold in the
\* middle of a handler, while a packet that has left the queue is on its way.
Passed(s) ==
  /\ NodeType(s) /\ OneEntryPerAddress(s.table) /\ Sequence(s.out)
  /\ \A u \in s.queue : Fresh(s, s.pkt[u])

Fields == {"id", "now", "address", "dht", "queue", "pkt", "table", "out"}

IsState(s) == s = [x \in Fields |-> s[x]]

\* Two states with the same fields are the same.
LEMMA SameState ==
  ASSUME NEW s, NEW t, IsState(s), IsState(t), SameNode(s, t),
         s.dht = t.dht, s.queue = t.queue, s.pkt = t.pkt, s.out = t.out
  PROVE  s = t
<1>1. \A x \in Fields : s[x] = t[x]
  BY DEF Fields, SameNode
<1>2. [x \in Fields |-> s[x]] = [x \in Fields |-> t[x]]
  BY <1>1
<1> QED BY <1>2 DEF IsState

\* Where forward sends a packet depends on what no call of addEntry changes.
LEMMA RoutedSame ==
  ASSUME NEW s, NEW t, SameNode(s, t), NEW p
  PROVE  Routed(s, p) = Routed(t, p)
<1>1. \A i : Usable(s, i) = Usable(t, i)
  BY DEF Usable, SameNode
<1>2. \A d, i : LevelsWithin(s, d, i) = LevelsWithin(t, d, i)
  BY <1>1 DEF LevelsWithin, SameNode
<1>3. GetEntry(s, p.dstAdd) = GetEntry(t, p.dstAdd)
  BY <1>1, <1>2 DEF GetEntry, SameNode
<1> QED BY <1>3 DEF Routed, SameNode

\* The headers after addEntry, and the packet that the recursion handles last.
Headers(s, id, a) ==
  [u \in Uids |->
     IF u \in Waiting(s, id) THEN Routed(s, [s.pkt[u] EXCEPT !.dstAdd = a])
     ELSE IF u \in ForZero(s, id) THEN Routed(s, [s.pkt[u] EXCEPT !.dstAdd = ZeroAdd])
     ELSE s.pkt[u]]

HandledLast(s, id) ==
  IF ForZero(s, id) # {} /\ Waiting(s, id) = {Min(Waiting(s, id))}
  THEN Min(ForZero(s, id)) ELSE Min(Waiting(s, id))

\* The three entries that a turn writes of a packet of node x with address own.
Taught(d, id, a, x, own, fresh) ==
  DHTAddEntry(DHTAddEntry(DHTAddEntry(d, id, a, fresh), x, own, fresh), 0, ZeroAdd, fresh)

\* addEntry when nothing waits for id.
LEMMA UntilNone ==
  ASSUME NEW s, NodeType(s), NEW id, NEW a, NEW e, Waiting(s, id) = {}
  PROVE  LET t == AddEntryUntil(s, id, a, e)
         IN /\ IsState(t) /\ SameNode(s, t)
            /\ t.dht = DHTAddEntry(s.dht, id, a, e)
            /\ t.queue = s.queue /\ t.pkt = s.pkt /\ t.out = s.out
<1> DEFINE t == AddEntryUntil(s, id, a, e)
<1>1. t = [s EXCEPT !.dht = DHTAddEntry(@, id, a, e)]
  BY DEF AddEntryUntil
<1>2. DOMAIN s = Fields
  BY DEF NodeType, Fields
<1> HIDE DEF t
<1>3. IsState(t)
  BY <1>1, <1>2 DEF IsState
<1>4. /\ t.dht = DHTAddEntry(s.dht, id, a, e)
      /\ t.queue = s.queue /\ t.pkt = s.pkt /\ t.out = s.out /\ SameNode(s, t)
  BY <1>1, <1>2 DEF SameNode, Fields
<1> QED BY <1>3, <1>4 DEF t

\* addEntry when packets wait for id.
LEMMA UntilSome ==
  ASSUME NEW s, NodeType(s), NEW id, NEW a, NEW e, Waiting(s, id) # {}
  PROVE  LET t == AddEntryUntil(s, id, a, e)
         IN /\ IsState(t) /\ SameNode(s, t)
            /\ t.dht = Taught(s.dht, id, a, s.id, s.pkt[HandledLast(s, id)].srcAdd,
                              s.now + ASPU_DHT_ENTRY_TIMEOUT)
            /\ t.queue = s.queue \ (Waiting(s, id) \cup ForZero(s, id))
            /\ t.pkt = Headers(s, id, a)
            /\ t.out = s.out \o SentOf(ForZero(s, id), Headers(s, id, a))
                             \o SentOf(Waiting(s, id), Headers(s, id, a))
<1> DEFINE t == AddEntryUntil(s, id, a, e)
           h == Headers(s, id, a)
           d == Taught(s.dht, id, a, s.id, s.pkt[HandledLast(s, id)].srcAdd,
                       s.now + ASPU_DHT_ENTRY_TIMEOUT)
           q == s.queue \ (Waiting(s, id) \cup ForZero(s, id))
           o == s.out \o SentOf(ForZero(s, id), h) \o SentOf(Waiting(s, id), h)
<1>1. t = [s EXCEPT !.dht = d, !.queue = q, !.pkt = h, !.out = o]
  BY Zenon DEF AddEntryUntil, Headers, Taught, HandledLast
<1>2. DOMAIN s = Fields
  BY DEF NodeType, Fields
<1> HIDE DEF t, h, d, q, o
<1>3. IsState(t)
  BY <1>1, <1>2 DEF IsState
<1>4. t.dht = d /\ t.queue = q /\ t.pkt = h /\ t.out = o /\ SameNode(s, t)
  BY <1>1, <1>2 DEF SameNode, Fields
<1> QED BY <1>3, <1>4 DEF t, h, d, q, o

\* A later entry for an identifier replaces an earlier one.
LEMMA TaughtAgain ==
  ASSUME NEW d, NEW id, NEW a, NEW x, NEW own, NEW other, NEW e, NEW f
  PROVE  LET t == Taught(d, id, a, x, own, f)
             w == DHTAddEntry(d, id, a, e)
         IN /\ DHTAddEntry(DHTAddEntry(Taught(w, id, a, x, other, f), x, own, f), 0, ZeroAdd, f) = t
            /\ Taught(w, id, a, x, own, f) = t
            /\ Taught(DHTAddEntry(DHTAddEntry(w, id, a, f), x, other, f), 0, ZeroAdd, x, own, f) = t
<1> DEFINE w == DHTAddEntry(d, id, a, e)
           D == DOMAIN d \cup {id, x, 0}
           z == [add |-> ZeroAdd, expire |-> f]
           y == [add |-> own, expire |-> f]
           i == [add |-> a, expire |-> f]
           g == [v \in D |-> IF v = 0 THEN z ELSE IF v = x THEN y ELSE IF v = id THEN i ELSE d[v]]
<1>1. Taught(d, id, a, x, own, f) = g
  BY DEF Taught, DHTAddEntry
<1>2. Taught(w, id, a, x, own, f) = g
  BY DEF Taught, DHTAddEntry
<1>3. DHTAddEntry(DHTAddEntry(Taught(w, id, a, x, other, f), x, own, f), 0, ZeroAdd, f) = g
  BY DEF Taught, DHTAddEntry
<1>4. Taught(DHTAddEntry(DHTAddEntry(w, id, a, f), x, other, f), 0, ZeroAdd, x, own, f) = g
  BY DEF Taught, DHTAddEntry
<1> QED BY <1>1, <1>2, <1>3, <1>4

\* A packet older than those of T comes before them.
LEMMA OldestComesFirst ==
  ASSUME NEW T \in SUBSET Uids, NEW u \in Uids, \A v \in T : u < v
  PROVE  LET o == OldestFirst(T)
             r == OldestFirst(T \cup {u})
         IN /\ Len(o) \in Nat /\ DOMAIN o = 1 .. Len(o) /\ DOMAIN r = 1 .. (Len(o) + 1)
            /\ r[1] = u /\ \A i \in 1 .. Len(o) : r[i + 1] = o[i]
<1> DEFINE M == T \cup {u}
           o == OldestFirst(T)
           r == OldestFirst(M)
           n == Cardinality(T)
           Upto(w) == {v \in T : v <= w}
           UptoM(w) == {v \in M : v <= w}
<1>1. /\ IsFiniteSet(T) /\ n \in Nat /\ T \in SUBSET Nat /\ u \in Nat /\ u \notin T
      /\ IsFiniteSet(M) /\ M \in SUBSET Uids
  BY QueueFinite DEF Uids
<1>2. Cardinality(M) = n + 1
  BY <1>1, FS_AddElement
<1>3. ASSUME NEW w \in T
      PROVE  /\ Cardinality(Upto(w)) \in Nat /\ Cardinality(Upto(w)) >= 1
             /\ Cardinality(UptoM(w)) = Cardinality(Upto(w)) + 1
  <2>1. Upto(w) \in SUBSET T /\ w \in Upto(w) /\ UptoM(w) = Upto(w) \cup {u} /\ u \notin Upto(w)
    <3>1. w \in Nat /\ u <= w
      BY <1>1
    <3> QED BY <1>1, <3>1
  <2>2. IsFiniteSet(Upto(w)) /\ Cardinality(Upto(w)) \in Nat
    BY <1>1, <2>1, FS_Subset, FS_CardinalityType
  <2>3. Cardinality(Upto(w)) # 0
    BY <2>1, <2>2, FS_EmptySet
  <2>4. Cardinality(Upto(w) \cup {u}) = Cardinality(Upto(w)) + 1
    BY <2>1, <2>2, FS_AddElement
  <2> QED BY <2>1, <2>2, <2>3, <2>4
<1>4. Cardinality(UptoM(u)) = 1
  <2>1. u \in UptoM(u) /\ \A v \in UptoM(u) : v = u
    <3>1. \A v \in T : v \in Nat /\ u < v
      BY <1>1
    <3>2. \A v \in T : ~(v <= u)
      BY <1>1, <3>1
    <3>3. u <= u
      BY <1>1
    <3> QED BY <3>2, <3>3
  <2> HIDE DEF UptoM
  <2>2. UptoM(u) = {u}
    BY <2>1
  <2> QED BY <2>2, FS_Singleton
<1>5. /\ o = [i \in 1 .. n |-> CHOOSE w \in T : Cardinality(Upto(w)) = i]
      /\ r = [i \in 1 .. (n + 1) |-> CHOOSE w \in M : Cardinality(UptoM(w)) = i]
  BY <1>2 DEF OldestFirst
<1>6. r[1] = u
  <2> DEFINE P(w) == w \in M /\ Cardinality(UptoM(w)) = 1
  <2>1. ASSUME NEW w \in T PROVE Cardinality(UptoM(w)) # 1
    <3>1. /\ Cardinality(Upto(w)) \in Nat /\ Cardinality(Upto(w)) >= 1
          /\ Cardinality(UptoM(w)) = Cardinality(Upto(w)) + 1
      BY <1>3
    <3> HIDE DEF Upto, UptoM
    <3> QED BY <3>1
  <2>2. P(u)
    BY <1>4
  <2>3. 1 \in 1 .. (n + 1)
    <3> HIDE DEF n
    <3> QED BY <1>1
  <2>4. r[1] = CHOOSE w \in M : Cardinality(UptoM(w)) = 1
    BY <1>5, <2>3
  <2> HIDE DEF r, UptoM
  <2>5. P(r[1])
    BY <2>2, <2>4
  <2> QED BY <2>1, <2>5
<1>7. ASSUME NEW i \in 1 .. n PROVE r[i + 1] = o[i]
  <2>1. PICK w \in T : Cardinality(Upto(w)) = i
    BY RankExists
  <2>2. o[i] \in T /\ Cardinality(Upto(o[i])) = i
    <3>1. o[i] = CHOOSE x \in T : Cardinality(Upto(x)) = i
      BY <1>5
    <3> HIDE DEF o, r, Upto
    <3> QED BY <2>1, <3>1
  <2>3. r[i + 1] \in M /\ Cardinality(UptoM(r[i + 1])) = i + 1
    <3>1. i + 1 \in 1 .. (n + 1)
      BY <1>1
    <3>2. r[i + 1] = CHOOSE x \in M : Cardinality(UptoM(x)) = i + 1
      BY <1>5, <3>1
    <3>3. w \in M /\ Cardinality(UptoM(w)) = i + 1
      BY <1>3, <2>1
    <3> HIDE DEF o, r, Upto, UptoM
    <3> QED BY <3>2, <3>3
  <2> HIDE DEF o, r
  <2>4. r[i + 1] \in T /\ Cardinality(Upto(r[i + 1])) = i
    <3>1. i \in Nat /\ i + 1 # 1
      BY <1>1
    <3>2. r[i + 1] # u
      <4> HIDE DEF UptoM
      <4> QED BY <1>4, <2>3, <3>1
    <3>3. r[i + 1] \in T
      BY <2>3, <3>2
    <3>4. /\ Cardinality(Upto(r[i + 1])) \in Nat
          /\ Cardinality(UptoM(r[i + 1])) = Cardinality(Upto(r[i + 1])) + 1
      BY <1>3, <3>3
    <3> HIDE DEF Upto, UptoM
    <3> QED BY <2>3, <3>1, <3>3, <3>4
  <2>5. ASSUME NEW x \in T, NEW y \in T, x < y PROVE Cardinality(Upto(x)) # Cardinality(Upto(y))
    <3>1. Upto(x) \in SUBSET Upto(y) /\ y \in Upto(y) /\ y \notin Upto(x)
      <4>1. x \in Nat /\ y \in Nat /\ \A v \in T : v \in Nat
        BY <1>1
      <4>2. \A v \in T : v <= x => v <= y
        BY <2>5, <4>1
      <4>3. y <= y /\ ~(y <= x)
        BY <2>5, <4>1
      <4> QED BY <4>2, <4>3
    <3>2. IsFiniteSet(Upto(y))
      BY <1>1, FS_Subset
    <3> HIDE DEF Upto
    <3> QED BY <3>1, <3>2, FS_Subset
  <2>6. r[i + 1] \in Nat /\ o[i] \in Nat
    BY <1>1, <2>2, <2>4
  <2>7. r[i + 1] < o[i] \/ o[i] < r[i + 1] \/ r[i + 1] = o[i]
    BY <2>6
  <2> HIDE DEF Upto
  <2> QED BY <2>2, <2>4, <2>5, <2>7
<1>8. Len(o) = n
  BY <1>1, <1>5
<1>9. DOMAIN o = 1 .. n /\ DOMAIN r = 1 .. (n + 1)
  BY <1>5
<1> HIDE DEF o, r, n
<1> QED BY <1>1, <1>6, <1>7, <1>8, <1>9 DEF o, r

\* So it is the last of the newest first.
LEMMA NewestFirstEnds ==
  ASSUME NEW T \in SUBSET Uids, NEW u \in Uids, \A v \in T : u < v
  PROVE  LET o == NewestFirst(T)
             r == NewestFirst(T \cup {u})
         IN /\ Len(o) \in Nat /\ DOMAIN o = 1 .. Len(o) /\ DOMAIN r = 1 .. (Len(o) + 1)
            /\ r[Len(o) + 1] = u /\ \A i \in 1 .. Len(o) : r[i] = o[i]
<1> DEFINE a == OldestFirst(T)
           b == OldestFirst(T \cup {u})
           o == NewestFirst(T)
           r == NewestFirst(T \cup {u})
           n == Len(a)
<1>1. /\ n \in Nat /\ DOMAIN a = 1 .. n /\ DOMAIN b = 1 .. (n + 1)
      /\ b[1] = u /\ \A i \in 1 .. n : b[i + 1] = a[i]
  BY OldestComesFirst
<1>2. Len(b) = n + 1
  <2>1. T \cup {u} \in SUBSET Uids
    OBVIOUS
  <2>2. b \in Seq(T \cup {u})
    BY <2>1, OldestFirstSorts
  <2> HIDE DEF b
  <2> QED BY <1>1, <2>2
<1>3. /\ o = [i \in 1 .. n |-> a[(n - i) + 1]]
      /\ r = [i \in 1 .. (n + 1) |-> b[((n + 1) - i) + 1]]
  BY <1>2 DEF NewestFirst, Reverse
<1> HIDE DEF a, b, o, r, n
<1>4. Len(o) = n /\ DOMAIN o = 1 .. n /\ DOMAIN r = 1 .. (n + 1)
  BY <1>1, <1>3
<1>5. r[n + 1] = u
  BY <1>1, <1>3
<1>6. ASSUME NEW i \in 1 .. n PROVE r[i] = o[i]
  <2>1. (n - i) + 1 \in 1 .. n /\ ((n + 1) - i) + 1 = ((n - i) + 1) + 1
    BY <1>1
  <2>2. r[i] = b[((n - i) + 1) + 1] /\ o[i] = a[(n - i) + 1]
    BY <1>1, <1>3, <2>1
  <2> QED BY <1>1, <2>1, <2>2
<1> QED BY <1>1, <1>4, <1>5, <1>6 DEF o, r

\* The loop sends nothing of no packets.
LEMMA SentOfNone == ASSUME NEW pkts PROVE SentOf({}, pkts) = << >>
<1> DEFINE q == SentOf({}, pkts)
<1>1. {} \in SUBSET Uids
  OBVIOUS
<1>9. Sequence(q) /\ \A i \in DOMAIN q : q[i].uid \in {}
  BY <1>1, SentOfSends
<1>2. DOMAIN q = {}
  BY <1>9
<1>3. PICK A : q \in Seq(A)
  BY <1>9 DEF Sequence
<1> HIDE DEF q
<1> QED BY <1>2, <1>3 DEF q

\* What the loop sends depends on the headers of the packets it takes only.
LEMMA SentOfSame ==
  ASSUME NEW P \in SUBSET Uids, NEW pkts, NEW hs, \A u \in P : pkts[u] = hs[u]
  PROVE  SentOf(P, pkts) = SentOf(P, hs)
<1> DEFINE M == {u \in P : pkts[u].fate = "mac"}
           o == NewestFirst(M)
<1>1. M = {u \in P : hs[u].fate = "mac"}
  OBVIOUS
<1>2. o \in Seq(M)
  BY NewestFirstSorts
<1>3. SentOf(P, pkts) = [i \in DOMAIN o |-> Data(o[i], pkts[o[i]])]
  BY DEF SentOf
<1>4. SentOf(P, hs) = [i \in DOMAIN o |-> Data(o[i], hs[o[i]])]
  BY <1>1 DEF SentOf
<1> HIDE DEF o
<1>5. \A i \in DOMAIN o : pkts[o[i]] = hs[o[i]]
  BY <1>2
<1> QED BY <1>3, <1>4, <1>5

\* The packet that waited longest is sent last.
LEMMA SentOfLast ==
  ASSUME NEW P \in SUBSET Uids, NEW u \in Uids, \A v \in P : u < v, NEW pkts
  PROVE  SentOf(P \cup {u}, pkts) =
           IF pkts[u].fate = "mac" THEN Append(SentOf(P, pkts), Data(u, pkts[u]))
           ELSE SentOf(P, pkts)
<1> DEFINE M == {v \in P : pkts[v].fate = "mac"}
           N == {v \in P \cup {u} : pkts[v].fate = "mac"}
<1>1. CASE pkts[u].fate # "mac"
  <2>1. M = N
    BY <1>1
  <2> QED BY <1>1, <2>1 DEF SentOf
<1>2. CASE pkts[u].fate = "mac"
  <2> DEFINE o == NewestFirst(M)
             r == NewestFirst(N)
             p == SentOf(P, pkts)
             q == SentOf(P \cup {u}, pkts)
  <2>1. N = M \cup {u} /\ M \in SUBSET Uids /\ \A v \in M : u < v
    BY <1>2
  <2>2. /\ Len(o) \in Nat /\ DOMAIN o = 1 .. Len(o) /\ DOMAIN r = 1 .. (Len(o) + 1)
        /\ r[Len(o) + 1] = u /\ \A i \in 1 .. Len(o) : r[i] = o[i]
    <3> HIDE DEF M, N
    <3> QED BY <2>1, NewestFirstEnds
  <2>3. /\ p = [i \in DOMAIN o |-> Data(o[i], pkts[o[i]])]
        /\ q = [i \in DOMAIN r |-> Data(r[i], pkts[r[i]])]
    BY DEF SentOf
  <2>4. Sequence(p)
    BY SentOfSends
  <2> HIDE DEF o, r, p, q, M, N
  <2>5. PICK A : p \in Seq(A)
    BY <2>4 DEF Sequence
  <2>6. Len(p) = Len(o) /\ DOMAIN p = 1 .. Len(o)
    BY <2>2, <2>3, <2>5
  <2>7. q = Append(p, Data(u, pkts[u]))
    <3> DEFINE n == Len(o)
               m == Data(u, pkts[u])
    <3>1. n \in Nat /\ Len(p) = n
      BY <2>2, <2>6
    <3>2. Append(p, m) = [i \in 1 .. (n + 1) |-> IF i = n + 1 THEN m ELSE p[i]]
      <4>1. p \in Seq(A \cup {m})
        BY <2>5
      <4> QED BY <3>1, <4>1
    <3>3. \A i \in 1 .. n : p[i] = Data(o[i], pkts[o[i]])
      BY <2>2, <2>3
    <3>4. \A i \in 1 .. (n + 1) : q[i] = IF i = n + 1 THEN m ELSE p[i]
      BY <2>2, <2>3, <3>1, <3>3
    <3>5. q = [i \in 1 .. (n + 1) |-> q[i]]
      BY <2>2, <2>3
    <3> QED BY <3>2, <3>4, <3>5
  <2> QED BY <1>2, <2>7 DEF p, q
<1> QED BY <1>1, <1>2

\* The entry written, and the oldest packet for id taken.
Written(s, id, a, e) == [s EXCEPT !.dht = DHTAddEntry(@, id, a, e)]

Handed(s, id, a, e) == Taken(Written(s, id, a, e), id)

\* What a call of addEntry for id, address a, finds when it has taken the oldest
\* packet: the others wait as before.
LEMMA TakenLeaves ==
  ASSUME NEW s, Passed(s), NEW id \in Ids, NEW a \in Addrs, NEW e \in Nat,
         Waiting(s, id) # {}
  PROVE  LET u == Min(Waiting(s, id))
             t == Handed(s, id, a, e)
         IN /\ u \in s.queue /\ s.pkt[u].dst = id
            /\ IsState(t) /\ SameNode(s, t) /\ t.out = s.out
            /\ t.dht = DHTAddEntry(s.dht, id, a, e)
            /\ t.queue = s.queue \ {u}
            /\ t.pkt = [s.pkt EXCEPT ![u] = [s.pkt[u] EXCEPT !.dstAdd = a]]
            /\ \A x : Waiting(t, x) = Waiting(s, x) \ {u}
            /\ Passed(t)
<1> DEFINE u == Min(Waiting(s, id))
           w == Written(s, id, a, e)
           t == Handed(s, id, a, e)
           q == [s.pkt[u] EXCEPT !.dstAdd = a]
<1>1. DOMAIN s = Fields /\ s.queue \in SUBSET Uids /\ s.pkt \in [Uids -> Header]
  BY DEF Passed, NodeType, Fields
<1>2. Waiting(s, id) \in SUBSET Uids
  BY <1>1 DEF Waiting
<1>3. u \in Waiting(s, id)
  <2> HIDE DEF u
  <2>1. Min(Waiting(s, id)) \in Waiting(s, id)
    BY <1>2, MinOfUids
  <2> QED BY <2>1 DEF u
<1>4. u \in s.queue /\ s.pkt[u].dst = id /\ u \in Uids
  BY <1>1, <1>3 DEF Waiting
<1>5. /\ DOMAIN w = Fields /\ w.queue = s.queue /\ w.pkt = s.pkt /\ w.out = s.out
      /\ w.id = s.id /\ w.now = s.now /\ w.address = s.address /\ w.table = s.table
      /\ w.dht = DHTAddEntry(s.dht, id, a, e)
  BY <1>1 DEF Fields, Written
<1>6. FindAdd(w, id) = a
  BY <1>5 DEF FindAdd, DHTAddEntry
<1>7. Waiting(w, id) = Waiting(s, id)
  BY <1>5 DEF Waiting
<1>8. t = [w EXCEPT !.queue = s.queue \ {u}, !.pkt = [s.pkt EXCEPT ![u].dstAdd = a]]
  BY <1>5, <1>6, <1>7 DEF Taken, Handed
<1>9. [s.pkt EXCEPT ![u].dstAdd = a] = [s.pkt EXCEPT ![u] = q]
  OBVIOUS
<1> HIDE DEF u, w, t
<1>10. IsState(t)
  BY <1>5, <1>8 DEF IsState
<1>11. /\ DOMAIN t = Fields /\ SameNode(s, t) /\ t.out = s.out
       /\ t.dht = DHTAddEntry(s.dht, id, a, e)
       /\ t.queue = s.queue \ {u} /\ t.pkt = [s.pkt EXCEPT ![u] = q]
  BY <1>5, <1>8, <1>9 DEF SameNode, Fields
<1>12. \A v \in t.queue : t.pkt[v] = s.pkt[v]
  BY <1>1, <1>11
<1>13. \A x : Waiting(t, x) = Waiting(s, x) \ {u}
  BY <1>11, <1>12 DEF Waiting
<1>14. q \in Header
  <2>1. s.pkt[u] \in Header
    BY <1>1, <1>4
  <2> QED BY <2>1 DEF Header
<1>15. t.pkt \in [Uids -> Header]
  BY <1>1, <1>11, <1>14
<1>16. DOMAIN t.dht \subseteq Ids /\ t.dht \in [DOMAIN t.dht -> DHT_Entry]
  BY <1>11 DEF DHTAddEntry, DHT_Entry, Passed, NodeType
<1>17. NodeType(t)
  BY <1>11, <1>15, <1>16 DEF Passed, NodeType, SameNode, Fields
<1>18. \A v \in t.queue : Fresh(t, t.pkt[v])
  BY <1>11, <1>12 DEF Passed, Fresh, SameNode
<1>19. Passed(t)
  BY <1>11, <1>17, <1>18 DEF Passed, SameNode
<1> QED BY <1>4, <1>10, <1>11, <1>13, <1>19 DEF t, w, u

\* The type of a cache.
DhtType(d) == DOMAIN d \subseteq Ids /\ d \in [DOMAIN d -> DHT_Entry]

\* An entry keeps it.
LEMMA EntryTyped ==
  ASSUME NEW d, DhtType(d), NEW id \in Ids, NEW a \in Addrs, NEW e \in Nat
  PROVE  DhtType(DHTAddEntry(d, id, a, e))
BY DEF DhtType, DHTAddEntry, DHT_Entry

\* A call of addEntry passes on what it finds, with no packet for id in the queue,
\* nor any that did not wait before; the packets that it does not take are as
\* they were.
LEMMA CallPasses ==
  ASSUME NEW s, Passed(s), NEW id \in Ids, NEW a \in Addrs, NEW e \in Nat
  PROVE  LET t == AddEntryUntil(s, id, a, e)
         IN /\ Passed(t) /\ IsState(t) /\ SameNode(s, t) /\ t.queue \subseteq s.queue
            /\ \A u \in Uids : u \in t.queue \/ u \notin s.queue => t.pkt[u] = s.pkt[u]
            /\ Waiting(t, id) = {}
            /\ \A x : Waiting(t, x) \subseteq Waiting(s, x)
<1> DEFINE t == AddEntryUntil(s, id, a, e)
           h == Headers(s, id, a)
           mine == Waiting(s, id)
           zero == ForZero(s, id)
           last == HandledLast(s, id)
<1>1. NodeType(s) /\ s.queue \in SUBSET Uids /\ s.pkt \in [Uids -> Header] /\ Sequence(s.out)
  BY DEF Passed, NodeType
<1>2. mine \in SUBSET s.queue /\ zero \in SUBSET s.queue
  BY DEF Waiting, ForZero
<1>3. CASE mine = {}
  <2>1. /\ IsState(t) /\ SameNode(s, t)
        /\ t.dht = DHTAddEntry(s.dht, id, a, e)
        /\ t.queue = s.queue /\ t.pkt = s.pkt /\ t.out = s.out
    BY <1>1, <1>3, UntilNone
  <2> HIDE DEF t
  <2>2. DOMAIN t.dht \subseteq Ids /\ t.dht \in [DOMAIN t.dht -> DHT_Entry]
    BY <1>1, <2>1 DEF DHTAddEntry, DHT_Entry, NodeType
  <2>3. DOMAIN t = Fields
    BY <2>1 DEF IsState
  <2>4. NodeType(t)
    BY <1>1, <2>1, <2>2, <2>3 DEF NodeType, SameNode, Fields
  <2>5. \A v \in t.queue : Fresh(t, t.pkt[v])
    BY <2>1 DEF Passed, Fresh, SameNode
  <2>6. Passed(t)
    BY <1>1, <2>1, <2>4, <2>5 DEF Passed, SameNode
  <2>7. \A x : Waiting(t, x) = Waiting(s, x)
    BY <2>1 DEF Waiting
  <2> QED BY <1>3, <2>1, <2>6, <2>7 DEF t
<1>4. CASE mine # {}
  <2>1. /\ IsState(t) /\ SameNode(s, t)
        /\ t.dht = Taught(s.dht, id, a, s.id, s.pkt[last].srcAdd, s.now + ASPU_DHT_ENTRY_TIMEOUT)
        /\ t.queue = s.queue \ (mine \cup zero)
        /\ t.pkt = h
        /\ t.out = s.out \o SentOf(zero, h) \o SentOf(mine, h)
    BY <1>1, <1>4, UntilSome
  <2>2. last \in Uids
    <3>1. Min(mine) \in mine
      BY <1>1, <1>2, <1>4, MinOfUids
    <3>2. zero # {} => Min(zero) \in zero
      BY <1>1, <1>2, MinOfUids
    <3> HIDE DEF mine, zero
    <3> QED BY <1>1, <1>2, <3>1, <3>2 DEF HandledLast, mine, zero
  <2> HIDE DEF t, last
  <2>3. /\ s.id \in Ids /\ s.pkt[last].srcAdd \in Addrs /\ ZeroAdd \in Addrs /\ 0 \in Ids
        /\ s.now + ASPU_DHT_ENTRY_TIMEOUT \in Nat
    BY <1>1, <2>2, NodeAssumption, ZeroAddType DEF Header, NodeType
  <2>4. DOMAIN t.dht \subseteq Ids /\ t.dht \in [DOMAIN t.dht -> DHT_Entry]
    <3> DEFINE g == s.now + ASPU_DHT_ENTRY_TIMEOUT
               d1 == DHTAddEntry(s.dht, id, a, g)
               d2 == DHTAddEntry(d1, s.id, s.pkt[last].srcAdd, g)
    <3>1. DhtType(d1)
      BY <1>1, <2>3, EntryTyped DEF DhtType, NodeType
    <3>2. DhtType(d2)
      BY <2>3, <3>1, EntryTyped
    <3>3. DhtType(t.dht)
      BY <2>1, <2>3, <3>2, EntryTyped DEF Taught
    <3> QED BY <3>3 DEF DhtType
  <2>5. h \in [Uids -> Header]
    <3> SUFFICES ASSUME NEW v \in Uids PROVE h[v] \in Header
      BY DEF Headers
    <3>1. s.pkt[v] \in Header
      BY <1>1
    <3>2. /\ [s.pkt[v] EXCEPT !.dstAdd = a] \in Header /\ [s.pkt[v] EXCEPT !.dstAdd = a].dstAdd = a
          /\ [s.pkt[v] EXCEPT !.dstAdd = ZeroAdd] \in Header
          /\ [s.pkt[v] EXCEPT !.dstAdd = ZeroAdd].dstAdd = ZeroAdd
      BY <2>3, <3>1 DEF Header
    <3>3. /\ Routed(s, [s.pkt[v] EXCEPT !.dstAdd = a]) \in Header
          /\ Routed(s, [s.pkt[v] EXCEPT !.dstAdd = ZeroAdd]) \in Header
      BY <1>1, <2>3, <3>2, RoutedType DEF Passed, NodeType
    <3> QED BY <3>1, <3>3 DEF Headers
  <2>6. \A v \in Uids : v \notin mine \cup zero => h[v] = s.pkt[v]
    BY DEF Headers
  <2> HIDE DEF h
  <2>7. DOMAIN t = Fields
    BY <2>1 DEF IsState
  <2>8. NodeType(t)
    BY <1>1, <2>1, <2>4, <2>5, <2>7 DEF NodeType, SameNode, Fields
  <2>9. \A v \in t.queue : v \in Uids /\ t.pkt[v] = s.pkt[v]
    BY <1>1, <2>1, <2>6
  <2>10. \A v \in t.queue : Fresh(t, t.pkt[v])
    BY <2>1, <2>9 DEF Passed, Fresh, SameNode
  <2>11. Sequence(t.out)
    <3>1. mine \in SUBSET Uids /\ zero \in SUBSET Uids
      BY <1>1, <1>2
    <3> HIDE DEF mine, zero
    <3>2. Sequence(SentOf(mine, h)) /\ Sequence(SentOf(zero, h))
      BY <3>1, SentOfSends
    <3>3. Sequence(s.out \o SentOf(zero, h))
      BY <1>1, <3>2, Together
    <3> QED BY <2>1, <3>2, <3>3, Together
  <2>12. Passed(t)
    BY <1>1, <2>1, <2>8, <2>10, <2>11 DEF Passed, SameNode
  <2>13. \A x : Waiting(t, x) \subseteq Waiting(s, x)
    BY <2>1, <2>9 DEF Waiting
  <2>14. Waiting(t, id) = {}
    BY <2>1, <2>9 DEF Waiting
  <2>15. \A u \in Uids : u \in t.queue \/ u \notin s.queue => t.pkt[u] = s.pkt[u]
    BY <1>2, <2>1, <2>6
  <2> QED BY <2>1, <2>12, <2>13, <2>14, <2>15 DEF t
<1> QED BY <1>3, <1>4

\* What forward learns from that packet.
TaughtByOldest(s, id, a, e) ==
  AddEntry(AddEntry(AddEntry(Handed(s, id, a, e), id, a), s.id, s.pkt[Min(Waiting(s, id))].srcAdd),
           0, ZeroAdd)

\* That leaves what addEntry leaves, but for the packet in hand.
LeavesOldest(s, id, a, e) ==
  LET u == Min(Waiting(s, id))
      h == Headers(s, id, a)
      l == TaughtByOldest(s, id, a, e)
  IN /\ IsState(l) /\ SameNode(s, l)
     /\ l.dht = Taught(s.dht, id, a, s.id, s.pkt[HandledLast(s, id)].srcAdd,
                       s.now + ASPU_DHT_ENTRY_TIMEOUT)
     /\ l.queue = s.queue \ (Waiting(s, id) \cup ForZero(s, id))
     /\ l.pkt = [h EXCEPT ![u] = Handed(s, id, a, e).pkt[u]]
     /\ l.out = s.out \o SentOf(ForZero(s, id), h) \o SentOf(Waiting(s, id) \ {u}, h)

\* The three calls of addEntry that forward makes of the oldest packet for id,
\* when it has been taken: they leave what addEntry itself leaves, but for the
\* packet in hand.
LEMMA OldestTeaches ==
  ASSUME NEW s, Passed(s), NEW id \in Ids, NEW a \in Addrs, NEW e \in Nat,
         Waiting(s, id) # {}
  PROVE  LeavesOldest(s, id, a, e)
<1> DEFINE u == Min(Waiting(s, id))
           t == Handed(s, id, a, e)
           h == Headers(s, id, a)
           own == s.pkt[u].srcAdd
           f == s.now + ASPU_DHT_ENTRY_TIMEOUT
           l1 == AddEntry(t, id, a)
           l2 == AddEntry(l1, s.id, own)
           l == TaughtByOldest(s, id, a, e)
           z == ForZero(s, id)
           m == Waiting(s, id) \ {u}
           w == DHTAddEntry(s.dht, id, a, e)
<1>1. /\ u \in s.queue /\ s.pkt[u].dst = id
      /\ IsState(t) /\ SameNode(s, t) /\ t.out = s.out
      /\ t.dht = w
      /\ t.queue = s.queue \ {u}
      /\ t.pkt = [s.pkt EXCEPT ![u] = [s.pkt[u] EXCEPT !.dstAdd = a]]
      /\ \A x : Waiting(t, x) = Waiting(s, x) \ {u}
      /\ Passed(t)
  BY TakenLeaves
<1>2. /\ s.queue \in SUBSET Uids /\ s.pkt \in [Uids -> Header]
      /\ \A v \in s.queue : s.pkt[v].dst # s.id
  BY DEF Passed, NodeType, Fresh
<1>3. u \in Waiting(s, id) /\ u \in Uids
  BY <1>1, <1>2 DEF Waiting
<1>4. Waiting(t, id) = m /\ ForZero(t, id) = z
  BY <1>1, <1>3 DEF ForZero
<1>5. Waiting(t, 0) \ m = z
  BY <1>1, <1>3 DEF ForZero
<1>6. /\ z \in SUBSET Uids /\ m \in SUBSET Uids /\ u \notin z \cup m
      /\ Waiting(s, id) = m \cup {u} /\ z \cap m = {}
      /\ z \in SUBSET s.queue /\ m \in SUBSET s.queue
  BY <1>2, <1>3 DEF ForZero, Waiting
<1>7. \A v \in Uids : v # u => t.pkt[v] = s.pkt[v]
  BY <1>1, <1>2
<1>8. t.now + ASPU_DHT_ENTRY_TIMEOUT = f
  BY <1>1 DEF SameNode
<1>9. Sequence(s.out)
  BY DEF Passed
<1>10. \A v \in t.queue : t.pkt[v].dst # s.id
  BY <1>1, <1>2, <1>7
<1>11. NodeType(t)
  BY <1>1 DEF Passed
<1>20. l = AddEntry(l2, 0, ZeroAdd)
  BY DEF TaughtByOldest
<1> HIDE DEF u, t, l1, l2, l, w
<1>12. own \in Addrs /\ f \in Nat /\ s.id \in Ids /\ 0 \in Ids /\ ZeroAdd \in Addrs
  BY <1>2, <1>3, NodeAssumption, ZeroAddType DEF Passed, NodeType, Header
<1>13. /\ l1 = AddEntryUntil(t, id, a, f)
       /\ Passed(l1) /\ IsState(l1) /\ SameNode(t, l1) /\ NodeType(l1)
       /\ Waiting(l1, id) = {} /\ \A x : Waiting(l1, x) \subseteq Waiting(t, x)
  <2>1. l1 = AddEntryUntil(t, id, a, f)
    BY <1>8 DEF AddEntry, l1
  <2>2. /\ Passed(l1) /\ IsState(l1) /\ SameNode(t, l1)
        /\ Waiting(l1, id) = {} /\ \A x : Waiting(l1, x) \subseteq Waiting(t, x)
    BY <1>1, <1>12, <2>1, CallPasses
  <2> QED BY <2>1, <2>2 DEF Passed
<1>14. l1.id = s.id /\ l1.now + ASPU_DHT_ENTRY_TIMEOUT = f
  BY <1>1, <1>13 DEF SameNode
<1>15. Waiting(l1, s.id) = {}
  BY <1>13, <1>14 DEF Passed, Fresh, Waiting
<1>16. l2 = AddEntryUntil(l1, s.id, own, f)
  BY <1>14 DEF AddEntry, l2
<1>17. /\ IsState(l2) /\ SameNode(l1, l2) /\ l2.dht = DHTAddEntry(l1.dht, s.id, own, f)
       /\ l2.queue = l1.queue /\ l2.pkt = l1.pkt /\ l2.out = l1.out
  BY <1>13, <1>15, <1>16, UntilNone
<1>18. Passed(l2) /\ NodeType(l2)
  BY <1>12, <1>13, <1>16, CallPasses DEF Passed
<1>19. /\ l2.id = s.id /\ l2.now + ASPU_DHT_ENTRY_TIMEOUT = f /\ SameNode(s, l2)
       /\ Waiting(l2, 0) = Waiting(l1, 0)
  BY <1>1, <1>13, <1>14, <1>17 DEF SameNode, Waiting
<1>21. l = AddEntryUntil(l2, 0, ZeroAdd, f)
  BY <1>19, <1>20 DEF AddEntry
<1>22. Waiting(l1, 0) = {} =>
         /\ IsState(l) /\ SameNode(s, l)
         /\ l.dht = DHTAddEntry(DHTAddEntry(l1.dht, s.id, own, f), 0, ZeroAdd, f)
         /\ l.queue = l1.queue /\ l.pkt = l1.pkt /\ l.out = l1.out
  <2> SUFFICES ASSUME Waiting(l1, 0) = {}
               PROVE  /\ IsState(l) /\ SameNode(s, l)
                      /\ l.dht = DHTAddEntry(DHTAddEntry(l1.dht, s.id, own, f), 0, ZeroAdd, f)
                      /\ l.queue = l1.queue /\ l.pkt = l1.pkt /\ l.out = l1.out
    OBVIOUS
  <2>1. /\ IsState(l) /\ SameNode(l2, l) /\ l.dht = DHTAddEntry(l2.dht, 0, ZeroAdd, f)
        /\ l.queue = l2.queue /\ l.pkt = l2.pkt /\ l.out = l2.out
    BY <1>18, <1>19, <1>21, UntilNone
  <2> QED BY <1>17, <1>19, <2>1 DEF SameNode
<1>23. CASE m # {}
  <2> DEFINE h1 == Headers(t, id, a)
  <2>1. /\ IsState(l1) /\ SameNode(t, l1)
        /\ l1.dht = Taught(w, id, a, s.id, t.pkt[HandledLast(t, id)].srcAdd, f)
        /\ l1.queue = t.queue \ (m \cup z)
        /\ l1.pkt = h1
        /\ l1.out = s.out \o SentOf(z, h1) \o SentOf(m, h1)
    <3>1. Waiting(t, id) # {}
      BY <1>4, <1>23
    <3>2. t.id = s.id
      BY <1>1 DEF SameNode
    <3>4. /\ IsState(l1) /\ SameNode(t, l1)
          /\ l1.dht = Taught(t.dht, id, a, t.id, t.pkt[HandledLast(t, id)].srcAdd, f)
          /\ l1.queue = t.queue \ (Waiting(t, id) \cup ForZero(t, id))
          /\ l1.pkt = h1
          /\ l1.out = t.out \o SentOf(ForZero(t, id), h1) \o SentOf(Waiting(t, id), h1)
      BY <1>8, <1>11, <1>13, <3>1, UntilSome, SMTT(30)
    <3> HIDE DEF h1
    <3> QED BY <1>1, <1>4, <3>2, <3>4
  <2>2. h1 = [h EXCEPT ![u] = t.pkt[u]]
    <3>1. \A p : Routed(t, p) = Routed(s, p)
      BY <1>1, RoutedSame
    <3>2. ASSUME NEW v \in Uids PROVE h1[v] = IF v = u THEN t.pkt[u] ELSE h[v]
      <4>1. CASE v = u
        BY <1>4, <1>6, <4>1 DEF Headers
      <4>2. CASE v # u
        BY <1>4, <1>6, <1>7, <3>1, <4>2 DEF Headers
      <4> QED BY <4>1, <4>2
    <3> QED BY <3>2 DEF Headers
  <2>3. SentOf(z, h1) = SentOf(z, h) /\ SentOf(m, h1) = SentOf(m, h)
    <3>1. \A v \in z \cup m : h1[v] = h[v]
      BY <1>6, <2>2 DEF Headers
    <3> HIDE DEF h1, h, z, m
    <3> QED BY <1>6, <3>1, SentOfSame
  <2> HIDE DEF h1
  <2>4. Waiting(l1, 0) = {}
    <3>1. \A v \in Waiting(l1, 0) : v \in l1.queue /\ v \in Waiting(t, 0)
      BY <1>13 DEF Waiting
    <3> QED BY <1>5, <2>1, <3>1
  <2>5. HandledLast(s, id) = u
    <3>1. Waiting(s, id) # {u}
      BY <1>6, <1>23
    <3> QED BY <3>1 DEF HandledLast, u
  <2>6. l.dht = Taught(s.dht, id, a, s.id, own, f)
    BY <1>22, <2>1, <2>4, TaughtAgain DEF w
  <2>7. l.queue = s.queue \ (Waiting(s, id) \cup z)
    BY <1>1, <1>6, <1>22, <2>1, <2>4
  <2>8. l.out = s.out \o SentOf(z, h) \o SentOf(m, h)
    BY <1>22, <2>1, <2>3, <2>4
  <2>9. l.pkt = [h EXCEPT ![u] = t.pkt[u]] /\ IsState(l) /\ SameNode(s, l)
    BY <1>22, <2>1, <2>2, <2>4
  <2> HIDE DEF h, z, m
  <2> QED BY <2>5, <2>6, <2>7, <2>8, <2>9 DEF LeavesOldest, l, t, u, h, z, m
<1>24. CASE m = {}
  <2>1. /\ IsState(l1) /\ SameNode(t, l1)
        /\ l1.dht = DHTAddEntry(w, id, a, f)
        /\ l1.queue = t.queue /\ l1.pkt = t.pkt /\ l1.out = s.out
    BY <1>1, <1>4, <1>11, <1>13, <1>24, UntilNone
  <2>2. Waiting(l1, 0) = z
    BY <1>5, <1>24, <2>1 DEF Waiting
  <2>3. SentOf(m, h) = << >>
    BY <1>24, SentOfNone
  <2>4. CASE z = {}
    <3>1. HandledLast(s, id) = u
      BY <2>4 DEF HandledLast, u
    <3>2. l.dht = Taught(s.dht, id, a, s.id, own, f)
      <4>1. l.dht = Taught(w, id, a, s.id, own, f)
        BY <1>22, <2>1, <2>2, <2>4 DEF Taught
      <4> QED BY <4>1, TaughtAgain DEF w
    <3>3. l.queue = s.queue \ (Waiting(s, id) \cup z)
      BY <1>1, <1>6, <1>22, <1>24, <2>1, <2>2, <2>4
    <3>4. SentOf(z, h) = << >>
      BY <2>4, SentOfNone
    <3>5. l.out = s.out \o SentOf(z, h) \o SentOf(m, h)
      <4> HIDE DEF h, z, m
      <4>1. s.out \o << >> \o << >> = s.out
        BY <1>9, Together
      <4> QED BY <1>22, <2>1, <2>2, <2>3, <2>4, <3>4, <4>1
    <3>6. t.pkt = [h EXCEPT ![u] = t.pkt[u]]
      <4>1. \A v \in Uids : t.pkt[v] = IF v = u THEN t.pkt[u] ELSE h[v]
        BY <1>6, <1>7, <1>24, <2>4 DEF Headers
      <4>2. t.pkt \in [Uids -> Header]
        BY <1>11 DEF NodeType
      <4> QED BY <4>1, <4>2 DEF Headers
    <3>7. l.pkt = [h EXCEPT ![u] = t.pkt[u]] /\ IsState(l) /\ SameNode(s, l)
      BY <1>22, <2>1, <2>2, <2>4, <3>6
    <3> HIDE DEF h, z, m
    <3> QED BY <3>1, <3>2, <3>3, <3>5, <3>7 DEF LeavesOldest, l, t, u, h, z, m
  <2>5. CASE z # {}
    <3> DEFINE h2 == Headers(l2, 0, ZeroAdd)
    <3>1. ForZero(l2, 0) = {}
      BY DEF ForZero
    <3>2. HandledLast(l2, 0) = Min(z)
      BY <1>19, <2>2, <3>1 DEF HandledLast
    <3>3. /\ IsState(l) /\ SameNode(l2, l)
          /\ l.dht = Taught(l2.dht, 0, ZeroAdd, s.id, l2.pkt[Min(z)].srcAdd, f)
          /\ l.queue = l2.queue \ z
          /\ l.pkt = h2
          /\ l.out = l2.out \o SentOf({}, h2) \o SentOf(z, h2)
      <4>1. Waiting(l2, 0) # {} /\ Waiting(l2, 0) = z
        BY <1>19, <2>2, <2>5
      <4>2. /\ IsState(l) /\ SameNode(l2, l)
            /\ l.dht = Taught(l2.dht, 0, ZeroAdd, l2.id, l2.pkt[HandledLast(l2, 0)].srcAdd, f)
            /\ l.queue = l2.queue \ (Waiting(l2, 0) \cup ForZero(l2, 0))
            /\ l.pkt = h2
            /\ l.out = l2.out \o SentOf(ForZero(l2, 0), h2) \o SentOf(Waiting(l2, 0), h2)
        <5> DEFINE g == l2.now + ASPU_DHT_ENTRY_TIMEOUT
        <5>1. LET k == AddEntryUntil(l2, 0, ZeroAdd, f)
              IN /\ IsState(k) /\ SameNode(l2, k)
                 /\ k.dht = Taught(l2.dht, 0, ZeroAdd, l2.id, l2.pkt[HandledLast(l2, 0)].srcAdd, g)
                 /\ k.queue = l2.queue \ (Waiting(l2, 0) \cup ForZero(l2, 0))
                 /\ k.pkt = h2
                 /\ k.out = l2.out \o SentOf(ForZero(l2, 0), h2) \o SentOf(Waiting(l2, 0), h2)
          <6>1. Waiting(l2, 0) # {}
            BY <4>1
          <6> HIDE DEF f
          <6> QED BY <1>18, <6>1, UntilSome
        <5>2. g = f
          BY <1>19
        <5> HIDE DEF f, g, h2
        <5> QED BY <1>21, <5>1, <5>2
      <4> HIDE DEF h2, z
      <4>3. l.dht = Taught(l2.dht, 0, ZeroAdd, s.id, l2.pkt[Min(z)].srcAdd, f)
        BY <1>19, <3>2, <4>2, Zenon
      <4>4. l.queue = l2.queue \ z
        BY <3>1, <4>1, <4>2
      <4>5. l.out = l2.out \o SentOf({}, h2) \o SentOf(z, h2)
        BY <3>1, <4>1, <4>2, Zenon
      <4> QED BY <4>2, <4>3, <4>4, <4>5
    <3>4. Min(z) \in z
      <4> HIDE DEF z
      <4> QED BY <1>6, <2>5, MinOfUids
    <3>5. l2.pkt[Min(z)] = s.pkt[Min(z)]
      BY <1>6, <1>7, <1>17, <2>1, <3>4
    <3>6. HandledLast(s, id) = Min(z)
      <4>1. Waiting(s, id) = {u}
        BY <1>6, <1>24
      <4> QED BY <2>5, <4>1 DEF HandledLast, u
    <3>7. l.dht = Taught(s.dht, id, a, s.id, s.pkt[Min(z)].srcAdd, f)
      BY <1>17, <2>1, <3>3, <3>5, TaughtAgain DEF w
    <3>8. l.queue = s.queue \ (Waiting(s, id) \cup z)
      BY <1>1, <1>6, <1>17, <1>24, <2>1, <3>3
    <3>9. h2 = [h EXCEPT ![u] = t.pkt[u]]
      <4>1. \A p : Routed(l2, p) = Routed(s, p)
        BY <1>19, RoutedSame
      <4>2. Waiting(l2, 0) = z
        BY <1>19, <2>2
      <4>3. ASSUME NEW v \in Uids PROVE h2[v] = IF v = u THEN t.pkt[u] ELSE h[v]
        <5>1. l2.pkt[v] = t.pkt[v]
          BY <1>17, <2>1
        <5>2. CASE v = u
          BY <1>6, <3>1, <4>2, <5>1, <5>2 DEF Headers
        <5>3. CASE v # u
          BY <1>6, <1>7, <1>24, <3>1, <4>1, <4>2, <5>1, <5>3 DEF Headers
        <5> QED BY <5>2, <5>3
      <4> QED BY <4>3 DEF Headers
    <3>10. SentOf({}, h2) = << >> /\ SentOf(z, h2) = SentOf(z, h)
      <4>1. \A v \in z : h2[v] = h[v]
        BY <1>6, <3>9 DEF Headers
      <4> HIDE DEF h2, h, z
      <4> QED BY <1>6, <4>1, SentOfSame, SentOfNone
    <3>11. l.out = s.out \o SentOf(z, h) \o SentOf(m, h)
      <4>1. Sequence(SentOf(z, h))
        BY <1>6, SentOfSends
      <4> HIDE DEF h2, h, z, m
      <4>2. s.out \o << >> = s.out
        BY <1>9, Together
      <4>3. Sequence(s.out \o SentOf(z, h))
        BY <1>9, <4>1, Together
      <4>4. (s.out \o SentOf(z, h)) \o << >> = s.out \o SentOf(z, h)
        BY <4>3, Together
      <4> QED BY <1>17, <2>1, <2>3, <3>3, <3>10, <4>2, <4>4
    <3>12. l.pkt = [h EXCEPT ![u] = t.pkt[u]] /\ IsState(l) /\ SameNode(s, l)
      BY <1>19, <3>3, <3>9 DEF SameNode
    <3> HIDE DEF h, z, m, h2
    <3> QED BY <3>6, <3>7, <3>8, <3>11, <3>12 DEF LeavesOldest, l, t, u, h, z, m
  <2> QED BY <2>4, <2>5
<1> QED BY <1>23, <1>24

\* The oldest packet is older than the others.
LEMMA OldestIsOlder ==
  ASSUME NEW Q \in SUBSET Uids, Q # {}
  PROVE  Min(Q) \in Q /\ \A v \in Q \ {Min(Q)} : Min(Q) < v
<1>1. Q \in SUBSET Nat
  BY DEF Uids
<1>2. Min(Q) \in Q /\ \A v \in Q : Min(Q) <= v
  BY <1>1, LeastNatural DEF Min
<1>3. ASSUME NEW v \in Q, v # Min(Q) PROVE Min(Q) < v
  <2>1. v \in Nat /\ Min(Q) \in Nat /\ Min(Q) <= v
    BY <1>1, <1>2
  <2> HIDE DEF Min
  <2> QED BY <1>3, <2>1
<1> QED BY <1>2, <1>3

\* What is sent after a sequence and before its end is sent once.
LEMMA AppendAfter ==
  ASSUME NEW p, NEW q, NEW x, Sequence(p), Sequence(q)
  PROVE  Append(p \o q, x) = p \o Append(q, x)
<1>1. PICK A, B : p \in Seq(A) /\ q \in Seq(B)
  BY DEF Sequence
<1> DEFINE T == A \cup B \cup {x}
<1>2. p \in Seq(T) /\ q \in Seq(T) /\ x \in T
  BY <1>1
<1> HIDE DEF T
<1>3. p \o q \in Seq(T) /\ << x >> \in Seq(T)
  BY <1>2
<1>4. Append(q, x) = q \o << x >> /\ Append(p \o q, x) = (p \o q) \o << x >>
  BY <1>2, <1>3, AppendIsConcat
<1> QED BY <1>2, <1>3, <1>4, ConcatAssociative

\* addEntry is its entry and, if packets wait for id, forward of the oldest: the
\* calls of addEntry that forward makes send all the others.
LEMMA AddEntryUnfolds ==
  ASSUME NEW s, Passed(s), NEW id \in Ids, NEW a \in Addrs, NEW e \in Nat
  PROVE  AddEntryUntil(s, id, a, e) = AddEntryTurn(s, id, a, e)
<1> DEFINE w == [s EXCEPT !.dht = DHTAddEntry(@, id, a, e)]
           u == Min(Waiting(s, id))
           t == Handed(s, id, a, e)
           h == Headers(s, id, a)
           own == s.pkt[u].srcAdd
           l == TaughtByOldest(s, id, a, e)
           z == ForZero(s, id)
           m == Waiting(s, id) \ {u}
           k == AddEntryUntil(s, id, a, e)
           p == t.pkt[u]
           f == Forward(t, u)
           b == [l EXCEPT !.pkt[u] = h[u]]
<1>1. CASE Waiting(s, id) = {}
  BY <1>1 DEF AddEntryUntil, AddEntryTurn
<1>2. CASE Waiting(s, id) # {}
  <2>1. /\ u \in s.queue /\ s.pkt[u].dst = id
        /\ IsState(t) /\ SameNode(s, t) /\ t.out = s.out
        /\ t.pkt = [s.pkt EXCEPT ![u] = [s.pkt[u] EXCEPT !.dstAdd = a]]
    BY <1>2, TakenLeaves
  <2>2. /\ IsState(l) /\ SameNode(s, l)
        /\ l.dht = Taught(s.dht, id, a, s.id, s.pkt[HandledLast(s, id)].srcAdd,
                          s.now + ASPU_DHT_ENTRY_TIMEOUT)
        /\ l.queue = s.queue \ (Waiting(s, id) \cup z)
        /\ l.pkt = [h EXCEPT ![u] = t.pkt[u]]
        /\ l.out = s.out \o SentOf(z, h) \o SentOf(m, h)
    <3>1. LeavesOldest(s, id, a, e)
      BY <1>2, OldestTeaches
    <3> QED BY <3>1, Zenon DEF LeavesOldest
  <2>3. /\ IsState(k) /\ SameNode(s, k)
        /\ k.dht = Taught(s.dht, id, a, s.id, s.pkt[HandledLast(s, id)].srcAdd,
                          s.now + ASPU_DHT_ENTRY_TIMEOUT)
        /\ k.queue = s.queue \ (Waiting(s, id) \cup z)
        /\ k.pkt = h
        /\ k.out = s.out \o SentOf(z, h) \o SentOf(Waiting(s, id), h)
    BY <1>2, UntilSome DEF Passed
  <2>4. /\ s.queue \in SUBSET Uids /\ s.pkt \in [Uids -> Header] /\ id \in Nat
        /\ Waiting(s, id) \in SUBSET Uids /\ z \in SUBSET Uids
        /\ m \in SUBSET Uids /\ Waiting(s, id) = m \cup {u} /\ u \in Waiting(s, id)
        /\ u \in Uids /\ \A v \in m : u < v
    <3>1. s.queue \in SUBSET Uids /\ s.pkt \in [Uids -> Header] /\ id \in Nat
      BY NodeAssumption DEF Passed, NodeType
    <3>2. Waiting(s, id) \in SUBSET Uids /\ z \in SUBSET Uids
      BY <3>1 DEF Waiting, ForZero
    <3>3. u \in Waiting(s, id) /\ \A v \in m : u < v
      BY <1>2, <3>2, OldestIsOlder
    <3> HIDE DEF u, z
    <3> QED BY <3>1, <3>2, <3>3
  <2>5. Fresh(s, s.pkt[u]) /\ s.pkt[u] \in Header
    BY <2>1, <2>4 DEF Passed
  <2> HIDE DEF u
  <2>6. /\ p = [s.pkt[u] EXCEPT !.dstAdd = a]
        /\ p.dst = id /\ p.dstAdd = a /\ p.src = s.id /\ p.srcAdd = own
        /\ p.forId = 0 /\ p.forAdd = ZeroAdd /\ p.up = FALSE
    BY <2>1, <2>4, <2>5 DEF Fresh, Header
  <2>7. LearnHeader(t, p) = l
    BY <2>6 DEF LearnHeader, TaughtByOldest, u
  <2>8. Routed(l, p) = h[u]
    <3>1. Routed(l, p) = Routed(s, p)
      BY <2>2, RoutedSame
    <3>2. h[u] = Routed(s, [s.pkt[u] EXCEPT !.dstAdd = a])
      BY <2>4 DEF Headers
    <3> QED BY <2>6, <3>1, <3>2
  <2>9. id # IP_BROADCAST
    BY <2>4 DEF IP_BROADCAST
  <2>10. f = IF h[u].fate = "mac" THEN Emit(b, Data(u, h[u])) ELSE b
    <3> HIDE DEF p, l, h, b
    <3> QED BY <2>6, <2>7, <2>8, <2>9, Zenon DEF Forward, p, b
  <2>11. AddEntryTurn(s, id, a, e) = f
    BY <1>2 DEF AddEntryTurn, Handed, Written, u
  <2>12. /\ IsState(b) /\ DOMAIN b = Fields /\ SameNode(s, b)
         /\ b.dht = l.dht /\ b.queue = l.queue /\ b.out = l.out /\ b.pkt = h
    <3> HIDE DEF l
    <3>1. DOMAIN l = Fields
      BY <2>2 DEF IsState
    <3>2. [l.pkt EXCEPT ![u] = h[u]] = h
      <4>1. h = [v \in Uids |-> h[v]]
        BY DEF Headers
      <4> HIDE DEF h
      <4> QED BY <2>2, <2>4, <4>1
    <3>3. b = [l EXCEPT !.pkt = h]
      BY <3>2
    <3> HIDE DEF h, b
    <3> QED BY <2>2, <3>1, <3>3 DEF IsState, SameNode, Fields
  <2>13. /\ IsState(f) /\ SameNode(s, f)
         /\ f.dht = l.dht /\ f.queue = l.queue /\ f.pkt = h
         /\ f.out = IF h[u].fate = "mac" THEN Append(l.out, Data(u, h[u])) ELSE l.out
    <3> HIDE DEF l, h, b, f
    <3> QED BY <2>10, <2>12 DEF Emit, IsState, SameNode, Fields
  <2>14. f.out = k.out
    <3>1. Sequence(s.out) /\ Sequence(SentOf(z, h)) /\ Sequence(SentOf(m, h))
      BY <2>4, SentOfSends DEF Passed
    <3>2. SentOf(Waiting(s, id), h) = IF h[u].fate = "mac" THEN Append(SentOf(m, h), Data(u, h[u]))
                                      ELSE SentOf(m, h)
      <4> HIDE DEF h, m
      <4>1. SentOf(m \cup {u}, h) = IF h[u].fate = "mac" THEN Append(SentOf(m, h), Data(u, h[u]))
                                    ELSE SentOf(m, h)
        BY <2>4, SentOfLast
      <4> QED BY <2>4, <4>1
    <3> HIDE DEF l, h, f, k, z, m
    <3>3. Sequence(s.out \o SentOf(z, h))
      BY <3>1, Together
    <3>4. Append((s.out \o SentOf(z, h)) \o SentOf(m, h), Data(u, h[u]))
            = (s.out \o SentOf(z, h)) \o Append(SentOf(m, h), Data(u, h[u]))
      <4> DEFINE x == s.out \o SentOf(z, h)
                 y == SentOf(m, h)
                 d == Data(u, h[u])
      <4>1. Sequence(x) /\ Sequence(y)
        BY <3>1, <3>3
      <4> HIDE DEF x, y, d
      <4>2. Append(x \o y, d) = x \o Append(y, d)
        BY <4>1, AppendAfter
      <4> QED BY <4>2 DEF x, y, d
    <3> QED BY <2>2, <2>3, <2>13, <3>2, <3>4
  <2> HIDE DEF f, k, l, h, z
  <2>15. SameNode(k, f)
    BY <2>3, <2>13 DEF SameNode
  <2>16. k = f
    BY <2>2, <2>3, <2>13, <2>14, <2>15, SameState
  <2> QED BY <2>11, <2>16 DEF k
<1> QED BY <1>1, <1>2

\* The header of a packet that does not wait makes no difference to addEntry.
Put(s, u, q) == [s EXCEPT !.pkt[u] = q]

\* What a new header for a packet that does not wait leaves as it was.
LEMMA PutFields ==
  ASSUME NEW s, Passed(s), NEW u \in Uids, u \notin s.queue, NEW q \in Header
  PROVE  LET t == Put(s, u, q)
         IN /\ IsState(t) /\ SameNode(s, t) /\ t.dht = s.dht /\ t.queue = s.queue
            /\ t.out = s.out /\ t.pkt = [s.pkt EXCEPT ![u] = q]
            /\ \A x : Waiting(t, x) = Waiting(s, x)
            /\ Passed(t)
<1> DEFINE t == Put(s, u, q)
<1>1. DOMAIN s = Fields /\ s.queue \in SUBSET Uids /\ s.pkt \in [Uids -> Header]
  BY DEF Passed, NodeType, Fields
<1>2. t = [s EXCEPT !.pkt = [s.pkt EXCEPT ![u] = q]]
  BY DEF Put
<1> HIDE DEF t
<1>3. IsState(t) /\ DOMAIN t = Fields
  BY <1>1, <1>2 DEF IsState
<1>4. /\ SameNode(s, t) /\ t.dht = s.dht /\ t.queue = s.queue
      /\ t.out = s.out /\ t.pkt = [s.pkt EXCEPT ![u] = q]
  BY <1>1, <1>2 DEF SameNode, Fields
<1>5. \A v \in s.queue : t.pkt[v] = s.pkt[v]
  BY <1>1, <1>4
<1>6. \A x : Waiting(t, x) = Waiting(s, x)
  BY <1>4, <1>5 DEF Waiting
<1>7. t.pkt \in [Uids -> Header]
  BY <1>1, <1>4
<1>8. NodeType(t)
  BY <1>3, <1>4, <1>7 DEF Passed, NodeType, SameNode, Fields
<1>9. Passed(t)
  BY <1>4, <1>5, <1>8 DEF Passed, Fresh, SameNode
<1> QED BY <1>3, <1>4, <1>6, <1>9 DEF t

\* addEntry does the same before such a header is written and after.
LEMMA PutAside ==
  ASSUME NEW s, Passed(s), NEW u \in Uids, u \notin s.queue, NEW q \in Header,
         NEW id \in Ids, NEW a \in Addrs, NEW e \in Nat
  PROVE  AddEntryUntil(Put(s, u, q), id, a, e) = Put(AddEntryUntil(s, id, a, e), u, q)
<1> DEFINE t == Put(s, u, q)
           k == AddEntryUntil(s, id, a, e)
           l == AddEntryUntil(t, id, a, e)
           r == Put(k, u, q)
<1>1. /\ IsState(t) /\ SameNode(s, t) /\ t.dht = s.dht /\ t.queue = s.queue
      /\ t.out = s.out /\ t.pkt = [s.pkt EXCEPT ![u] = q]
      /\ \A x : Waiting(t, x) = Waiting(s, x)
      /\ Passed(t) /\ NodeType(t)
  BY PutFields DEF Passed
<1>2. /\ Passed(k) /\ IsState(k) /\ SameNode(s, k) /\ k.queue \subseteq s.queue
      /\ k.pkt[u] = s.pkt[u]
  BY CallPasses
<1>3. /\ IsState(r) /\ SameNode(k, r) /\ r.dht = k.dht /\ r.queue = k.queue
      /\ r.out = k.out /\ r.pkt = [k.pkt EXCEPT ![u] = q]
  <2> HIDE DEF k
  <2> QED BY <1>2, PutFields
<1>4. /\ NodeType(s) /\ s.queue \in SUBSET Uids /\ s.pkt \in [Uids -> Header]
      /\ Waiting(s, id) \in SUBSET s.queue /\ ForZero(s, id) \in SUBSET s.queue
  BY DEF Passed, NodeType, Waiting, ForZero
<1>5. ForZero(t, id) = ForZero(s, id)
  <2> HIDE DEF t
  <2> QED BY <1>1 DEF ForZero
<1> HIDE DEF t
<1>6. SameNode(r, l) /\ IsState(l)
  <2>1. SameNode(t, l) /\ IsState(l)
    BY <1>1, CallPasses
  <2> HIDE DEF k, l, r
  <2> QED BY <1>1, <1>2, <1>3, <2>1 DEF SameNode
<1>7. CASE Waiting(s, id) = {}
  <2>1. k.dht = DHTAddEntry(s.dht, id, a, e) /\ k.queue = s.queue /\ k.pkt = s.pkt /\ k.out = s.out
    BY <1>4, <1>7, UntilNone
  <2>2. l.dht = DHTAddEntry(t.dht, id, a, e) /\ l.queue = t.queue /\ l.pkt = t.pkt /\ l.out = t.out
    BY <1>1, <1>7, UntilNone
  <2> HIDE DEF k, l, r
  <2> QED BY <1>1, <1>3, <1>6, <2>1, <2>2, SameState DEF k, l, r, t
<1>8. CASE Waiting(s, id) # {}
  <2> DEFINE h == Headers(s, id, a)
             g == Headers(t, id, a)
             f == s.now + ASPU_DHT_ENTRY_TIMEOUT
  <2>1. /\ k.dht = Taught(s.dht, id, a, s.id, s.pkt[HandledLast(s, id)].srcAdd, f)
        /\ k.queue = s.queue \ (Waiting(s, id) \cup ForZero(s, id))
        /\ k.pkt = h
        /\ k.out = s.out \o SentOf(ForZero(s, id), h) \o SentOf(Waiting(s, id), h)
    BY <1>4, <1>8, UntilSome
  <2>2. /\ l.dht = Taught(t.dht, id, a, t.id, t.pkt[HandledLast(t, id)].srcAdd,
                          t.now + ASPU_DHT_ENTRY_TIMEOUT)
        /\ l.queue = t.queue \ (Waiting(t, id) \cup ForZero(t, id))
        /\ l.pkt = g
        /\ l.out = t.out \o SentOf(ForZero(t, id), g) \o SentOf(Waiting(t, id), g)
    <3>1. Waiting(t, id) # {}
      BY <1>1, <1>8
    <3>2. NodeType(t)
      BY <1>1
    <3> QED BY <3>1, <3>2, UntilSome, ZenonT(60)
  <2>3. HandledLast(t, id) = HandledLast(s, id)
    BY <1>1, <1>5 DEF HandledLast
  <2>4. HandledLast(s, id) \in s.queue
    <3>1. Min(Waiting(s, id)) \in Waiting(s, id)
      BY <1>4, <1>8, MinOfUids
    <3>2. ForZero(s, id) # {} => Min(ForZero(s, id)) \in ForZero(s, id)
      BY <1>4, MinOfUids
    <3> QED BY <1>4, <3>1, <3>2 DEF HandledLast
  <2>5. t.pkt[HandledLast(t, id)] = s.pkt[HandledLast(s, id)]
    <3> DEFINE v == HandledLast(s, id)
    <3> HIDE DEF v
    <3>1. v \in s.queue /\ HandledLast(t, id) = v
      BY <2>3, <2>4 DEF v
    <3>2. t.pkt[v] = s.pkt[v]
      BY <1>1, <1>4, <3>1
    <3> QED BY <3>1, <3>2 DEF v
  <2>6. g = [h EXCEPT ![u] = q]
    <3>1. \A p : Routed(t, p) = Routed(s, p)
      BY <1>1, RoutedSame
    <3>2. ASSUME NEW v \in Uids PROVE g[v] = IF v = u THEN q ELSE h[v]
      BY <1>1, <1>4, <1>5, <3>1 DEF Headers
    <3> QED BY <3>2 DEF Headers
  <2>7. /\ SentOf(ForZero(s, id), g) = SentOf(ForZero(s, id), h)
        /\ SentOf(Waiting(s, id), g) = SentOf(Waiting(s, id), h)
    <3>1. \A v \in s.queue : g[v] = h[v]
      BY <1>4, <2>6 DEF Headers
    <3> HIDE DEF g, h
    <3> QED BY <1>4, <3>1, SentOfSame
  <2> HIDE DEF k, l, r, g, h
  <2>8. l.dht = r.dht
    BY <1>1, <1>3, <2>1, <2>2, <2>5 DEF SameNode
  <2>9. l.queue = r.queue /\ l.pkt = r.pkt
    BY <1>1, <1>3, <1>5, <2>1, <2>2, <2>6
  <2>10. l.out = r.out
    BY <1>1, <1>3, <1>5, <2>1, <2>2, <2>7
  <2> QED BY <1>3, <1>6, <2>8, <2>9, <2>10, SameState DEF k, l, r, t
<1> QED BY <1>7, <1>8

\* forward is as it is written, of a packet that is not in the queue: it does not
\* matter that the header says up while the calls of addEntry run.
LEMMA ForwardUnfolds ==
  ASSUME NEW s, Passed(s), NEW u \in Uids, u \notin s.queue,
         s.pkt[u].dst # IP_BROADCAST => s.pkt[u].dstAdd \in Addrs
  PROVE  Forward(s, u) = ForwardTurn(s, u)
<1> DEFINE p == s.pkt[u]
           q == [p EXCEPT !.up = FALSE]
           d == [s EXCEPT !.pkt[u].up = FALSE]
           l1 == AddEntry(s, p.dst, p.dstAdd)
           l2 == AddEntry(l1, p.src, p.srcAdd)
           l3 == AddEntry(l2, p.forId, p.forAdd)
           d1 == AddEntry(d, p.dst, p.dstAdd)
           d2 == AddEntry(d1, p.src, p.srcAdd)
           d3 == AddEntry(d2, p.forId, p.forAdd)
           new == Routed(l3, p)
<1>1. p \in Header /\ DOMAIN s = Fields /\ s.pkt \in [Uids -> Header]
  BY DEF Passed, NodeType, Fields
<1>2. q \in Header
  BY <1>1 DEF Header
<1>3. d = Put(s, u, q)
  BY DEF Put
<1>4. CASE p.up /\ p.dst \in {s.id, IP_BROADCAST}
  BY <1>4 DEF Forward, ForwardTurn
<1>5. CASE ~(p.up /\ p.dst \in {s.id, IP_BROADCAST}) /\ p.dst = IP_BROADCAST
  <2>1. [d EXCEPT !.pkt[u].fate = "DROP_IP_BROADCAST"]
          = [s EXCEPT !.pkt[u] = [p EXCEPT !.up = FALSE, !.fate = "DROP_IP_BROADCAST"]]
    <3>1. d = [s EXCEPT !.pkt = [s.pkt EXCEPT ![u] = q]]
      OBVIOUS
    <3>2. d.pkt = [s.pkt EXCEPT ![u] = q] /\ d.pkt[u] = q
      BY <1>1 DEF Fields
    <3> DEFINE x == [q EXCEPT !.fate = "DROP_IP_BROADCAST"]
    <3>3. x = [p EXCEPT !.up = FALSE, !.fate = "DROP_IP_BROADCAST"]
      OBVIOUS
    <3> HIDE DEF q
    <3>4. [d.pkt EXCEPT ![u] = x] = [s.pkt EXCEPT ![u] = x]
      BY <1>1, <3>2
    <3>5. [d EXCEPT !.pkt[u].fate = "DROP_IP_BROADCAST"] = [d EXCEPT !.pkt = [d.pkt EXCEPT ![u] = x]]
      BY <3>2
    <3>6. [d EXCEPT !.pkt = [s.pkt EXCEPT ![u] = x]] = [s EXCEPT !.pkt = [s.pkt EXCEPT ![u] = x]]
      BY <1>1, <3>1 DEF Fields
    <3> QED BY <3>3, <3>4, <3>5, <3>6
  <2> QED BY <1>5, <2>1 DEF Forward, ForwardTurn
<1>6. CASE p.dst # IP_BROADCAST /\ ~(p.up /\ p.dst \in {s.id, IP_BROADCAST})
  <2>1. /\ p.dst \in Ids /\ p.dstAdd \in Addrs /\ p.src \in Ids /\ p.srcAdd \in Addrs
        /\ p.forId \in Ids /\ p.forAdd \in Addrs
    BY <1>1, <1>6 DEF Header
  <2> HIDE DEF p, q, d, l1, l2, l3, d1, d2, d3, new
  <2>2. \A t : Passed(t) => t.now + ASPU_DHT_ENTRY_TIMEOUT \in Nat
    BY NodeAssumption DEF Passed, NodeType
  <2>3. ASSUME NEW t, Passed(t), u \notin t.queue, NEW id \in Ids, NEW a \in Addrs
        PROVE  /\ AddEntry(Put(t, u, q), id, a) = Put(AddEntry(t, id, a), u, q)
               /\ Passed(AddEntry(t, id, a)) /\ u \notin AddEntry(t, id, a).queue
               /\ AddEntry(t, id, a).pkt[u] = t.pkt[u]
    <3> DEFINE e == t.now + ASPU_DHT_ENTRY_TIMEOUT
    <3>1. e \in Nat
      BY <2>2, <2>3
    <3>2. Put(t, u, q).now = t.now
      BY <1>2, <2>3, PutFields DEF SameNode
    <3>3. AddEntry(t, id, a) = AddEntryUntil(t, id, a, e)
      BY DEF AddEntry
    <3>4. AddEntry(Put(t, u, q), id, a) = AddEntryUntil(Put(t, u, q), id, a, e)
      BY <3>2 DEF AddEntry
    <3> HIDE DEF e
    <3>5. AddEntryUntil(Put(t, u, q), id, a, e) = Put(AddEntryUntil(t, id, a, e), u, q)
      BY <1>2, <2>3, <3>1, PutAside
    <3>6. /\ Passed(AddEntryUntil(t, id, a, e)) /\ u \notin AddEntryUntil(t, id, a, e).queue
          /\ AddEntryUntil(t, id, a, e).pkt[u] = t.pkt[u]
      BY <2>3, <3>1, CallPasses
    <3> QED BY <3>3, <3>4, <3>5, <3>6
  <2>4. d1 = Put(l1, u, q) /\ Passed(l1) /\ u \notin l1.queue /\ l1.pkt[u] = p
    BY <1>3, <2>1, <2>3 DEF d1, l1, p
  <2>5. d2 = Put(l2, u, q) /\ Passed(l2) /\ u \notin l2.queue /\ l2.pkt[u] = p
    <3>1. d2 = AddEntry(Put(l1, u, q), p.src, p.srcAdd) /\ l2 = AddEntry(l1, p.src, p.srcAdd)
      BY <2>4 DEF d2, l2
    <3>2. /\ AddEntry(Put(l1, u, q), p.src, p.srcAdd) = Put(AddEntry(l1, p.src, p.srcAdd), u, q)
          /\ Passed(AddEntry(l1, p.src, p.srcAdd)) /\ u \notin AddEntry(l1, p.src, p.srcAdd).queue
          /\ AddEntry(l1, p.src, p.srcAdd).pkt[u] = l1.pkt[u]
      <4>1. /\ Passed(l1) /\ u \notin l1.queue /\ p.src \in Ids /\ p.srcAdd \in Addrs
        BY <2>1, <2>4
      <4> QED BY <2>3, <4>1, Zenon
    <3> QED BY <2>4, <3>1, <3>2, Zenon
  <2>6. d3 = Put(l3, u, q) /\ Passed(l3) /\ u \notin l3.queue /\ l3.pkt[u] = p
    <3>1. d3 = AddEntry(Put(l2, u, q), p.forId, p.forAdd) /\ l3 = AddEntry(l2, p.forId, p.forAdd)
      BY <2>5 DEF d3, l3
    <3>2. /\ AddEntry(Put(l2, u, q), p.forId, p.forAdd) = Put(AddEntry(l2, p.forId, p.forAdd), u, q)
          /\ Passed(AddEntry(l2, p.forId, p.forAdd)) /\ u \notin AddEntry(l2, p.forId, p.forAdd).queue
          /\ AddEntry(l2, p.forId, p.forAdd).pkt[u] = l2.pkt[u]
      <4>1. /\ Passed(l2) /\ u \notin l2.queue /\ p.forId \in Ids /\ p.forAdd \in Addrs
        BY <2>1, <2>5
      <4> QED BY <2>3, <4>1, Zenon
    <3> QED BY <2>5, <3>1, <3>2, Zenon
  <2>7. /\ SameNode(l3, d3) /\ d3.pkt = [l3.pkt EXCEPT ![u] = q]
        /\ DOMAIN l3 = Fields /\ l3.pkt \in [Uids -> Header]
    BY <1>2, <2>6, PutFields DEF Passed, NodeType, Fields
  <2>8. d3.pkt[u] = q
    BY <2>7
  <2>9. Routed(d3, d3.pkt[u]) = new
    <3>1. Routed(d3, q) = Routed(l3, q)
      BY <2>7, RoutedSame
    <3>2. Routed(l3, q) = Routed(l3, p)
      <4>1. q.dstAdd = p.dstAdd
        BY <1>1 DEF q, Header
      <4>2. q = [p EXCEPT !.up = FALSE]
        BY DEF q
      <4>3. ASSUME NEW fate
            PROVE  [q EXCEPT !.up = FALSE, !.fate = fate] = [p EXCEPT !.up = FALSE, !.fate = fate]
        BY <4>2
      <4>4. ASSUME NEW hop, NEW x, NEW b
            PROVE  [q EXCEPT !.up = FALSE, !.fate = "mac", !.nextHop = hop, !.forId = x, !.forAdd = b]
                     = [p EXCEPT !.up = FALSE, !.fate = "mac", !.nextHop = hop, !.forId = x, !.forAdd = b]
        BY <4>2
      <4> QED BY <4>1, <4>3, <4>4 DEF Routed
    <3> QED BY <2>8, <3>1, <3>2 DEF new
  <2>10. [d3 EXCEPT !.pkt[u] = new] = [l3 EXCEPT !.pkt[u] = new]
    <3>1. d3 = [l3 EXCEPT !.pkt = [l3.pkt EXCEPT ![u] = q]]
      BY <2>6 DEF Put
    <3>2. [d3.pkt EXCEPT ![u] = new] = [l3.pkt EXCEPT ![u] = new]
      BY <2>7
    <3>3. [d3 EXCEPT !.pkt = [l3.pkt EXCEPT ![u] = new]] = [l3 EXCEPT !.pkt = [l3.pkt EXCEPT ![u] = new]]
      BY <2>7, <3>1 DEF Fields
    <3> QED BY <3>2, <3>3
  <2>11. Forward(s, u) = IF new.fate = "mac" THEN Emit([l3 EXCEPT !.pkt[u] = new], Data(u, new))
                         ELSE [l3 EXCEPT !.pkt[u] = new]
    BY <1>6, Zenon DEF Forward, LearnHeader, new, l3, l2, l1, p
  <2>12. ForwardTurn(s, u) =
           IF new.fate = "mac" THEN Emit([d3 EXCEPT !.pkt[u] = new], Data(u, new))
           ELSE [d3 EXCEPT !.pkt[u] = new]
    BY <1>6, <2>9, Zenon DEF ForwardTurn, d3, d2, d1, d, p
  <2> QED BY <2>10, <2>11, <2>12
<1> QED BY <1>4, <1>5, <1>6

\* The agent at the end of an event.
LEMMA AgentPasses == AgentInv => Passed(S)
<1> SUFFICES ASSUME AgentInv PROVE Passed(S)
  OBVIOUS
<1>1. S.out = << >>
  BY DEF S
<1>2. Sequence(<< >>)
  BY DEF Sequence
<1> QED BY <1>1, <1>2 DEF AgentInv, NodeInv, QueueInv, Passed

\* addEntry and forward, which call each other (src/aspu.cc:1697, 393), do what
\* their closed forms say, in every state of every agent: the closed forms satisfy
\* the two equations that the code is, and after the first turn of the loop no
\* packet for the identifier is left.
THEOREM CallsAlwaysUnfold == Spec => []CallsUnfold
<1>1. AgentInv => CallsUnfold
  <2> SUFFICES ASSUME AgentInv PROVE CallsUnfold
    OBVIOUS
  <2>1. Passed(S)
    BY AgentPasses
  <2> DEFINE s == S
  <2>2. /\ s.now \in Nat /\ s.now + ASPU_DHT_ENTRY_TIMEOUT \in Nat /\ s.pkt = pkt
        /\ s.queue = {u \in Uids : s.pkt[u].fate = "queued"}
        /\ \A u \in Uids : s.pkt[u].fate = "mac" => s.pkt[u].dstAdd \in Addrs
    BY NodeAssumption DEF AgentInv, NodeInv, NodeType, QueueInv, S
  <2> HIDE DEF s
  <2>3. ASSUME NEW id \in Ids, NEW a \in Addrs,
               NEW e \in {s.now, s.now + ASPU_DHT_ENTRY_TIMEOUT}
        PROVE  /\ AddEntryUntil(s, id, a, e) = AddEntryTurn(s, id, a, e)
               /\ Waiting(AddEntryUntil(s, id, a, e), id) = {}
    <3>1. e \in Nat /\ Passed(s)
      BY <2>1, <2>2 DEF s
    <3> QED BY <3>1, AddEntryUnfolds, CallPasses
  <2>4. ASSUME NEW u \in Uids, pkt[u].fate = "mac" PROVE Forward(s, u) = ForwardTurn(s, u)
    <3>1. u \notin s.queue /\ s.pkt[u].dstAdd \in Addrs /\ Passed(s)
      BY <2>1, <2>2, <2>4 DEF s
    <3> QED BY <3>1, ForwardUnfolds
  <2> QED BY <2>3, <2>4, Zenon DEF CallsUnfold, s
<1> QED BY <1>1, AgentInvariant, PTL

\* A state that calls may be made in, when messages of M have been sent.
States(M) ==
  {s \in [id : Ids, now : Nat, address : Addrs,
          dht : UNION {[d -> DHT_Entry] : d \in SUBSET Ids},
          queue : SUBSET Uids, pkt : [Uids -> Header], table : SUBSET RoutingEntry,
          out : Seq(M)] : Passed(s)}

\* The messages of forward.
AllData == {Data(u, p) : u \in Uids, p \in Header}

\* The packets that forward is called with.
InHand(s, u) ==
  u \notin s.queue /\ (s.pkt[u].dst # IP_BROADCAST => s.pkt[u].dstAdd \in Addrs)

\* forward, when addEntry is the function of that name.
ForwardBy(addEntry, s, u) ==
  LET p == s.pkt[u]
      fresh == s.now + ASPU_DHT_ENTRY_TIMEOUT
      down == [s EXCEPT !.pkt[u].up = FALSE]
      l1 == addEntry[<< down, p.dst, p.dstAdd, fresh >>]
      l2 == addEntry[<< l1, p.src, p.srcAdd, fresh >>]
      l3 == addEntry[<< l2, p.forId, p.forAdd, fresh >>]
      routed == Routed(l3, l3.pkt[u])
      after == [l3 EXCEPT !.pkt[u] = routed]
  IN IF p.up /\ p.dst \in {s.id, IP_BROADCAST} THEN [s EXCEPT !.pkt[u].fate = "dmux"]
     ELSE IF p.dst = IP_BROADCAST THEN [down EXCEPT !.pkt[u].fate = "DROP_IP_BROADCAST"]
     ELSE IF routed.fate = "mac" THEN Emit(after, Data(u, routed)) ELSE after

\* addEntry, the loop in it, and forward: three functions that call each other as
\* the code does.
CallEachOther(M, addEntry, drain, forward) ==
  /\ \A s \in States(M), id \in Ids, a \in Addrs, e \in Nat :
       addEntry[<< s, id, a, e >>] = drain[<< Written(s, id, a, e), id >>]
  /\ \A s \in States(M), id \in Ids : id \in DOMAIN s.dht =>
       drain[<< s, id >>] = IF Waiting(s, id) = {} THEN s
                      ELSE drain[<< forward[<< Taken(s, id), Min(Waiting(s, id)) >>], id >>]
  /\ \A s \in States(M), u \in Uids : InHand(s, u) => forward[<< s, u >>] = ForwardBy(addEntry, s, u)

\* What it takes to be such a state.
LEMMA StatesAre ==
  ASSUME NEW M, NEW s, IsState(s), Passed(s), s.out \in Seq(M)
  PROVE  s \in States(M)
<1> DEFINE R == [id : Ids, now : Nat, address : Addrs,
                 dht : UNION {[d -> DHT_Entry] : d \in SUBSET Ids},
                 queue : SUBSET Uids, pkt : [Uids -> Header], table : SUBSET RoutingEntry,
                 out : Seq(M)]
<1>1. s.dht \in UNION {[d -> DHT_Entry] : d \in SUBSET Ids}
  BY DEF Passed, NodeType
<1>2. s = [id |-> s.id, now |-> s.now, address |-> s.address, dht |-> s.dht, queue |-> s.queue,
           pkt |-> s.pkt, table |-> s.table, out |-> s.out]
  BY DEF IsState, Fields
<1>3. s \in R
  BY <1>1, <1>2 DEF Passed, NodeType
<1> QED BY <1>3 DEF States

\* And what it means.
LEMMA InStates ==
  ASSUME NEW M, NEW s \in States(M)
  PROVE  IsState(s) /\ Passed(s) /\ s.out \in Seq(M) /\ NodeType(s)
<1>1. Passed(s) /\ s.out \in Seq(M)
  BY DEF States
<1>2. IsState(s)
  BY DEF States, IsState, Fields
<1> QED BY <1>1, <1>2 DEF Passed

\* addEntry leads from state to state.
LEMMA CallsStayInStates ==
  ASSUME NEW M, AllData \subseteq M, NEW s \in States(M),
         NEW id \in Ids, NEW a \in Addrs, NEW e \in Nat
  PROVE  AddEntryUntil(s, id, a, e) \in States(M)
<1> DEFINE t == AddEntryUntil(s, id, a, e)
           h == Headers(s, id, a)
           x == SentOf(ForZero(s, id), h)
           y == SentOf(Waiting(s, id), h)
<1>1. Passed(s) /\ s.out \in Seq(M) /\ NodeType(s) /\ s.queue \in SUBSET Uids
  BY InStates DEF NodeType
<1>2. Passed(t) /\ IsState(t) /\ t.pkt \in [Uids -> Header]
  <2>1. Passed(t) /\ IsState(t)
    BY <1>1, CallPasses
  <2> HIDE DEF t
  <2> QED BY <2>1 DEF Passed, NodeType
<1>3. CASE Waiting(s, id) = {}
  <2>1. t.out = s.out
    BY <1>1, <1>3, UntilNone
  <2> HIDE DEF t
  <2> QED BY <1>1, <1>2, <2>1, StatesAre DEF t
<1>4. CASE Waiting(s, id) # {}
  <2>1. t.pkt = h /\ t.out = s.out \o x \o y
    BY <1>1, <1>4, UntilSome
  <2>2. ASSUME NEW P \in SUBSET Uids PROVE SentOf(P, h) \in Seq(M)
    <3> DEFINE N == {v \in P : h[v].fate = "mac"}
               o == NewestFirst(N)
    <3>1. o \in Seq(N)
      BY NewestFirstSorts
    <3>2. SentOf(P, h) = [i \in DOMAIN o |-> Data(o[i], h[o[i]])]
      BY DEF SentOf
    <3> HIDE DEF o, h, t
    <3>3. \A i \in DOMAIN o : Data(o[i], h[o[i]]) \in M
      BY <1>2, <2>1, <3>1 DEF AllData
    <3>4. DOMAIN o = 1 .. Len(o) /\ Len(o) \in Nat
      BY <3>1
    <3> QED BY <3>2, <3>3, <3>4
  <2>3. x \in Seq(M) /\ y \in Seq(M)
    BY <1>1, <2>2 DEF Waiting, ForZero
  <2> HIDE DEF t, x, y
  <2>4. t.out \in Seq(M)
    BY <1>1, <2>1, <2>3
  <2> QED BY <1>2, <2>4, StatesAre DEF t
<1> QED BY <1>3, <1>4

\* addEntry does what AddEntryUntil says, for queues up to a length.
AgreesTo(M, addEntry, n) ==
  \A s \in States(M), id \in Ids, a \in Addrs, e \in Nat :
    Cardinality(s.queue) <= n => addEntry[<< s, id, a, e >>] = AddEntryUntil(s, id, a, e)

\* No call makes the queue longer.
LEMMA CallShortens ==
  ASSUME NEW M, AllData \subseteq M, NEW addEntry, NEW n \in Nat, AgreesTo(M, addEntry, n),
         NEW s \in States(M), Cardinality(s.queue) <= n, NEW u \in Uids, u \notin s.queue,
         NEW id \in Ids, NEW a \in Addrs
  PROVE  LET fresh == s.now + ASPU_DHT_ENTRY_TIMEOUT
             t == addEntry[<< s, id, a, fresh >>]
         IN /\ t = AddEntry(s, id, a) /\ t \in States(M) /\ Cardinality(t.queue) <= n
            /\ t.now = s.now /\ u \notin t.queue
<1> DEFINE fresh == s.now + ASPU_DHT_ENTRY_TIMEOUT
           t == AddEntryUntil(s, id, a, fresh)
<1>1. Passed(s) /\ s.queue \in SUBSET Uids /\ fresh \in Nat
  BY InStates, NodeAssumption DEF NodeType
<1> HIDE DEF fresh
<1>2. addEntry[<< s, id, a, fresh >>] = t
  BY <1>1 DEF AgreesTo
<1>3. t = AddEntry(s, id, a)
  BY DEF AddEntry, fresh
<1>4. t \in States(M)
  BY <1>1, CallsStayInStates
<1>5. t.queue \subseteq s.queue /\ t.now = s.now
  BY <1>1, CallPasses DEF SameNode
<1> HIDE DEF t
<1>6. Cardinality(t.queue) <= Cardinality(s.queue) /\ Cardinality(s.queue) \in Nat
  BY <1>1, <1>5, QueueFinite
<1>7. Cardinality(t.queue) \in Nat
  <2>1. t.queue \in SUBSET Uids
    BY <1>1, <1>5
  <2> QED BY <2>1, QueueFinite
<1>8. Cardinality(t.queue) <= n
  BY <1>6, <1>7
<1> QED BY <1>2, <1>3, <1>4, <1>5, <1>8 DEF fresh

\* forward does what Forward says when addEntry, on queues that are no longer,
\* does what AddEntryUntil says.
LEMMA ForwardAgrees ==
  ASSUME NEW M, AllData \subseteq M, NEW addEntry, NEW n \in Nat, AgreesTo(M, addEntry, n),
         NEW s \in States(M), Cardinality(s.queue) <= n, NEW u \in Uids, InHand(s, u)
  PROVE  ForwardBy(addEntry, s, u) = Forward(s, u)
<1> DEFINE p == s.pkt[u]
           q == [p EXCEPT !.up = FALSE]
           fresh == s.now + ASPU_DHT_ENTRY_TIMEOUT
           d == [s EXCEPT !.pkt[u].up = FALSE]
           d1 == AddEntry(d, p.dst, p.dstAdd)
           d2 == AddEntry(d1, p.src, p.srcAdd)
           d3 == AddEntry(d2, p.forId, p.forAdd)
           l1 == addEntry[<< d, p.dst, p.dstAdd, fresh >>]
           l2 == addEntry[<< l1, p.src, p.srcAdd, fresh >>]
           l3 == addEntry[<< l2, p.forId, p.forAdd, fresh >>]
<1>1. /\ Passed(s) /\ s.out \in Seq(M) /\ p \in Header /\ u \notin s.queue
      /\ (p.dst # IP_BROADCAST => p.dstAdd \in Addrs)
  BY InStates DEF NodeType, InHand
<1>2. Forward(s, u) = ForwardTurn(s, u)
  BY <1>1, ForwardUnfolds
<1>3. CASE p.dst = IP_BROADCAST
  BY <1>2, <1>3, Zenon DEF ForwardBy, ForwardTurn
<1>4. CASE p.up /\ p.dst \in {s.id, IP_BROADCAST}
  BY <1>2, <1>4, Zenon DEF ForwardBy, ForwardTurn
<1>5. CASE p.dst # IP_BROADCAST
  <2>1. /\ p.dst \in Ids /\ p.dstAdd \in Addrs /\ p.src \in Ids /\ p.srcAdd \in Addrs
        /\ p.forId \in Ids /\ p.forAdd \in Addrs
    BY <1>1, <1>5 DEF Header
  <2>2. q \in Header
    BY <1>1 DEF Header
  <2>3. d = Put(s, u, q)
    BY DEF Put
  <2> HIDE DEF p, q, d, fresh
  <2>4. /\ IsState(d) /\ Passed(d) /\ d.out = s.out /\ d.queue = s.queue /\ d.now = s.now
    <3>1. /\ IsState(Put(s, u, q)) /\ SameNode(s, Put(s, u, q))
          /\ Put(s, u, q).queue = s.queue /\ Put(s, u, q).out = s.out
          /\ Passed(Put(s, u, q))
      BY <1>1, <2>2, PutFields, ZenonT(30)
    <3> QED BY <2>3, <3>1 DEF SameNode
  <2>5. d \in States(M)
    BY <1>1, <2>4, StatesAre
  <2>6. /\ l1 = d1 /\ d1 \in States(M) /\ Cardinality(d1.queue) <= n
        /\ d1.now = s.now /\ u \notin d1.queue
    <3>1. fresh = d.now + ASPU_DHT_ENTRY_TIMEOUT
      BY <2>4 DEF fresh
    <3>2. u \notin d.queue /\ Cardinality(d.queue) <= n
      BY <1>1, <2>4
    <3> QED BY <2>1, <2>4, <2>5, <3>1, <3>2, CallShortens
  <2> HIDE DEF l1, d1
  <2>7. /\ l2 = d2 /\ d2 \in States(M) /\ Cardinality(d2.queue) <= n
        /\ d2.now = s.now /\ u \notin d2.queue
    <3>1. fresh = d1.now + ASPU_DHT_ENTRY_TIMEOUT
      BY <2>6 DEF fresh
    <3> QED BY <2>1, <2>6, <3>1, CallShortens
  <2> HIDE DEF l2, d2
  <2>8. l3 = d3
    <3>1. fresh = d2.now + ASPU_DHT_ENTRY_TIMEOUT
      BY <2>7 DEF fresh
    <3> QED BY <2>1, <2>7, <3>1, CallShortens
  <2> DEFINE G(l) == LET routed == Routed(l, l.pkt[u])
                         after == [l EXCEPT !.pkt[u] = routed]
                     IN IF p.up /\ p.dst \in {s.id, IP_BROADCAST}
                        THEN [s EXCEPT !.pkt[u].fate = "dmux"]
                        ELSE IF p.dst = IP_BROADCAST
                        THEN [d EXCEPT !.pkt[u].fate = "DROP_IP_BROADCAST"]
                        ELSE IF routed.fate = "mac" THEN Emit(after, Data(u, routed)) ELSE after
  <2>9. ForwardBy(addEntry, s, u) = G(l3)
    BY Zenon DEF ForwardBy, l1, l2, d, p, fresh
  <2>10. ForwardTurn(s, u) = G(d3)
    BY Zenon DEF ForwardTurn, d1, d2, d, p
  <2> HIDE DEF G, l3, d3
  <2> QED BY <1>2, <2>8, <2>9, <2>10
<1> QED BY <1>3, <1>5

\* The state that a turn of the loop passes to forward.
LEMMA HandedIsState ==
  ASSUME NEW M, NEW s \in States(M), NEW id \in Ids, NEW a \in Addrs, NEW e \in Nat,
         Waiting(s, id) # {}
  PROVE  LET u == Min(Waiting(s, id))
             t == Handed(s, id, a, e)
         IN /\ t \in States(M) /\ u \in Uids /\ InHand(t, u)
            /\ Cardinality(t.queue) + 1 = Cardinality(s.queue) /\ Cardinality(t.queue) \in Nat
<1> DEFINE u == Min(Waiting(s, id))
           t == Handed(s, id, a, e)
<1>1. Passed(s) /\ s.out \in Seq(M) /\ s.queue \in SUBSET Uids /\ s.pkt \in [Uids -> Header]
  BY InStates DEF NodeType
<1>2. /\ u \in s.queue /\ IsState(t) /\ t.out = s.out /\ t.queue = s.queue \ {u}
      /\ t.pkt = [s.pkt EXCEPT ![u] = [s.pkt[u] EXCEPT !.dstAdd = a]]
      /\ Passed(t)
  BY <1>1, TakenLeaves
<1> HIDE DEF u, t
<1>3. t \in States(M)
  BY <1>1, <1>2, StatesAre
<1>4. u \in Uids /\ s.pkt[u] \in Header
  BY <1>1, <1>2
<1>5. t.pkt[u].dstAdd = a
  BY <1>1, <1>2, <1>4 DEF Header
<1>6. InHand(t, u)
  BY <1>2, <1>5 DEF InHand
<1>7. IsFiniteSet(s.queue) /\ IsFiniteSet(t.queue)
  BY <1>1, <1>2, QueueFinite
<1>8. /\ Cardinality(t.queue) = Cardinality(s.queue) - 1
      /\ Cardinality(s.queue) \in Nat /\ Cardinality(t.queue) \in Nat
  BY <1>2, <1>7, FS_RemoveElement, FS_CardinalityType
<1> QED BY <1>3, <1>4, <1>6, <1>8 DEF u, t

\* An entry written is a state for the loop, and one that is written again is the
\* same.
LEMMA WrittenIsState ==
  ASSUME NEW M, NEW s \in States(M), NEW id \in Ids, NEW a \in Addrs, NEW e \in Nat
  PROVE  LET w == Written(s, id, a, e)
         IN /\ w \in States(M) /\ id \in DOMAIN w.dht
            /\ w.dht[id] = [add |-> a, expire |-> e]
            /\ w.queue = s.queue /\ Waiting(w, id) = Waiting(s, id)
            /\ Taken(w, id) = Handed(s, id, a, e)
<1> DEFINE w == Written(s, id, a, e)
<1>1. DOMAIN s = Fields /\ Passed(s) /\ NodeType(s) /\ s.out \in Seq(M)
  BY InStates DEF IsState
<1>2. /\ DOMAIN w = Fields /\ w.queue = s.queue /\ w.pkt = s.pkt /\ w.out = s.out
      /\ SameNode(s, w) /\ w.dht = DHTAddEntry(s.dht, id, a, e) /\ IsState(w)
  BY <1>1 DEF Fields, SameNode, IsState, Written
<1>3. Taken(w, id) = Handed(s, id, a, e)
  BY DEF Handed
<1> HIDE DEF w
<1>4. DhtType(w.dht)
  BY <1>1, <1>2, EntryTyped DEF NodeType, DhtType
<1>5. NodeType(w)
  BY <1>1, <1>2, <1>4 DEF NodeType, DhtType, SameNode, Fields
<1>6. Passed(w)
  BY <1>1, <1>2, <1>5 DEF Passed, Fresh, SameNode
<1>7. w \in States(M)
  BY <1>1, <1>2, <1>6, StatesAre
<1>8. id \in DOMAIN w.dht /\ w.dht[id] = [add |-> a, expire |-> e]
  BY <1>2 DEF DHTAddEntry
<1>9. Waiting(w, id) = Waiting(s, id)
  BY <1>2 DEF Waiting
<1> QED BY <1>2, <1>3, <1>7, <1>8, <1>9 DEF w

\* Any three functions that call each other as addEntry, its loop and forward do
\* (src/aspu.cc:1689, 1697, 393) are AddEntryUntil and Forward, whatever waits: the
\* closed forms are all that the recursion can come to.
THEOREM RecursionIsClosed ==
  ASSUME NEW M, AllData \subseteq M, NEW addEntry, NEW drain, NEW forward,
         CallEachOther(M, addEntry, drain, forward)
  PROVE  /\ \A s \in States(M), id \in Ids, a \in Addrs, e \in Nat :
              addEntry[<< s, id, a, e >>] = AddEntryUntil(s, id, a, e)
         /\ \A s \in States(M), u \in Uids :
              InHand(s, u) => forward[<< s, u >>] = Forward(s, u)
<1> DEFINE Differs(s, id, a, e) == addEntry[<< s, id, a, e >>] # AddEntryUntil(s, id, a, e)
           N == {n \in Nat : \E s \in States(M), id \in Ids, a \in Addrs, e \in Nat :
                   Cardinality(s.queue) = n /\ Differs(s, id, a, e)}
<1>1. \A s \in States(M) : Cardinality(s.queue) \in Nat
  BY InStates, QueueFinite DEF NodeType
<1>2. N = {}
  <2> SUFFICES ASSUME N # {} PROVE FALSE
    OBVIOUS
  <2>1. PICK n \in N : \A k \in N : n <= k
    <3>1. N \in SUBSET Nat
      OBVIOUS
    <3> HIDE DEF N
    <3> QED BY <3>1, LeastNatural
  <2>2. PICK s \in States(M), id \in Ids, a \in Addrs, e \in Nat :
          Cardinality(s.queue) = n /\ Differs(s, id, a, e)
    OBVIOUS
  <2> HIDE DEF N, Differs
  <2> DEFINE w == Written(s, id, a, e)
             u == Min(Waiting(s, id))
             t == Handed(s, id, a, e)
             k == AddEntryUntil(s, id, a, e)
  <2>3. n \in Nat /\ Passed(s)
    BY InStates DEF N
  <2>4. /\ w \in States(M) /\ id \in DOMAIN w.dht /\ Waiting(w, id) = Waiting(s, id)
        /\ Taken(w, id) = t
    <3>1. w \in States(M) /\ id \in DOMAIN w.dht
      BY WrittenIsState
    <3>2. Waiting(w, id) = Waiting(s, id)
      BY WrittenIsState, ZenonT(30)
    <3>3. Taken(w, id) = t
      BY WrittenIsState, ZenonT(60)
    <3> QED BY <3>1, <3>2, <3>3
  <2>5. addEntry[<< s, id, a, e >>] = drain[<< w, id >>]
    BY DEF CallEachOther
  <2>6. k = AddEntryTurn(s, id, a, e)
    BY <2>3, AddEntryUnfolds
  <2>7. CASE Waiting(s, id) = {}
    <3>1. k = w
      BY <2>6, <2>7 DEF AddEntryTurn, Written
    <3> HIDE DEF w, k
    <3>2. drain[<< w, id >>] = w
      <4>1. w \in States(M) /\ id \in DOMAIN w.dht /\ Waiting(w, id) = {}
        BY <2>4, <2>7
      <4> QED BY <4>1, Zenon DEF CallEachOther
    <3> QED BY <2>2, <2>5, <3>1, <3>2 DEF k, Differs
  <2>8. CASE Waiting(s, id) # {}
    <3>1. /\ t \in States(M) /\ u \in Uids /\ InHand(t, u)
          /\ Cardinality(t.queue) + 1 = n /\ Cardinality(t.queue) \in Nat
      BY <2>2, <2>8, HandedIsState
    <3>2. k = Forward(t, u)
      BY <2>6, <2>8 DEF AddEntryTurn, Handed, Written
    <3>3. k \in States(M) /\ Waiting(k, id) = {} /\ id \in DOMAIN k.dht
      <4>1. k \in States(M) /\ Waiting(k, id) = {}
        BY <2>3, CallsStayInStates, CallPasses
      <4>2. id \in DOMAIN k.dht
        <5>1. k.dht = Taught(s.dht, id, a, s.id, s.pkt[HandledLast(s, id)].srcAdd,
                             s.now + ASPU_DHT_ENTRY_TIMEOUT)
          BY <2>3, <2>8, UntilSome DEF Passed
        <5> HIDE DEF k
        <5> QED BY <5>1 DEF Taught, DHTAddEntry
      <4> QED BY <4>1, <4>2
    <3> HIDE DEF w, u, t, k
    <3>4. AgreesTo(M, addEntry, Cardinality(t.queue))
      <4> SUFFICES ASSUME NEW s_1 \in States(M), NEW id_1 \in Ids, NEW a_1 \in Addrs,
                          NEW e_1 \in Nat, Cardinality(s_1.queue) <= Cardinality(t.queue)
                   PROVE  addEntry[<< s_1, id_1, a_1, e_1 >>] = AddEntryUntil(s_1, id_1, a_1, e_1)
        BY DEF AgreesTo
      <4>1. Cardinality(s_1.queue) \in Nat /\ Cardinality(s_1.queue) < n
        BY <1>1, <2>3, <3>1
      <4>2. ~ Differs(s_1, id_1, a_1, e_1)
        <5> SUFFICES ASSUME Differs(s_1, id_1, a_1, e_1) PROVE FALSE
          OBVIOUS
        <5>1. Cardinality(s_1.queue) \in N
          BY <4>1 DEF N
        <5> QED BY <2>1, <2>3, <4>1, <5>1
      <4> QED BY <4>2 DEF Differs
    <3>5. forward[<< t, u >>] = Forward(t, u)
      <4>1. Cardinality(t.queue) <= Cardinality(t.queue)
        BY <3>1
      <4>2. ForwardBy(addEntry, t, u) = Forward(t, u)
        BY <3>1, <3>4, <4>1, ForwardAgrees
      <4> QED BY <3>1, <4>2 DEF CallEachOther
    <3>6. drain[<< w, id >>] = drain[<< forward[<< t, u >>], id >>]
      BY <2>4, <2>8 DEF CallEachOther, u
    <3>7. drain[<< k, id >>] = k
      BY <3>3 DEF CallEachOther
    <3> QED BY <2>2, <2>5, <3>2, <3>5, <3>6, <3>7 DEF k, Differs
  <2> QED BY <2>7, <2>8
<1>3. ASSUME NEW s \in States(M), NEW id \in Ids, NEW a \in Addrs, NEW e \in Nat
      PROVE  addEntry[<< s, id, a, e >>] = AddEntryUntil(s, id, a, e)
  <2>1. Cardinality(s.queue) \in Nat /\ Cardinality(s.queue) \notin N
    <3> HIDE DEF N
    <3> QED BY <1>1, <1>2
  <2> QED BY <2>1
<1>4. ASSUME NEW s \in States(M), NEW u \in Uids, InHand(s, u)
      PROVE  forward[<< s, u >>] = Forward(s, u)
  <2>1. AgreesTo(M, addEntry, Cardinality(s.queue))
    BY <1>3 DEF AgreesTo
  <2>2. Cardinality(s.queue) \in Nat /\ Cardinality(s.queue) <= Cardinality(s.queue)
    BY <1>1
  <2>3. ForwardBy(addEntry, s, u) = Forward(s, u)
    BY <1>4, <2>1, <2>2, ForwardAgrees
  <2> QED BY <1>4, <2>3 DEF CallEachOther
<1> QED BY <1>3, <1>4

\* An entry that is there, written again, changes nothing.
LEMMA WrittenAgain ==
  ASSUME NEW M, NEW s \in States(M), NEW id \in DOMAIN s.dht
  PROVE  LET a == s.dht[id].add
             e == s.dht[id].expire
         IN /\ a \in Addrs /\ e \in Nat /\ id \in Ids /\ Written(s, id, a, e) = s
            /\ Waiting(s, id) = {} => AddEntryUntil(s, id, a, e) = s
<1> DEFINE a == s.dht[id].add
           e == s.dht[id].expire
           w == Written(s, id, a, e)
<1>1. IsState(s) /\ DOMAIN s = Fields /\ DhtType(s.dht) /\ Passed(s)
  BY InStates DEF IsState, NodeType, DhtType
<1>2. id \in Ids /\ s.dht[id] \in DHT_Entry
  BY <1>1 DEF DhtType
<1>3. a \in Addrs /\ e \in Nat /\ s.dht[id] = [add |-> a, expire |-> e]
  BY <1>2 DEF DHT_Entry
<1> HIDE DEF a, e
<1>4. DHTAddEntry(s.dht, id, a, e) = s.dht
  BY <1>1, <1>3 DEF DHTAddEntry, DhtType
<1>5. w = [s EXCEPT !.dht = s.dht]
  BY <1>4 DEF Written
<1>6. w = s
  <2> HIDE DEF w
  <2>1. IsState(w) /\ SameNode(w, s)
    BY <1>1, <1>5 DEF IsState, SameNode, Fields
  <2>2. w.dht = s.dht /\ w.queue = s.queue /\ w.pkt = s.pkt /\ w.out = s.out
    BY <1>1, <1>5 DEF Fields
  <2> QED BY <1>1, <2>1, <2>2, SameState
<1>7. Waiting(s, id) = {} => AddEntryUntil(s, id, a, e) = s
  BY <1>1, <1>2, <1>3, <1>6, AddEntryUnfolds DEF AddEntryTurn, Written
<1> QED BY <1>2, <1>3, <1>6, <1>7 DEF a, e

\* addEntry does the same where its entry has been written before.
LEMMA CallWritten ==
  ASSUME NEW M, NEW s \in States(M), NEW id \in Ids, NEW a \in Addrs, NEW e \in Nat
  PROVE  AddEntryUntil(Written(s, id, a, e), id, a, e) = AddEntryUntil(s, id, a, e)
<1> DEFINE w == Written(s, id, a, e)
<1>1. /\ w \in States(M) /\ id \in DOMAIN w.dht /\ w.dht[id] = [add |-> a, expire |-> e]
      /\ Waiting(w, id) = Waiting(s, id) /\ Taken(w, id) = Handed(s, id, a, e)
  BY WrittenIsState
<1>2. Passed(s) /\ Passed(w)
  BY <1>1, InStates
<1> HIDE DEF w
<1>3. Written(w, id, a, e) = w
  <2>1. Written(w, id, w.dht[id].add, w.dht[id].expire) = w
    BY <1>1, WrittenAgain
  <2>2. w.dht[id].add = a /\ w.dht[id].expire = e
    BY <1>1
  <2> QED BY <2>1, <2>2
<1>4. AddEntryTurn(w, id, a, e) = IF Waiting(s, id) = {} THEN w
                                  ELSE Forward(Handed(s, id, a, e), Min(Waiting(s, id)))
  BY <1>1, <1>3, Zenon DEF AddEntryTurn, Written
<1>5. AddEntryTurn(s, id, a, e) = IF Waiting(s, id) = {} THEN w
                                  ELSE Forward(Handed(s, id, a, e), Min(Waiting(s, id)))
  BY Zenon DEF AddEntryTurn, Written, Handed, w
<1>6. /\ AddEntryUntil(w, id, a, e) = AddEntryTurn(w, id, a, e)
      /\ AddEntryUntil(s, id, a, e) = AddEntryTurn(s, id, a, e)
  BY <1>2, AddEntryUnfolds
<1> QED BY <1>4, <1>5, <1>6 DEF w

\* There are such functions: addEntry and forward end, whatever waits, because
\* each packet is taken from the queue before they call each other again.
THEOREM RecursionEnds ==
  ASSUME NEW M, AllData \subseteq M
  PROVE  \E addEntry, drain, forward : CallEachOther(M, addEntry, drain, forward)
<1> DEFINE Add(s, id) == s.dht[id].add
           Expire(s, id) == s.dht[id].expire
           addEntry == [c \in States(M) \X Ids \X Addrs \X Nat |->
                          AddEntryUntil(c[1], c[2], c[3], c[4])]
           drain == [c \in States(M) \X Ids |->
                       AddEntryUntil(c[1], c[2], Add(c[1], c[2]), Expire(c[1], c[2]))]
           forward == [c \in States(M) \X Uids |-> Forward(c[1], c[2])]
<1>1. \A s \in States(M), id \in Ids, a \in Addrs, e \in Nat :
        addEntry[<< s, id, a, e >>] = AddEntryUntil(s, id, a, e)
  OBVIOUS
<1>2. \A s \in States(M), id \in Ids :
        drain[<< s, id >>] = AddEntryUntil(s, id, Add(s, id), Expire(s, id))
  OBVIOUS
<1>3. \A s \in States(M), u \in Uids : forward[<< s, u >>] = Forward(s, u)
  OBVIOUS
<1> HIDE DEF addEntry, drain, forward
<1>4. ASSUME NEW s \in States(M), NEW id \in Ids, NEW a \in Addrs, NEW e \in Nat
      PROVE  addEntry[<< s, id, a, e >>] = drain[<< Written(s, id, a, e), id >>]
  <2> DEFINE w == Written(s, id, a, e)
  <2>1. w \in States(M) /\ w.dht[id] = [add |-> a, expire |-> e]
    BY WrittenIsState
  <2>2. AddEntryUntil(w, id, a, e) = AddEntryUntil(s, id, a, e)
    BY CallWritten
  <2> HIDE DEF w
  <2>3. Add(w, id) = a /\ Expire(w, id) = e
    BY <2>1
  <2> HIDE DEF Add, Expire
  <2> QED BY <1>1, <1>2, <2>1, <2>2, <2>3 DEF w
<1>5. ASSUME NEW s \in States(M), NEW id \in Ids, id \in DOMAIN s.dht
      PROVE  drain[<< s, id >>] =
               IF Waiting(s, id) = {} THEN s
               ELSE drain[<< forward[<< Taken(s, id), Min(Waiting(s, id)) >>], id >>]
  <2> DEFINE a == Add(s, id)
             e == Expire(s, id)
             u == Min(Waiting(s, id))
             k == AddEntryUntil(s, id, a, e)
  <2>1. /\ a \in Addrs /\ e \in Nat /\ Written(s, id, a, e) = s
        /\ Waiting(s, id) = {} => k = s
    BY <1>5, WrittenAgain
  <2> HIDE DEF a, e, Add, Expire
  <2>2. drain[<< s, id >>] = k
    BY <1>2 DEF a, e
  <2>3. CASE Waiting(s, id) = {}
    BY <2>1, <2>2, <2>3
  <2>4. CASE Waiting(s, id) # {}
    <3>1. Handed(s, id, a, e) = Taken(s, id)
      BY <2>1 DEF Handed
    <3>2. Taken(s, id) \in States(M) /\ u \in Uids
      BY <2>1, <2>4, <3>1, HandedIsState
    <3>3. Passed(s)
      BY InStates
    <3>4. k = Forward(Taken(s, id), u)
      <4>1. k = AddEntryTurn(s, id, a, e)
        BY <2>1, <3>3, AddEntryUnfolds
      <4> HIDE DEF k
      <4> QED BY <2>4, <3>1, <4>1, Zenon DEF AddEntryTurn, Handed, Written
    <3>5. k \in States(M) /\ Waiting(k, id) = {}
      BY <2>1, <3>3, CallsStayInStates, CallPasses
    <3>6. id \in DOMAIN k.dht
      <4>1. k.dht = Taught(s.dht, id, a, s.id, s.pkt[HandledLast(s, id)].srcAdd,
                           s.now + ASPU_DHT_ENTRY_TIMEOUT)
        BY <2>4, <3>3, UntilSome DEF Passed
      <4> HIDE DEF k
      <4> QED BY <4>1 DEF Taught, DHTAddEntry
    <3> HIDE DEF k, u
    <3>7. forward[<< Taken(s, id), u >>] = k
      BY <1>3, <3>2, <3>4
    <3>8. drain[<< k, id >>] = k
      BY <1>2, <3>5, <3>6, WrittenAgain DEF Add, Expire
    <3> QED BY <2>2, <2>4, <3>7, <3>8 DEF u
  <2> QED BY <2>3, <2>4
<1>6. ASSUME NEW s \in States(M), NEW u \in Uids, InHand(s, u)
      PROVE  forward[<< s, u >>] = ForwardBy(addEntry, s, u)
  <2>1. AgreesTo(M, addEntry, Cardinality(s.queue))
    BY <1>1 DEF AgreesTo
  <2>2. Cardinality(s.queue) \in Nat /\ Cardinality(s.queue) <= Cardinality(s.queue)
    BY InStates, QueueFinite DEF NodeType
  <2>3. ForwardBy(addEntry, s, u) = Forward(s, u)
    BY <1>6, <2>1, <2>2, ForwardAgrees
  <2> QED BY <1>3, <2>3
<1>7. CallEachOther(M, addEntry, drain, forward)
  BY <1>4, <1>5, <1>6 DEF CallEachOther
<1> QED BY <1>7
=============================================================================
