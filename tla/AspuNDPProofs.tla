---------------------------- MODULE AspuNDPProofs ----------------------------
(***************************************************************************)
(* The neighbour discovery of ASPU for every network: any number of nodes, *)
(* any links and link qualities, however many links change and HELLOs are  *)
(* lost, for addresses of any length.                                      *)
(***************************************************************************)
EXTENDS AspuNDP, AspuFunctionProofs, SequenceTheorems, FiniteSetTheorems

(***************************************************************************)
(* Numbers.                                                                *)
(***************************************************************************)
\* Min finds the least of a set of natural numbers.
LEMMA MinOfNaturals ==
  ASSUME NEW T \in SUBSET Nat, T # {}
  PROVE  Min(T) \in T /\ \A n \in T : Min(T) <= n
BY LeastNatural DEF Min

\* Max finds the greatest of a bounded set of integers from -1 up.
LEMMA MaxOfLevels ==
  ASSUME NEW T \in SUBSET (Bits \cup {-1}), T # {}
  PROVE  Max(T) \in T /\ \A n \in T : n <= Max(T)
<1> DEFINE U == {n + 1 : n \in T}
<1>1. ADDR_SIZE \in Nat /\ \A n \in T : n \in Int /\ n + 1 \in Nat /\ n + 1 <= ADDR_SIZE
  BY AddrSizeAssumption DEF Bits
<1>2. U \in SUBSET Nat /\ U # {} /\ \A u \in U : u <= ADDR_SIZE
  BY <1>1
<1>3. PICK m \in U : \A u \in U : u <= m
  <2> HIDE DEF U
  <2> QED BY <1>1, <1>2, GreatestNatural
<1>4. PICK x \in T : m = x + 1
  BY <1>3
<1>5. \A n \in T : x >= n
  BY <1>1, <1>3, <1>4
<1>6. Max(T) \in T /\ \A n \in T : Max(T) >= n
  BY <1>4, <1>5 DEF Max
<1> QED BY <1>1, <1>6

\* The metric of a link is a number, at least 1.00 and below 2.00 for a link
\* of more than half the HELLOs that is not cut off at the maximum.
LEMMA EtxRange ==
  ASSUME NEW q \in 0 .. 100
  PROVE  /\ Etx(q) \in Nat
         /\ q > 50 /\ Etx(q) < RTR_ETX_MAX => Etx(q) \in 100 .. 199
<1>1. RTR_ETX_MAX \in Nat
  BY TableAssumption
<1>2. CASE q = 0
  BY <1>1, <1>2 DEF Etx
<1>3. CASE q # 0
  <2>1. q \in Int /\ q > 0 /\ q <= 100
    BY <1>3
  <2>2. 10000 \div q \in Nat
    BY <2>1
  <2>3. q > 50 => 10000 \div q \in 100 .. 199
    BY <2>1
  <2> QED BY <1>1, <1>3, <2>1, <2>2, <2>3 DEF Etx
<1> QED BY <1>2, <1>3

(***************************************************************************)
(* Functions that the models define by recursion on a number.              *)
(***************************************************************************)
\* A function on 0 .. n every value of which follows from the one before is in
\* T everywhere if it starts there and its step stays there.
LEMMA StaysIn ==
  ASSUME NEW n \in Nat, NEW T, NEW f, f[0] \in T,
         \A k \in 1 .. n : f[k - 1] \in T => f[k] \in T
  PROVE  \A k \in 0 .. n : f[k] \in T
<1> DEFINE W == {k \in 0 .. n : f[k] \notin T}
<1> SUFFICES ASSUME W # {} PROVE FALSE
  OBVIOUS
<1>1. PICK k \in W : \A j \in W : k <= j
  <2>1. W \in SUBSET Nat
    OBVIOUS
  <2> HIDE DEF W
  <2> QED BY <2>1, LeastNatural
<1>2. k # 0 /\ k - 1 \in 0 .. n /\ k \in 1 .. n
  OBVIOUS
<1>3. f[k - 1] \in T
  BY <1>1, <1>2
<1> QED BY <1>2, <1>3

\* f begins with base and goes on by step.
Steps(f, n, base, step) == f[0] = base /\ \A k \in 1 .. n : f[k] = step[<<f[k - 1], k>>]

\* Such a function exists.
LEMMA StepsExist ==
  ASSUME NEW n \in Nat, NEW T, NEW base \in T, NEW step \in [T \X (1 .. n) -> T]
  PROVE  \E f \in [0 .. n -> T] : Steps(f, n, base, step)
<1> DEFINE Upto(m, f) == f[0] = base /\ \A k \in 1 .. m : f[k] = step[<<f[k - 1], k>>]
           W == {m \in 0 .. n : ~\E f \in [0 .. m -> T] : Upto(m, f)}
<1>1. W = {}
  <2> SUFFICES ASSUME W # {} PROVE FALSE
    OBVIOUS
  <2>1. PICK m \in W : \A j \in W : m <= j
    <3>1. W \in SUBSET Nat
      OBVIOUS
    <3> HIDE DEF W
    <3> QED BY <3>1, LeastNatural
  <2>2. m # 0
    <3> SUFFICES ASSUME m = 0 PROVE FALSE
      OBVIOUS
    <3>1. [k \in 0 .. 0 |-> base] \in [0 .. m -> T] /\ Upto(0, [k \in 0 .. 0 |-> base])
      OBVIOUS
    <3> QED BY <3>1
  <2>3. m - 1 \in 0 .. n /\ m - 1 \notin W /\ m \in 1 .. n
    BY <2>1, <2>2
  <2>4. PICK f \in [0 .. m - 1 -> T] : Upto(m - 1, f)
    BY <2>3
  <2> DEFINE g == [k \in 0 .. m |-> IF k < m THEN f[k] ELSE step[<<f[m - 1], m>>]]
  <2>5. f[m - 1] \in T /\ <<f[m - 1], m>> \in T \X (1 .. n)
    BY <2>3, <2>4
  <2>6. g \in [0 .. m -> T]
    BY <2>3, <2>4, <2>5
  <2>7. Upto(m, g)
    <3>1. g[0] = base
      BY <2>2, <2>3, <2>4
    <3>2. ASSUME NEW k \in 1 .. m PROVE g[k] = step[<<g[k - 1], k>>]
      <4>1. CASE k = m
        <5>1. g[m] = step[<<f[m - 1], m>>] /\ g[m - 1] = f[m - 1]
          BY <2>3
        <5> HIDE DEF g
        <5> QED BY <5>1, <4>1
      <4>2. CASE k < m
        <5>1. k \in 1 .. m - 1 /\ g[k] = f[k] /\ g[k - 1] = f[k - 1]
          BY <4>2, <2>3
        <5> QED BY <5>1, <2>4
      <4> QED BY <4>1, <4>2
    <3> HIDE DEF g
    <3> QED BY <3>1, <3>2
  <2> HIDE DEF g
  <2> QED BY <2>6, <2>7
<1>2. n \in 0 .. n /\ n \notin W
  BY <1>1, SMTT(30)
<1> QED BY <1>2 DEF Steps

(***************************************************************************)
(* What a node announces of its table, and what a neighbour reads.         *)
(***************************************************************************)
\* Links that count hear more than half of the HELLOs, as with the threshold
\* of the code.  Then every metric that is announced lies in 1.00 .. 1.99.
Discerning == LQE_THRESHOLD > 50

Keyed(E) == \A e, f \in E : e.nextHopAdd = f.nextHopAdd => e = f

\* The entries of level i of a node with address a.
EntryFits(e, a, i) ==
  /\ e \in Entry /\ e.level = i /\ e.nextHopAdd # a /\ DiffBit(a, e.nextHopAdd) <= i
  /\ Discerning => /\ e.etx \in 100 .. 199
                   /\ i > 0 => DiffBit(a, e.nextHopAdd) # 0

LevelFits(E, a, i) == Keyed(E) /\ \A e \in E : EntryFits(e, a, i)

\* The lines that arrive: those present name a node, and carry the route log
\* that the reader finds in the metric.
LinesFit(lines) ==
  /\ lines \in [Bits -> Line]
  /\ \A i \in Bits : EntryPresent(lines, i) =>
       /\ lines[i].networkId \in Nodes
       /\ Discerning => lines[i].etx = 0 /\ 0 \in lines[i].routeLog

\* The neighbours that a node n may know.
Neighbors(n) ==
  {nb \in [id : Nodes \ {n}, address : Addrs, quality : 0 .. 100, lines : [Bits -> Line]] :
     LinesFit(nb.lines)}

\* Identifiers are numbers below INFINITO.
LEMMA NodesAreNatural == Nodes \subseteq Nat /\ \A n \in Nodes : n < INFINITO
<1>1. INFINITO \in Nat
  BY TableAssumption
<1> QED BY <1>1, NDPAssumption

\* getUpdate finds, on a level that is not empty, one entry to announce.
LEMMA AnnouncedFound ==
  ASSUME NEW E \in SUBSET Entry, E # {}, Keyed(E)
  PROVE  Announced(E) \in E
<1> DEFINE I == {e.networkId : e \in E}
<1>1. \A e \in E : e.networkId \in Nat /\ e.etx \in Nat /\ e.nextHopAdd \in Addrs
  <2>1. Nodes \subseteq Nat
    BY NodesAreNatural
  <2> QED BY <2>1 DEF Entry
<1>2. PICK m \in I : \A n \in I : m <= n
  <2>1. I \in SUBSET Nat /\ I # {}
    BY <1>1
  <2> HIDE DEF I
  <2> QED BY <2>1, LeastNatural
<1> DEFINE E1 == {e \in E : e.networkId = m}
           X == {e.etx : e \in E1}
<1>3. PICK x \in X : \A n \in X : x <= n
  <2>1. X \in SUBSET Nat /\ X # {}
    BY <1>1, <1>2
  <2> HIDE DEF X
  <2> QED BY <2>1, LeastNatural
<1> DEFINE E2 == {e \in E1 : e.etx = x}
           N == {e.nextHopAdd : e \in E2}
<1>4. PICK a \in N : \A b \in N \ {a} : Below(a, b)
  <2>1. N \in SUBSET Addrs /\ N # {}
    BY <1>1, <1>3
  <2> HIDE DEF N
  <2> QED BY <2>1, LowestAddress
<1>5. PICK e \in E2 : e.nextHopAdd = a
  BY <1>4
<1>6. ASSUME NEW f \in E \ {e} PROVE Precedes(e, f)
  <2>1. e.networkId = m /\ m <= f.networkId /\ e.etx = x
    BY <1>2
  <2>2. CASE f \notin E1
    <3>1. e.networkId < f.networkId
      BY <2>1, <2>2, <1>1
    <3> QED BY <3>1 DEF Precedes
  <2>3. CASE f \in E1 \ E2
    <3>1. e.networkId = f.networkId
      BY <2>1, <2>3
    <3>2. x <= f.etx /\ f.etx # x /\ e.etx \in Nat /\ f.etx \in Nat
      BY <2>3, <1>1, <1>3
    <3>3. e.etx < f.etx
      BY <2>1, <3>2
    <3> QED BY <3>1, <3>3 DEF Precedes
  <2>4. CASE f \in E2
    <3>1. f.nextHopAdd \in N \ {a}
      BY <2>4, <1>5 DEF Keyed
    <3>2. e.networkId = f.networkId /\ e.etx = f.etx /\ Below(e.nextHopAdd, f.nextHopAdd)
      BY <2>1, <2>4, <3>1, <1>4, <1>5
    <3> QED BY <3>2 DEF Precedes
  <2> QED BY <2>2, <2>3, <2>4
<1> QED BY <1>6 DEF Announced

\* Whatever table a node announces, its neighbours read lines that fit.
LEMMA UpdateFits ==
  ASSUME NEW a \in Addrs, NEW t, \A i \in Bits : LevelFits(Level(t, i), a, i)
  PROVE  LinesFit(Update(GetUpdate(t)))
<1> DEFINE u == GetUpdate(t)
           lines == Update(u)
<1>1. ASSUME NEW i \in Bits
      PROVE  /\ lines[i] \in Line
             /\ EntryPresent(lines, i) =>
                  /\ lines[i].networkId \in Nodes
                  /\ Discerning => lines[i].etx = 0 /\ 0 \in lines[i].routeLog
  <2>1. lines[i] = [networkId |-> u[i][1], hopNumber |-> u[i][2],
                    etx |-> Atof(u[i][3]), routeLog |-> Atoi(u[i][4])]
    BY DEF Update
  <2>2. Atof(NoInterface) = 0
    BY DEF Atof, NoInterface
  <2>3. Atoi(u[i][4]) \in SUBSET Bits
    BY DEF Atoi
  <2>4. CASE Level(t, i) = {}
    <3>1. u[i] = << INFINITO, INFINITO, NoInterface, RTR_ETX_MAX, {} >>
      BY <2>4 DEF GetUpdate
    <3>2. lines[i].networkId = INFINITO /\ lines[i].hopNumber = INFINITO /\ lines[i].etx = 0
      BY <2>1, <2>2, <3>1
    <3>3. lines[i] \in Line
      BY <2>1, <2>2, <2>3, <3>1, TableAssumption DEF Line
    <3> QED BY <3>2, <3>3, TableAssumption DEF EntryPresent
  <2>5. CASE Level(t, i) # {}
    <3> DEFINE e == Announced(Level(t, i))
    <3>1. e \in Level(t, i) /\ EntryFits(e, a, i)
      <4>1. Level(t, i) \in SUBSET Entry /\ Keyed(Level(t, i))
        BY DEF LevelFits, EntryFits
      <4> QED BY <4>1, <2>5, AnnouncedFound DEF LevelFits
    <3>2. u[i] = << e.networkId, e.hopNumber, NoInterface, e.etx, e.routeLog >>
      BY <2>5 DEF GetUpdate
    <3> HIDE DEF e
    <3>3. /\ lines[i].networkId = e.networkId /\ lines[i].hopNumber = e.hopNumber
          /\ lines[i].etx = 0 /\ lines[i].routeLog = Atoi(e.etx)
      BY <2>1, <2>2, <3>2
    <3>4. e.networkId \in Nodes /\ e.hopNumber \in 0 .. INFINITO /\ e.networkId \in 0 .. INFINITO
      <4>1. e.networkId \in Nodes /\ e.hopNumber \in 1 .. INFINITO
        BY <3>1 DEF EntryFits, Entry
      <4>2. INFINITO \in Nat
        BY TableAssumption
      <4>3. e.hopNumber \in 0 .. INFINITO
        BY <4>1, <4>2
      <4>4. e.networkId \in 0 .. INFINITO
        <5>1. \A n \in Nodes : n \in 0 .. INFINITO
          BY <4>2, NodesAreNatural
        <5> QED BY <4>1, <5>1, Zenon
      <4> QED BY <4>1, <4>3, <4>4
    <3>5. lines[i] \in Line
      <4>1. lines[i] = [networkId |-> e.networkId, hopNumber |-> e.hopNumber,
                        etx |-> 0, routeLog |-> Atoi(u[i][4])]
        BY <2>1, <2>2, <3>2
      <4> HIDE DEF lines, u
      <4> QED BY <4>1, <2>3, <3>4 DEF Line
    <3>6. Discerning => 0 \in Atoi(e.etx)
      <4> SUFFICES ASSUME e.etx \in 100 .. 199 PROVE 0 \in Atoi(e.etx)
        BY <3>1 DEF EntryFits
      <4>1. e.etx \div 100 = 1
        OBVIOUS
      <4>2. 0 \in Bits /\ 1 \div 2^0 = 1 /\ 1 % 2 = 1
        BY AddrSizeAssumption DEF Bits
      <4>3. ToBits(1)[0] = 1
        BY <4>2 DEF ToBits
      <4> QED BY <4>1, <4>2, <4>3 DEF Atoi
    <3> QED BY <3>3, <3>4, <3>5, <3>6
  <2> QED BY <2>4, <2>5
<1>2. lines \in [Bits -> Line]
  <2>1. lines = [i \in Bits |-> lines[i]]
    BY DEF Update
  <2> QED BY <2>1, <1>1
<1> QED BY <1>1, <1>2 DEF LinesFit

(***************************************************************************)
(* What a neighbour in use makes of a level of the table.                  *)
(***************************************************************************)
\* A std::set ordered by nextHopAdd never holds two entries of one address.
LEMMA InsertFits ==
  ASSUME NEW a, NEW i, NEW E, LevelFits(E, a, i), NEW e, EntryFits(e, a, i)
  PROVE  LevelFits(Insert(E, e), a, i)
BY DEF LevelFits, Insert, Keyed

\* The least identifier a neighbour knows below its own level is a node's.
LEMMA NeighborLevelIdType ==
  ASSUME NEW n \in Nodes, NEW nb \in Neighbors(n), NEW k
  PROVE  NeighborLevelId(nb, k) \in Nodes
<1> DEFINE J == {j \in Bits : j <= k /\ EntryPresent(nb.lines, j)}
           I == {nb.id} \cup {nb.lines[j].networkId : j \in J}
<1>1. nb.id \in Nodes /\ \A j \in J : nb.lines[j].networkId \in Nodes
  BY DEF Neighbors, LinesFit
<1>2. I \subseteq Nodes /\ I # {}
  BY <1>1
<1>3. Min(I) \in I
  <2> HIDE DEF I
  <2> QED BY <1>2, NodesAreNatural, MinOfNaturals
<1>4. NeighborLevelId(nb, k) = Min(I)
  BY DEF NeighborLevelId
<1> HIDE DEF I
<1> QED BY <1>2, <1>3, <1>4

\* Both entries that setUpdate makes of a neighbour fit, and so does the level.
LEMMA LevelUpdateFits ==
  ASSUME NEW n \in Nodes, NEW a \in Addrs, NEW nb \in Neighbors(n), InUse(nb),
         NEW i \in Bits, NEW E, LevelFits(E, a, i)
  PROVE  LevelFits(LevelUpdate(a, E, nb, i), a, i)
<1> DEFINE ls == DiffBit(a, nb.address)
           q == nb.quality
           line == nb.lines[i]
<1>1. /\ nb.id \in Nodes /\ nb.address \in Addrs /\ q \in 0 .. 100
      /\ line \in Line /\ LinesFit(nb.lines)
  BY DEF Neighbors
<1>2. ls \in Bits \cup {-1} /\ (ls = -1 <=> a = nb.address)
  BY <1>1, DiffBitType
<1>3. Etx(q) \in Nat /\ (Discerning /\ Etx(q) < RTR_ETX_MAX => Etx(q) \in 100 .. 199)
  <2>1. Discerning => q > 50
    BY <1>1, NDPAssumption DEF InUse, Discerning
  <2> HIDE DEF q
  <2> QED BY <1>1, <2>1, EtxRange
<1>4. RTR_ETX_MAX \in Nat /\ INFINITO \in Nat \ {0}
  BY TableAssumption
<1> SUFFICES ASSUME ls # -1, ls <= i PROVE LevelFits(LevelUpdate(a, E, nb, i), a, i)
  <2>1. \/ ls = -1
        \/ i < ls
        \/ ls # -1 /\ ls <= i
    BY <1>2, AddrSizeAssumption DEF Bits
  <2>2. (ls = -1 \/ i < ls) => LevelUpdate(a, E, nb, i) = E
    BY DEF LevelUpdate
  <2> QED BY <2>1, <2>2
<1>5. ls \in Bits /\ nb.address # a
  BY <1>2
<1> HIDE DEF q
<1>6. CASE i = ls
  <2> DEFINE e == SiblingEntry(nb, ls)
  <2>1. LevelUpdate(a, E, nb, i) = AddSibling(E, nb, ls)
    BY <1>6, <1>5 DEF LevelUpdate, Bits
  <2>2. CASE Etx(q) + 100 < RTR_ETX_MAX
    <3>1. Etx(q) < RTR_ETX_MAX
      BY <2>2, <1>3, <1>4
    <3>2. NeighborLevelId(nb, ls - 1) \in Nodes
      BY NeighborLevelIdType
    <3>3. 1 \in 1 .. INFINITO
      BY <1>4
    <3>4. e \in Entry
      BY <1>1, <1>3, <1>5, <3>2, <3>3 DEF SiblingEntry, Entry, q
    <3>5. e.level = ls /\ e.nextHopAdd = nb.address /\ e.etx = Etx(q)
      BY DEF SiblingEntry, q
    <3> HIDE DEF e
    <3>6. EntryFits(e, a, i)
      BY <3>1, <3>4, <3>5, <1>3, <1>5, <1>6 DEF EntryFits
    <3>7. LevelFits(Insert(E, e), a, i)
      BY <3>6, InsertFits
    <3>8. AddSibling(E, nb, ls) \in {E, Insert(E, e)}
      BY DEF AddSibling, e
    <3> QED BY <2>1, <3>7, <3>8
  <2>3. CASE ~(Etx(q) + 100 < RTR_ETX_MAX)
    BY <2>1, <2>3 DEF AddSibling, q
  <2> QED BY <2>2, <2>3
<1>7. CASE i # ls
  <2> DEFINE e == OfferedEntry(nb, ls, i)
  <2>1. LevelUpdate(a, E, nb, i) = AddOffered(E, nb, ls, i)
    BY <1>7, <1>5, <1>2 DEF LevelUpdate, Bits
  <2>2. LevelFits({}, a, i)
    BY DEF LevelFits, Keyed
  <2>3. CASE /\ EntryPresent(nb.lines, i) /\ ls \notin line.routeLog
             /\ line.etx + Etx(q) < RTR_ETX_MAX
    <3>1. /\ line.networkId \in Nodes /\ line.hopNumber \in Nat /\ line.hopNumber < INFINITO
          /\ line.etx \in Nat /\ line.routeLog \subseteq Bits
      BY <1>1, <1>4, <2>3 DEF LinesFit, Line, EntryPresent
    <3>2. line.hopNumber + 1 \in 1 .. INFINITO
      <4> HIDE DEF line
      <4> QED BY <3>1, <1>4
    <3>3. line.etx + Etx(q) \in Nat /\ Etx(q) < RTR_ETX_MAX
      <4> HIDE DEF line
      <4> QED BY <3>1, <1>3, <1>4, <2>3
    <3>4. {ls} \cup {j \in line.routeLog : j >= ls} \subseteq Bits
      BY <3>1, <1>5
    <3>5. e = [level |-> i, nextHopAdd |-> nb.address, nextHopId |-> nb.id,
               networkId |-> line.networkId, hopNumber |-> line.hopNumber + 1,
               etx |-> line.etx + Etx(q),
               routeLog |-> {ls} \cup {j \in line.routeLog : j >= ls}, macFailed |-> FALSE]
      BY DEF OfferedEntry, q
    <3>6. Discerning => line.etx = 0 /\ ls # 0
      BY <1>1, <2>3 DEF LinesFit
    <3> HIDE DEF line, e
    <3>7. e \in Entry
      BY <1>1, <3>1, <3>2, <3>3, <3>4, <3>5 DEF Entry
    <3>8. e.level = i /\ e.nextHopAdd = nb.address /\ e.etx = line.etx + Etx(q)
      BY <3>5
    <3>9. Discerning => e.etx \in 100 .. 199
      BY <3>3, <3>6, <3>8, <1>3
    <3>10. EntryFits(e, a, i)
      BY <3>6, <3>7, <3>8, <3>9, <1>5 DEF EntryFits
    <3>11. LevelFits({e}, a, i) /\ LevelFits(Insert(E, e), a, i)
      <4>1. LevelFits({e}, a, i)
        BY <3>10 DEF LevelFits, Keyed
      <4> QED BY <4>1, <3>10, InsertFits
    <3>12. AddOffered(E, nb, ls, i) \in {E, {}, {e}, Insert(E, e)}
      BY DEF AddOffered, e
    <3> QED BY <2>1, <2>2, <3>11, <3>12
  <2>4. CASE ~(/\ EntryPresent(nb.lines, i) /\ ls \notin line.routeLog
               /\ line.etx + Etx(q) < RTR_ETX_MAX)
    <3>1. line.etx \in Nat
      BY <1>1 DEF Line
    <3>2. ~(line.etx + Etx(q) < RTR_ETX_MAX) => line.etx + Etx(q) >= RTR_ETX_MAX
      <4> HIDE DEF line
      <4> QED BY <3>1, <1>3, <1>4
    <3>3. AddOffered(E, nb, ls, i) \in {E, {}}
      BY <2>4, <3>2 DEF AddOffered, q
    <3> QED BY <2>1, <2>2, <3>3
  <2> QED BY <2>3, <2>4
<1> QED BY <1>6, <1>7

\* What updateRoutingTable leaves of a level fits, whatever the neighbours say.
LEMMA LevelAfterFits ==
  ASSUME NEW n \in Nodes, NEW a \in Addrs, NEW o \in Seq(Neighbors(n)), NEW i \in Bits
  PROVE  LevelFits(LevelAfter(a, o, i), a, i)
<1> DEFINE T == {E \in SUBSET Entry : LevelFits(E, a, i)}
           N == Len(o)
           Next1(E, k) == IF InUse(o[k]) THEN LevelUpdate(a, E, o[k], i) ELSE E
           Body(f) == [k \in 0 .. Len(o) |->
                         IF k = 0 THEN {}
                         ELSE IF InUse(o[k]) THEN LevelUpdate(a, f[k - 1], o[k], i) ELSE f[k - 1]]
           after == CHOOSE f : f = Body(f)
           step == [x \in T \X (1 .. N) |-> Next1(x[1], x[2])]
<1>1. LevelAfter(a, o, i) = after[N]
  BY DEF LevelAfter
<1>2. N \in Nat /\ \A k \in 1 .. N : o[k] \in Neighbors(n)
  OBVIOUS
<1>3. {} \in T
  BY DEF LevelFits, Keyed
<1>4. ASSUME NEW E \in T, NEW k \in 1 .. N PROVE Next1(E, k) \in T
  <2>1. LevelFits(Next1(E, k), a, i)
    BY <1>2, LevelUpdateFits
  <2>2. \A F : LevelFits(F, a, i) => \A e \in F : e \in Entry
    BY DEF LevelFits, EntryFits
  <2>3. Next1(E, k) \subseteq Entry
    BY <2>1, <2>2
  <2> QED BY <2>1, <2>3
<1>5. step \in [T \X (1 .. N) -> T]
  <2> HIDE DEF T, Next1, N
  <2> QED BY <1>4
<1>6. PICK f \in [0 .. N -> T] : Steps(f, N, {}, step)
  <2> HIDE DEF T, step, N
  <2> QED BY <1>2, <1>3, <1>5, StepsExist, Zenon
<1>7. \A k \in 1 .. N : f[k] = Next1(f[k - 1], k)
  <2> SUFFICES ASSUME NEW k \in 1 .. N PROVE f[k] = Next1(f[k - 1], k)
    OBVIOUS
  <2>1. f[k - 1] \in T
    BY <1>2
  <2>2. step[<<f[k - 1], k>>] = Next1(f[k - 1], k)
    <3> HIDE DEF T, Next1, N
    <3> QED BY <2>1
  <2> QED BY <1>6, <2>2 DEF Steps
<1>8. f = Body(f)
  BY <1>2, <1>6, <1>7 DEF Steps
<1>9. after = Body(after)
  <2> HIDE DEF Body
  <2> QED BY <1>8
<1>10. after[0] = {} /\ \A k \in 1 .. N : after[k] = Next1(after[k - 1], k)
  <2> DEFINE g == after
  <2>1. g = Body(g)
    BY <1>9
  <2> HIDE DEF g
  <2>2. \A k \in 0 .. N : g[k] = Body(g)[k]
    BY <2>1
  <2>3. \A k \in 1 .. N : Body(g)[k] = Next1(g[k - 1], k)
    <3> SUFFICES ASSUME NEW k \in 1 .. N PROVE Body(g)[k] = Next1(g[k - 1], k)
      OBVIOUS
    <3>1. k \in 0 .. N /\ k # 0
      BY <1>2
    <3> QED BY <3>1
  <2>4. Body(g)[0] = {} /\ 0 \in 0 .. N /\ \A k \in 1 .. N : k \in 0 .. N
    BY <1>2
  <2> HIDE DEF Body, Next1, N
  <2>5. g[0] = {} /\ \A k \in 1 .. N : g[k] = Next1(g[k - 1], k)
    BY <2>2, <2>3, <2>4
  <2> QED BY <2>5 DEF g
<1>11. \A k \in 1 .. N : after[k - 1] \in T => after[k] \in T
  <2> HIDE DEF after, T, Next1, N
  <2> QED BY <1>4, <1>10
<1>12. after[N] \in T
  <2>1. after[0] \in T
    <3> HIDE DEF after, T
    <3> QED BY <1>3, <1>10
  <2>2. N \in 0 .. N
    BY <1>2
  <2> HIDE DEF after, T, N
  <2>3. \A k \in 0 .. N : after[k] \in T
    BY <1>2, <2>1, <1>11, StaysIn
  <2> QED BY <2>2, <2>3
<1> QED BY <1>1, <1>12

\* The table that updateRoutingTable builds is its levels, which all fit.
LEMMA TableFits ==
  ASSUME NEW n \in Nodes, NEW a \in Addrs, NEW o \in Seq(Neighbors(n))
  PROVE  /\ UpdateRoutingTable(a, o) \subseteq Entry
         /\ \A i \in Bits : LevelFits(Level(UpdateRoutingTable(a, o), i), a, i)
<1> DEFINE t == UpdateRoutingTable(a, o)
           L(i) == LevelAfter(a, o, i)
<1>1. \A i \in Bits : LevelFits(L(i), a, i)
  BY LevelAfterFits
<1>2. t = UNION {L(i) : i \in Bits}
  BY DEF UpdateRoutingTable
<1> HIDE DEF t, L
<1>3. \A i \in Bits : \A e \in L(i) : e \in Entry /\ e.level = i
  BY <1>1 DEF LevelFits, EntryFits
<1>4. \A i \in Bits : Level(t, i) = L(i)
  BY <1>2, <1>3 DEF Level
<1>5. t \subseteq Entry
  BY <1>2, <1>3
<1> QED BY <1>1, <1>4, <1>5 DEF t

(***************************************************************************)
(* The neighbour set.                                                      *)
(***************************************************************************)
\* neighborPurge leaves neighbours that were there.
LEMMA PurgedType ==
  ASSUME NEW S, NEW o \in Seq(S), NEW gone
  PROVE  Purged(o, gone) \in Seq(S)
<1> DEFINE T == Seq(S)
           N == Len(o)
           Next1(q, k) == IF o[k].id \in gone THEN q ELSE Append(q, o[k])
           Body(f) == [k \in 0 .. Len(o) |->
                         IF k = 0 THEN << >>
                         ELSE IF o[k].id \in gone THEN f[k - 1] ELSE Append(f[k - 1], o[k])]
           rest == CHOOSE f : f = Body(f)
           step == [x \in T \X (1 .. N) |-> Next1(x[1], x[2])]
<1>1. Purged(o, gone) = rest[N]
  BY DEF Purged
<1>2. N \in Nat /\ \A k \in 1 .. N : o[k] \in S
  OBVIOUS
<1>3. << >> \in T
  OBVIOUS
<1>4. ASSUME NEW q \in T, NEW k \in 1 .. N PROVE Next1(q, k) \in T
  <2>1. o[k] \in S
    BY <1>2
  <2> QED BY <2>1
<1>5. step \in [T \X (1 .. N) -> T]
  <2> HIDE DEF T, Next1, N
  <2> QED BY <1>4
<1>6. PICK f \in [0 .. N -> T] : Steps(f, N, << >>, step)
  <2> HIDE DEF T, step, N
  <2> QED BY <1>2, <1>3, <1>5, StepsExist, Zenon
<1>7. \A k \in 1 .. N : f[k] = Next1(f[k - 1], k)
  <2> SUFFICES ASSUME NEW k \in 1 .. N PROVE f[k] = Next1(f[k - 1], k)
    OBVIOUS
  <2>1. f[k - 1] \in T
    BY <1>2
  <2>2. step[<<f[k - 1], k>>] = Next1(f[k - 1], k)
    <3> HIDE DEF T, Next1, N
    <3> QED BY <2>1
  <2> QED BY <1>6, <2>2 DEF Steps
<1>8. f = Body(f)
  <2>1. f[0] = << >>
    BY <1>6 DEF Steps
  <2>2. \A k \in 0 .. N : f[k] = IF k = 0 THEN << >> ELSE Next1(f[k - 1], k)
    <3> SUFFICES ASSUME NEW k \in 0 .. N, k # 0 PROVE f[k] = Next1(f[k - 1], k)
      BY <2>1
    <3>1. k \in 1 .. N
      BY <1>2
    <3> QED BY <3>1, <1>7
  <2>3. \A k \in 0 .. N : f[k] = Body(f)[k]
    BY <2>2
  <2>4. f = [k \in 0 .. N |-> f[k]] /\ Body(f) = [k \in 0 .. N |-> Body(f)[k]]
    BY <1>6
  <2> HIDE DEF Body, N
  <2> QED BY <2>3, <2>4
<1>9. rest = Body(rest)
  <2> HIDE DEF Body
  <2> QED BY <1>8
<1>10. rest[0] = << >> /\ \A k \in 1 .. N : rest[k] = Next1(rest[k - 1], k)
  <2> DEFINE g == rest
  <2>1. g = Body(g)
    BY <1>9
  <2> HIDE DEF g
  <2>2. \A k \in 0 .. N : g[k] = Body(g)[k]
    BY <2>1
  <2>3. \A k \in 1 .. N : Body(g)[k] = Next1(g[k - 1], k)
    <3> SUFFICES ASSUME NEW k \in 1 .. N PROVE Body(g)[k] = Next1(g[k - 1], k)
      OBVIOUS
    <3>1. k \in 0 .. N /\ k # 0
      BY <1>2
    <3> QED BY <3>1
  <2>4. Body(g)[0] = << >> /\ 0 \in 0 .. N /\ \A k \in 1 .. N : k \in 0 .. N
    BY <1>2
  <2> HIDE DEF Body, Next1, N
  <2>5. g[0] = << >> /\ \A k \in 1 .. N : g[k] = Next1(g[k - 1], k)
    BY <2>2, <2>3, <2>4
  <2> QED BY <2>5 DEF g
<1>11. \A k \in 1 .. N : rest[k - 1] \in T => rest[k] \in T
  <2> HIDE DEF rest, T, Next1, N
  <2> QED BY <1>4, <1>10
<1>12. rest[N] \in T
  <2>1. rest[0] \in T
    <3> HIDE DEF rest, T
    <3> QED BY <1>3, <1>10
  <2>2. N \in 0 .. N
    BY <1>2
  <2> HIDE DEF rest, T, N
  <2>3. \A k \in 0 .. N : rest[k] \in T
    BY <1>2, <2>1, <1>11, StaysIn
  <2> QED BY <2>2, <2>3
<1> QED BY <1>1, <1>12

\* neighborInsert adds the neighbour or overwrites the one of that identifier.
LEMMA InsertedType ==
  ASSUME NEW S, NEW o \in Seq(S), NEW nb \in S
  PROVE  Inserted(o, nb) \subseteq Seq(S)
<1>1. Len(o) \in Nat /\ DOMAIN o = 1 .. Len(o) /\ \A k \in 1 .. Len(o) : o[k] \in S
  OBVIOUS
<1>2. \A known : [k \in DOMAIN o |-> IF k \in known THEN nb ELSE o[k]] \in Seq(S)
  BY <1>1, SeqDef
<1>3. ASSUME NEW i \in PlacesFor(o, nb.id) PROVE InsertAt(o, i, nb) \in Seq(S)
  <2>1. i \in 1 .. Len(o) + 1
    BY DEF PlacesFor
  <2>2. SubSeq(o, 1, i - 1) \in Seq(S) /\ SubSeq(o, i, Len(o)) \in Seq(S) /\ << nb >> \in Seq(S)
    BY <1>1, <2>1
  <2>3. SubSeq(o, 1, i - 1) \o << nb >> \o SubSeq(o, i, Len(o)) \in Seq(S)
    BY <2>2
  <2> QED BY <2>3 DEF InsertAt
<1> QED BY <1>2, <1>3 DEF Inserted

\* A HELLO of m from a table that fits leaves fitting neighbour sets.
LEMMA BroadcastType ==
  ASSUME NEW ns, \A n \in Nodes : ns[n] \in Seq(Neighbors(n)),
         NEW m \in Nodes, NEW a \in Addrs, NEW t,
         \A i \in Bits : LevelFits(Level(t, i), a, i),
         links \subseteq Pairs, NEW hearers \in SUBSET InRange(m),
         NEW f \in Broadcast(ns, m, a, t, hearers)
  PROVE  f \in [Nodes -> UNION {Seq(Neighbors(n)) : n \in Nodes}]
         /\ \A n \in Nodes : f[n] \in Seq(Neighbors(n))
<1> DEFINE lines == Update(GetUpdate(t))
           nb(n) == Neighbor(m, a, Quality[{n, m}], lines)
           after(n) == IF n \in hearers THEN Inserted(ns[n], nb(n)) ELSE {ns[n]}
<1>1. f \in [Nodes -> UNION {after(n) : n \in Nodes}] /\ \A n \in Nodes : f[n] \in after(n)
  BY DEF Broadcast
<1>2. LinesFit(lines)
  BY UpdateFits
<1>3. ASSUME NEW n \in Nodes PROVE after(n) \subseteq Seq(Neighbors(n))
  <2>1. CASE n \in hearers
    <3>1. {n, m} \in Pairs /\ n # m
      <4>1. {n, m} \in Pairs
        BY <2>1 DEF InRange
      <4>2. PICK x, y \in Nodes : x # y /\ {n, m} = {x, y}
        BY <4>1, NDPAssumption
      <4>3. ASSUME n = m PROVE FALSE
        <5>1. x \in {n, m} /\ y \in {n, m}
          BY <4>2
        <5> QED BY <4>2, <4>3, <5>1
      <4> QED BY <4>1, <4>3
    <3>2. Quality[{n, m}] \in 0 .. 100
      BY <3>1, NDPAssumption
    <3>3. lines \in [Bits -> Line]
      BY <1>2 DEF LinesFit
    <3> HIDE DEF lines
    <3>4. nb(n) \in Neighbors(n)
      BY <1>2, <3>1, <3>2, <3>3 DEF Neighbor, Neighbors
    <3> HIDE DEF nb
    <3>5. Inserted(ns[n], nb(n)) \subseteq Seq(Neighbors(n))
      BY <3>4, InsertedType
    <3> QED BY <2>1, <3>5
  <2>2. CASE n \notin hearers
    BY <2>2
  <2> QED BY <2>1, <2>2
<1> HIDE DEF after
<1> QED BY <1>1, <1>3

(***************************************************************************)
(* Addresses.                                                              *)
(***************************************************************************)
\* The least identifier.
Smallest == Min(Nodes)

\* Some node has it, since there are nodes.
LEMMA SmallestIsLeast == Smallest \in Nodes /\ \A m \in Nodes : Smallest <= m
BY NDPAssumption, NodesAreNatural, MinOfNaturals DEF Smallest

\* selectAddress and validateAddress answer an address.
LEMMA ValidateType ==
  ASSUME NEW n \in Nodes, address[n] \in Addrs, NEW o \in Seq(Neighbors(n))
  PROVE  ValidateAddress(n, o) \in Addrs
<1> DEFINE able == {k \in DOMAIN o : Selectable(o[k]) /\ Vacancies(n, o, o[k]) # {}}
           nb == o[Min(able)]
           vac == Vacancies(n, o, nb)
<1>1. ASSUME able # {} PROVE Flip(nb.address, Max(vac)) \in Addrs
  <2>1. able \in SUBSET Nat
    OBVIOUS
  <2>2. Min(able) \in able
    <3> HIDE DEF able
    <3> QED BY <1>1, <2>1, MinOfNaturals
  <2>3. nb \in Neighbors(n) /\ vac # {}
    <3> DEFINE k == Min(able)
    <3>1. k \in DOMAIN o /\ Vacancies(n, o, o[k]) # {}
      BY <2>2
    <3> HIDE DEF k
    <3>2. o[k] \in Neighbors(n)
      BY <3>1
    <3> QED BY <3>1, <3>2 DEF k
  <2> HIDE DEF nb
  <2>4. vac \subseteq Bits
    <3> DEFINE free == {-1} \cup {i \in Bits : ~EntryPresent(nb.lines, i)}
    <3>1. free \in SUBSET (Bits \cup {-1}) /\ free # {}
      OBVIOUS
    <3>2. Max(free) \in free
      <4> HIDE DEF free
      <4> QED BY <3>1, MaxOfLevels
    <3>3. InsertionPoint(nb.lines) \in Bits \cup {-1}
      BY <3>2 DEF InsertionPoint
    <3>4. \A i \in 0 .. InsertionPoint(nb.lines) : i \in Bits
      BY <3>3, AddrSizeAssumption DEF Bits
    <3> QED BY <3>4 DEF Vacancies
  <2>5. Max(vac) \in Bits
    <3> HIDE DEF vac
    <3> QED BY <2>3, <2>4, MaxOfLevels
  <2>6. nb.address \in Addrs
    BY <2>3 DEF Neighbors
  <2> HIDE DEF vac
  <2> QED BY <2>5, <2>6 DEF Flip, Addrs
<1>2. SelectAddress(n, address[n], o) \in Addrs
  BY <1>1 DEF SelectAddress
<1> QED BY <1>2 DEF ValidateAddress

\* No neighbour objects to an address of the node of the least identifier.
LEMMA SmallestIsValid ==
  ASSUME NEW o \in Seq(Neighbors(Smallest)), address[Smallest] \in Addrs,
         table[Smallest] \subseteq Entry
  PROVE  ValidateAddress(Smallest, o) = address[Smallest]
<1>1. \A i : LevelId(Smallest, table[Smallest], i) = Smallest
  <2> SUFFICES ASSUME NEW i PROVE LevelId(Smallest, table[Smallest], i) = Smallest
    OBVIOUS
  <2> DEFINE I == {Smallest} \cup {e.networkId : e \in {f \in table[Smallest] : f.level <= i}}
  <2>1. I \subseteq Nodes /\ Smallest \in I
    BY SmallestIsLeast DEF Entry
  <2>2. Min(I) \in I /\ \A m \in I : Min(I) <= m
    <3> HIDE DEF I
    <3> QED BY <2>1, NodesAreNatural, MinOfNaturals
  <2> HIDE DEF I
  <2>3. Min(I) \in Nodes /\ Smallest \in Nat /\ Min(I) <= Smallest /\ Smallest <= Min(I)
    BY <2>1, <2>2, SmallestIsLeast, NodesAreNatural
  <2>4. Min(I) \in Nat
    BY <2>3, NodesAreNatural
  <2>5. Min(I) = Smallest
    BY <2>3, <2>4
  <2> QED BY <2>5 DEF I, LevelId
<1>2. ASSUME NEW k \in DOMAIN o
      PROVE  ~Objects(Smallest, address[Smallest], table[Smallest], o[k])
  <2> DEFINE nb == o[k]
  <2>1. nb \in Neighbors(Smallest)
    OBVIOUS
  <2> HIDE DEF nb
  <2>2. nb.id \in Nodes /\ ~(nb.id < Smallest)
    <3>1. nb.id \in Nodes
      BY <2>1 DEF Neighbors
    <3>2. nb.id \in Nat /\ Smallest \in Nat /\ Smallest <= nb.id
      BY <3>1, SmallestIsLeast, NodesAreNatural
    <3> QED BY <3>1, <3>2
  <2> DEFINE ls == DiffBit(address[Smallest], nb.address)
  <2>3. ASSUME ls \in Bits, EntryPresent(nb.lines, ls)
        PROVE  ~(nb.lines[ls].networkId < Smallest)
    <3> HIDE DEF ls
    <3>1. nb.lines[ls].networkId \in Nodes
      BY <2>1, <2>3 DEF Neighbors, LinesFit
    <3>2. nb.lines[ls].networkId \in Nat /\ Smallest \in Nat /\ Smallest <= nb.lines[ls].networkId
      BY <3>1, SmallestIsLeast, NodesAreNatural
    <3> QED BY <3>2
  <2>4. ls = -1 \/ ls \in Bits
    <3>1. nb.address \in Addrs
      BY <2>1 DEF Neighbors
    <3> QED BY <3>1, DiffBitType
  <2>5. CASE ls = -1
    BY <2>2, <2>5 DEF Objects, nb
  <2>6. CASE ls \in Bits
    <3>1. ls # -1
      BY <2>6 DEF Bits
    <3>2. LevelId(Smallest, table[Smallest], ls - 1) = Smallest
      BY <1>1
    <3> QED BY <2>3, <2>6, <3>1, <3>2 DEF Objects, nb
  <2> QED BY <2>4, <2>5, <2>6
<1> QED BY <1>2 DEF ValidateAddress, Valid

(***************************************************************************)
(* The inductive invariant: types, and that every level of every table     *)
(* fits the address it was built for.                                      *)
(***************************************************************************)
\* Of one node: its address, its table and its neighbour set.
NodeFits(n, a, t, o) ==
  /\ a \in Addrs
  /\ t \subseteq Entry /\ \A i \in Bits : LevelFits(Level(t, i), a, i)
  /\ o \in Seq(Neighbors(n))

IInv ==
  /\ address \in [Nodes -> Addrs]
  /\ table \in [Nodes -> SUBSET Entry]
  /\ DOMAIN nset = Nodes
  /\ \A n \in Nodes : NodeFits(n, address[n], table[n], nset[n])
  /\ calls \in [Nodes -> 0 .. 2]
  /\ links \subseteq Pairs
  /\ faults \in 0 .. MaxFaults
  /\ SmallestStays

\* Initially every table and every neighbour set is empty.
LEMMA InitIInv == Init => IInv
<1> SUFFICES ASSUME Init PROVE IInv
  OBVIOUS
<1>1. ZeroAdd \in Addrs
  BY DEF ZeroAdd, Addrs
<1>2. ASSUME NEW n \in Nodes PROVE NodeFits(n, address[n], table[n], nset[n])
  <2>1. address[n] = ZeroAdd /\ table[n] = {} /\ nset[n] = << >>
    BY DEF Init
  <2>2. \A i \in Bits : LevelFits(Level({}, i), ZeroAdd, i)
    BY DEF Level, LevelFits, Keyed
  <2> QED BY <1>1, <2>1, <2>2 DEF NodeFits
<1>3. address[Smallest] = ZeroAdd
  BY SmallestIsLeast DEF Init
<1>4. 0 \in 0 .. MaxFaults
  BY NDPAssumption
<1> QED BY <1>1, <1>2, <1>3, <1>4 DEF Init, IInv, SmallestStays, Smallest

\* HELLOs that are lost stay within the bound.
LEMMA LoseType ==
  ASSUME IInv, NEW lost, IsFiniteSet(lost), Lose(lost)
  PROVE  faults' \in 0 .. MaxFaults
<1>1. Cardinality(lost) \in Nat
  BY FS_CardinalityType
<1> QED BY <1>1, NDPAssumption DEF Lose, IInv

\* Nodes are finitely many, and so are those that miss a HELLO.
LEMMA LostFinite ==
  ASSUME NEW lost \in SUBSET Nodes
  PROVE  IsFiniteSet(lost)
<1>1. IsFiniteSet(0 .. INFINITO)
  BY FS_Interval, TableAssumption
<1>2. lost \subseteq 0 .. INFINITO
  BY NodesAreNatural, TableAssumption
<1> QED BY <1>1, <1>2, FS_Subset

\* A HELLO, whoever hears or loses it, keeps the invariant (sendHello, recvHello).
LEMMA HelloIInv ==
  ASSUME IInv, NEW n \in Nodes, NEW lost \in SUBSET InRange(n), Hello(n, lost)
  PROVE  IInv'
<1>1. faults' \in 0 .. MaxFaults
  BY LoseType, LostFinite DEF Hello, InRange
<1>2. nset' \in [Nodes -> UNION {Seq(Neighbors(m)) : m \in Nodes}]
      /\ \A m \in Nodes : nset'[m] \in Seq(Neighbors(m))
  <2>1. \A m \in Nodes : nset[m] \in Seq(Neighbors(m))
    BY DEF IInv, NodeFits
  <2>2. /\ links \subseteq Pairs /\ address[n] \in Addrs
        /\ \A i \in Bits : LevelFits(Level(table[n], i), address[n], i)
    BY DEF IInv, NodeFits
  <2>3. InRange(n) \ lost \in SUBSET InRange(n)
    OBVIOUS
  <2>4. nset' \in Broadcast(nset, n, address[n], table[n], InRange(n) \ lost)
    BY DEF Hello
  <2> QED BY <2>1, <2>2, <2>3, <2>4, BroadcastType
<1>3. address' = address /\ table' = table /\ calls' = calls /\ links' = links
  BY DEF Hello
<1>4. \A m \in Nodes : NodeFits(m, address'[m], table'[m], nset'[m])
  BY <1>2, <1>3 DEF IInv, NodeFits
<1> QED BY <1>1, <1>2, <1>3, <1>4 DEF IInv, SmallestStays

\* A call of ASPUTimer::handl keeps the invariant: the purge leaves neighbours,
\* the address chosen from them is an address, the table built for it fits it,
\* and the HELLO that the second call sends is a HELLO like any other.
LEMMA TickIInv ==
  ASSUME IInv, NEW n \in Nodes, NEW gone, NEW lost \in SUBSET InRange(n), Tick(n, gone, lost)
  PROVE  IInv'
<1> DEFINE o == Purged(nset[n], gone)
           a == ValidateAddress(n, o)
           t == UpdateRoutingTable(a, o)
           ns == [nset EXCEPT ![n] = o]
<1>1. o \in Seq(Neighbors(n))
  BY PurgedType DEF IInv, NodeFits
<1>2. a \in Addrs
  <2> HIDE DEF o
  <2> QED BY <1>1, ValidateType DEF IInv
<1>3. t \subseteq Entry /\ \A i \in Bits : LevelFits(Level(t, i), a, i)
  <2> HIDE DEF o, a
  <2> QED BY <1>1, <1>2, TableFits
<1>4. /\ address' = [address EXCEPT ![n] = a] /\ table' = [table EXCEPT ![n] = t]
      /\ calls' = [calls EXCEPT ![n] = 2] /\ links' = links
      /\ \/ calls[n] = 1 /\ Lose(lost) /\ nset' \in Broadcast(ns, n, a, t, InRange(n) \ lost)
         \/ nset' = ns /\ faults' = faults
  BY DEF Tick
<1>5. n = Smallest => a = address[n]
  <2> SUFFICES ASSUME n = Smallest PROVE a = address[n]
    OBVIOUS
  <2> HIDE DEF o
  <2>1. address[n] \in Addrs /\ table[n] \subseteq Entry
    BY DEF IInv
  <2> QED BY <1>1, <2>1, SmallestIsValid
<1> HIDE DEF o, a, t
<1>6. ns \in [Nodes -> UNION {Seq(Neighbors(m)) : m \in Nodes}]
      /\ \A m \in Nodes : ns[m] \in Seq(Neighbors(m))
  <2>1. \A m \in Nodes : ns[m] \in Seq(Neighbors(m))
    BY <1>1 DEF IInv, NodeFits
  <2>2. DOMAIN ns = Nodes /\ ns = [m \in DOMAIN ns |-> ns[m]]
    BY DEF IInv
  <2> HIDE DEF ns
  <2> QED BY <2>1, <2>2
<1>7. nset' \in [Nodes -> UNION {Seq(Neighbors(m)) : m \in Nodes}]
      /\ \A m \in Nodes : nset'[m] \in Seq(Neighbors(m))
  <2>1. CASE nset' = ns
    <3> HIDE DEF ns
    <3> QED BY <1>6, <2>1
  <2>2. CASE nset' \in Broadcast(ns, n, a, t, InRange(n) \ lost)
    <3>1. links \subseteq Pairs
      BY DEF IInv
    <3>2. InRange(n) \ lost \in SUBSET InRange(n)
      OBVIOUS
    <3> HIDE DEF ns
    <3> QED BY <1>2, <1>3, <1>6, <2>2, <3>1, <3>2, BroadcastType
  <2> QED BY <1>4, <2>1, <2>2
<1>8. faults' \in 0 .. MaxFaults
  <2>1. CASE Lose(lost)
    BY <2>1, LoseType, LostFinite DEF InRange
  <2>2. CASE faults' = faults
    BY <2>2 DEF IInv
  <2> QED BY <1>4, <2>1, <2>2
<1>9. address' \in [Nodes -> Addrs] /\ table' \in [Nodes -> SUBSET Entry]
      /\ calls' \in [Nodes -> 0 .. 2] /\ links' \subseteq Pairs
  BY <1>2, <1>3, <1>4 DEF IInv
<1>10. ASSUME NEW m \in Nodes PROVE NodeFits(m, address'[m], table'[m], nset'[m])
  <2>1. CASE m = n
    <3>1. address'[m] = a /\ table'[m] = t
      BY <1>4, <2>1 DEF IInv
    <3> QED BY <1>2, <1>3, <1>7, <2>1, <3>1 DEF NodeFits
  <2>2. CASE m # n
    <3>1. address'[m] = address[m] /\ table'[m] = table[m]
      BY <1>4, <2>2 DEF IInv
    <3> QED BY <1>7, <3>1 DEF IInv, NodeFits
  <2> QED BY <2>1, <2>2
<1>11. address'[Smallest] = ZeroAdd
  BY <1>4, <1>5, SmallestIsLeast DEF IInv, SmallestStays, Smallest
<1> QED BY <1>7, <1>8, <1>9, <1>10, <1>11 DEF IInv, SmallestStays, Smallest

\* So does every step.
LEMMA NextIInv == IInv /\ [Next]_vars => IInv'
<1> SUFFICES ASSUME IInv, [Next]_vars PROVE IInv'
  OBVIOUS
<1>1. CASE \E n \in Nodes : FirstCall(n)
  BY <1>1 DEF FirstCall, IInv, SmallestStays
<1>2. CASE \E n \in Nodes : \E gone \in SUBSET Silent(n), lost \in SUBSET InRange(n) : Tick(n, gone, lost)
  BY <1>2, TickIInv
<1>3. CASE \E n \in Nodes : \E lost \in SUBSET InRange(n) : Hello(n, lost)
  BY <1>3, HelloIInv
<1>4. CASE \E p \in Pairs : LinkChange(p)
  BY <1>4, NDPAssumption DEF LinkChange, IInv, SmallestStays
<1>5. CASE UNCHANGED vars
  BY <1>5 DEF vars, IInv, SmallestStays
<1> QED BY <1>1, <1>2, <1>3, <1>4, <1>5 DEF Next

-----------------------------------------------------------------------------
\* At every node the table fits the address, and the neighbour set holds
\* neighbours whose announcements fit the addresses they announce; the least
\* identifier has the address zero (validateAddress, updateRoutingTable).
THEOREM Invariance == Spec => []IInv
<1>1. Init => IInv
  BY InitIInv
<1>2. IInv /\ [Next]_vars => IInv'
  BY NextIInv
<1> QED BY <1>1, <1>2, PTL DEF Spec

\* The types: every identifier in a table or a neighbour set is a node's, however
\* many HELLOs are lost.
THEOREM Typing == Spec => []TypeOK
<1>1. IInv => TypeOK
  <2> SUFFICES ASSUME IInv PROVE TypeOK
    OBVIOUS
  <2>1. ASSUME NEW n \in Nodes, NEW k \in DOMAIN nset[n]
        PROVE  nset[n][k] \in [id : Nodes \ {n}, address : Addrs, quality : 0 .. 100,
                               lines : [Bits -> Line]]
    <3>1. nset[n] \in Seq(Neighbors(n))
      BY DEF IInv, NodeFits
    <3>2. nset[n][k] \in Neighbors(n)
      BY <3>1
    <3> QED BY <3>2 DEF Neighbors
  <2> QED BY <2>1 DEF TypeOK, IInv
<1> QED BY <1>1, Invariance, PTL

\* The node of the least identifier keeps the address zero: no table names a
\* smaller subtree, and validateAddress moves only the node of the larger one.
THEOREM SmallestKeepsAddress == Spec => []SmallestStays
<1>1. IInv => SmallestStays
  BY DEF IInv
<1> QED BY <1>1, Invariance, PTL

\* updateRoutingTable leaves one entry per next hop and level, none of a level
\* below the one where the next hop's address parts from the own.
THEOREM TablesAlwaysFit == Spec => []TablesFit
<1>1. IInv => TablesFit
  <2> SUFFICES ASSUME IInv, NEW n \in Nodes
               PROVE  /\ \A e \in table[n] :
                            /\ e.nextHopAdd # address[n]
                            /\ e.level >= DiffBit(address[n], e.nextHopAdd)
                      /\ \A e, f \in table[n] :
                            e.level = f.level /\ e.nextHopAdd = f.nextHopAdd => e = f
    BY DEF TablesFit
  <2>1. /\ address[n] \in Addrs /\ table[n] \subseteq Entry
        /\ \A i \in Bits : LevelFits(Level(table[n], i), address[n], i)
    BY DEF IInv, NodeFits
  <2>2. \A e \in table[n] : e.level \in Bits /\ e.nextHopAdd \in Addrs /\ e \in Level(table[n], e.level)
    BY <2>1 DEF Entry, Level
  <2>3. ASSUME NEW e \in table[n]
        PROVE  e.nextHopAdd # address[n] /\ e.level >= DiffBit(address[n], e.nextHopAdd)
    <3>1. DiffBit(address[n], e.nextHopAdd) \in Int
      BY <2>1, <2>2, DiffBitType DEF Bits
    <3>2. EntryFits(e, address[n], e.level)
      BY <2>1, <2>2 DEF LevelFits
    <3> QED BY <2>2, <3>1, <3>2 DEF EntryFits, Bits
  <2>4. ASSUME NEW e \in table[n], NEW f \in table[n],
               e.level = f.level, e.nextHopAdd = f.nextHopAdd
        PROVE  e = f
    BY <2>1, <2>2, <2>4 DEF LevelFits, Keyed
  <2> QED BY <2>3, <2>4
<1> QED BY <1>1, Invariance, PTL

\* Two nodes that part at level 0 never learn a way from each other: the metric
\* that getUpdate announces is read as a route log, and of a link that hears
\* more than half of the HELLOs (the code's threshold is 0.6) it has the bit 0.
THEOREM TwinsTeachNothing ==
  ASSUME LQE_THRESHOLD > 50
  PROVE  Spec => []NothingFromTwin
<1>1. IInv => NothingFromTwin
  <2> SUFFICES ASSUME IInv, NEW n \in Nodes, NEW e \in table[n], e.level > 0
               PROVE  DiffBit(address[n], e.nextHopAdd) # 0
    BY DEF NothingFromTwin
  <2>1. /\ table[n] \subseteq Entry
        /\ \A i \in Bits : LevelFits(Level(table[n], i), address[n], i)
    BY DEF IInv, NodeFits
  <2>2. e.level \in Bits /\ e \in Level(table[n], e.level)
    BY <2>1 DEF Entry, Level
  <2>3. EntryFits(e, address[n], e.level)
    BY <2>1, <2>2 DEF LevelFits
  <2> QED BY <2>3 DEF EntryFits, Discerning
<1> QED BY <1>1, Invariance, PTL
=============================================================================
