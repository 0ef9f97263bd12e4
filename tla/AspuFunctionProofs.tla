------------------------- MODULE AspuFunctionProofs -------------------------
(***************************************************************************)
(* What the operators of AspuFunction return, for addresses of any length. *)
(***************************************************************************)
EXTENDS AspuFunction, NaturalsInduction, WellFoundedInduction, TLAPS

\* Every set of natural numbers that is not empty has a least member.
LEMMA LeastNatural ==
  ASSUME NEW T \in SUBSET Nat, T # {}
  PROVE  \E m \in T : \A n \in T : m <= n
<1>1. PICK m \in T : \A n \in T : ~(<<n, m>> \in OpToRel(<, Nat))
  BY NatLessThanWellFounded, WFMin
<1>2. \A n \in T : ~(n < m)
  BY <1>1 DEF OpToRel
<1> QED BY <1>2

\* A set of natural numbers below a bound has a greatest member.
LEMMA GreatestNatural ==
  ASSUME NEW T \in SUBSET Nat, T # {}, NEW b \in Nat, \A n \in T : n <= b
  PROVE  \E m \in T : \A n \in T : n <= m
<1> DEFINE U == {b - n : n \in T}
<1>1. U \in SUBSET Nat /\ U # {}
  <2>1. PICK n \in T : TRUE
    OBVIOUS
  <2>2. b - n \in U
    BY <2>1
  <2>3. \A k \in T : b - k \in Nat
    OBVIOUS
  <2> QED BY <2>2, <2>3
<1>2. PICK v \in U : \A w \in U : v <= w
  BY <1>1, LeastNatural
<1>3. PICK m \in T : v = b - m
  BY <1>2
<1>4. ASSUME NEW n \in T PROVE n <= m
  <2>1. v <= b - n
    BY <1>2
  <2> QED BY <2>1, <1>3
<1> QED BY <1>4

\* Two different addresses part at some bit (the loop of DiffBit returns).
LEMMA AddressesPart ==
  ASSUME NEW a \in Addrs, NEW b \in Addrs, a # b
  PROVE  \E i \in Bits : DiffAt(a, b, i)
<1> DEFINE T == {i \in Bits : a[i] # b[i]}
<1>1. T \in SUBSET Nat /\ T # {} /\ \A n \in T : n <= ADDR_SIZE
  BY AddrSizeAssumption DEF Addrs, Bits
<1>2. PICK m \in T : \A n \in T : n <= m
  <2> HIDE DEF T
  <2> QED BY <1>1, AddrSizeAssumption, GreatestNatural
<1>3. ASSUME NEW j \in Bits, j > m PROVE a[j] = b[j]
  BY <1>2, <1>3 DEF Bits
<1> QED BY <1>2, <1>3 DEF DiffAt

\* DiffBit answers the top bit at which different addresses differ.
LEMMA DiffBitAt ==
  ASSUME NEW a \in Addrs, NEW b \in Addrs, a # b
  PROVE  DiffBit(a, b) \in Bits /\ DiffAt(a, b, DiffBit(a, b))
BY AddressesPart DEF DiffBit

\* The bit that DiffBit answers is determined by the two addresses.
LEMMA DiffBitUnique ==
  ASSUME NEW a \in Addrs, NEW b \in Addrs, NEW i \in Bits, DiffAt(a, b, i)
  PROVE  a # b /\ DiffBit(a, b) = i
<1>1. a # b
  BY DEF DiffAt
<1>2. DiffBit(a, b) \in Bits /\ DiffAt(a, b, DiffBit(a, b))
  BY <1>1, DiffBitAt
<1>3. ~(DiffBit(a, b) < i) /\ ~(DiffBit(a, b) > i)
  BY <1>2 DEF DiffAt, Bits
<1> QED BY <1>1, <1>2, <1>3 DEF Bits

\* DiffBit answers a bit of an address, or -1 when the addresses are equal.
LEMMA DiffBitType ==
  ASSUME NEW a \in Addrs, NEW b \in Addrs
  PROVE  DiffBit(a, b) \in Bits \cup {-1} /\ (DiffBit(a, b) = -1 <=> a = b)
<1>1. CASE a = b
  BY <1>1 DEF DiffBit
<1>2. CASE a # b
  BY <1>2, DiffBitAt DEF Bits
<1> QED BY <1>1, <1>2

\* A set of addresses that is not empty has a lowest one, the first that an
\* iterator over std::set<RoutingEntry*, setCompare> meets.
LEMMA LowestAddress ==
  ASSUME NEW T \in SUBSET Addrs, T # {}
  PROVE  \E a \in T : \A b \in T \ {a} : Below(a, b)
<1> DEFINE \* a is lowest as far as the bits from k up can tell
           LowestFrom(k, a) ==
             \A b \in T : \/ \A i \in Bits : i >= k => a[i] = b[i]
                          \/ \E j \in Bits : j >= k /\ DiffAt(a, b, j) /\ a[j] < b[j]
           K == {k \in 0 .. ADDR_SIZE : \E a \in T : LowestFrom(k, a)}
<1>1. ADDR_SIZE \in K
  <2>1. PICK a \in T : TRUE
    OBVIOUS
  <2>2. LowestFrom(ADDR_SIZE, a)
    BY AddrSizeAssumption DEF Bits
  <2> QED BY <2>2, AddrSizeAssumption
<1>2. PICK k \in K : \A n \in K : k <= n
  <2>1. K \in SUBSET Nat /\ K # {}
    BY <1>1
  <2> HIDE DEF K
  <2> QED BY <2>1, LeastNatural
<1>3. k = 0
  <2> SUFFICES ASSUME k # 0 PROVE FALSE
    OBVIOUS
  <2> DEFINE i == k - 1
  <2>1. i \in Bits /\ i \in Nat /\ i < k
    BY AddrSizeAssumption DEF Bits
  <2>2. PICK a \in T : LowestFrom(k, a)
    OBVIOUS
  <2>3. PICK c \in T : /\ \A b \in Bits : b >= k => c[b] = a[b]
                       /\ \/ c[i] = 0
                          \/ \A d \in T : (\A b \in Bits : b >= k => d[b] = a[b]) => d[i] = 1
    <3>1. CASE \E d \in T : (\A b \in Bits : b >= k => d[b] = a[b]) /\ d[i] = 0
      BY <3>1
    <3>2. CASE \A d \in T : (\A b \in Bits : b >= k => d[b] = a[b]) => d[i] # 0
      <4>1. \A d \in T : d[i] \in {0, 1}
        BY <2>1 DEF Addrs
      <4> QED BY <3>2, <4>1
    <3> QED BY <3>1, <3>2
  <2>4. ASSUME NEW b \in T
        PROVE  \/ \A n \in Bits : n >= i => c[n] = b[n]
               \/ \E j \in Bits : j >= i /\ DiffAt(c, b, j) /\ c[j] < b[j]
    <3>1. CASE \A n \in Bits : n >= k => a[n] = b[n]
      <4>1. \A n \in Bits : n >= k => c[n] = b[n]
        BY <2>3, <3>1
      <4>2. c[i] \in {0, 1} /\ b[i] \in {0, 1}
        BY <2>1 DEF Addrs
      <4>3. CASE c[i] = b[i]
        BY <4>1, <4>3 DEF Bits
      <4>4. CASE c[i] # b[i]
        <5>1. c[i] < b[i]
          BY <2>3, <3>1, <4>2, <4>4
        <5>2. DiffAt(c, b, i)
          BY <4>1, <4>4 DEF DiffAt, Bits
        <5> QED BY <5>1, <5>2, <2>1
      <4> QED BY <4>3, <4>4
    <3>2. CASE \E j \in Bits : j >= k /\ DiffAt(a, b, j) /\ a[j] < b[j]
      <4>1. PICK j \in Bits : j >= k /\ DiffAt(a, b, j) /\ a[j] < b[j]
        BY <3>2
      <4>2. \A n \in Bits : n >= j => c[n] = a[n]
        BY <4>1, <2>3 DEF Bits
      <4>3. DiffAt(c, b, j) /\ c[j] < b[j] /\ j >= i
        BY <4>1, <4>2, <2>1 DEF DiffAt, Bits
      <4> QED BY <4>3
    <3> QED BY <2>2, <3>1, <3>2
  <2>5. i \in K
    <3>1. LowestFrom(i, c)
      BY <2>4
    <3>2. i \in 0 .. ADDR_SIZE
      BY <2>1, AddrSizeAssumption
    <3> QED BY <3>1, <3>2
  <2> QED BY <1>2, <2>1, <2>5
<1>4. PICK a \in T : LowestFrom(0, a)
  BY <1>3
<1>5. ASSUME NEW b \in T \ {a} PROVE Below(a, b)
  <2>1. ~(\A i \in Bits : i >= 0 => a[i] = b[i])
    <3>1. a \in [Bits -> {0, 1}] /\ b \in [Bits -> {0, 1}] /\ a # b
      BY DEF Addrs
    <3>2. \E i \in Bits : a[i] # b[i]
      BY <3>1
    <3> QED BY <3>2 DEF Bits
  <2>2. PICK j \in Bits : DiffAt(a, b, j) /\ a[j] < b[j]
    BY <1>4, <2>1
  <2>3. a # b /\ DiffBit(a, b) = j
    BY <2>2, DiffBitUnique
  <2> QED BY <2>2, <2>3 DEF Below
<1> QED BY <1>5

\* DiffBit, the level at which two addresses part, is a distance: zero (-1)
\* between equal addresses only, the same both ways, and an ultrametric.  This
\* is why a neighbour with a lower DiffBit to a destination shares more of the
\* tree with it, which RoutingTable::getEntry relies on.
THEOREM DiffBitUltrametric ==
  ASSUME NEW a \in Addrs, NEW b \in Addrs, NEW c \in Addrs
  PROVE  /\ DiffBit(a, b) = -1 <=> a = b
         /\ DiffBit(a, b) = DiffBit(b, a)
         /\ DiffBit(a, c) <= DiffBit(a, b) \/ DiffBit(a, c) <= DiffBit(b, c)
<1>1. DiffBit(a, b) = -1 <=> a = b
  BY DiffBitType
<1>2. DiffBit(a, b) = DiffBit(b, a)
  <2>1. CASE a = b
    BY <2>1
  <2>2. CASE a # b
    <3>1. DiffBit(a, b) \in Bits /\ DiffAt(b, a, DiffBit(a, b))
      BY <2>2, DiffBitAt DEF DiffAt
    <3> QED BY <3>1, DiffBitUnique
  <2> QED BY <2>1, <2>2
<1>3. DiffBit(a, c) <= DiffBit(a, b) \/ DiffBit(a, c) <= DiffBit(b, c)
  <2>1. CASE a = b \/ b = c
    <3>1. DiffBit(a, c) \in Int
      BY DiffBitType DEF Bits
    <3> QED BY <2>1, <3>1
  <2>2. CASE a = c
    <3>1. DiffBit(a, c) = -1 /\ DiffBit(a, b) \in Bits \cup {-1}
      BY <2>2, DiffBitType
    <3> QED BY <3>1 DEF Bits
  <2>3. CASE a # b /\ b # c /\ a # c
    <3> DEFINE i == DiffBit(a, b)
               j == DiffBit(b, c)
               k == DiffBit(a, c)
    <3>1. /\ i \in Bits /\ DiffAt(a, b, i)
          /\ j \in Bits /\ DiffAt(b, c, j)
          /\ k \in Bits /\ DiffAt(a, c, k)
      BY <2>3, DiffBitAt
    <3> HIDE DEF i, j, k
    <3>2. ~(i < k /\ j < k)
      BY <3>1 DEF DiffAt
    <3>3. k <= i \/ k <= j
      BY <3>1, <3>2 DEF Bits
    <3> QED BY <3>3 DEF i, j, k
  <2> QED BY <2>1, <2>2, <2>3
<1> QED BY <1>1, <1>2, <1>3

\* hash gives different identifiers of ADDR_SIZE bits different addresses: no
\* two nodes share a rendezvous by accident of the hash.
THEOREM HashBitsInjective ==
  ASSUME NEW b \in Addrs, NEW c \in Addrs, HashBits(b) = HashBits(c)
  PROVE  b = c
<1> DEFINE top == ADDR_SIZE - 1
           rev(x) == [i \in Bits |-> x[top - i]]
<1>1. ASSUME NEW i \in Bits PROVE b[i] = c[i]
  <2>1. top - i \in Bits /\ top - (top - i) = i /\ top \in Bits
    BY AddrSizeAssumption DEF Bits
  <2>2. HashBits(b)[top - i] = HashBits(c)[top - i]
    OBVIOUS
  <2>3. /\ HashBits(b)[top - i] = IF top - i = top THEN 1 - b[i] ELSE b[i]
        /\ HashBits(c)[top - i] = IF top - i = top THEN 1 - c[i] ELSE c[i]
    BY <2>1 DEF HashBits, Flip, Addrs
  <2>4. b[i] \in {0, 1} /\ c[i] \in {0, 1}
    BY DEF Addrs
  <2> QED BY <2>2, <2>3, <2>4
<1> QED BY <1>1 DEF Addrs
=============================================================================
