---------------------------- MODULE AspuFunction ----------------------------
(***************************************************************************)
(* Dynamic addresses and the two functions on them that every other part   *)
(* of ASPU is built from (src/aspu_function.h): DiffBit, the level at      *)
(* which two addresses part, and hash, the rendezvous address of a node.   *)
(*                                                                         *)
(* An address is the value of a std::bitset<ADDR_SIZE>, here a function    *)
(* from bit positions to {0, 1}; bit ADDR_SIZE-1 is the most significant.  *)
(***************************************************************************)
EXTENDS Integers

CONSTANT ADDR_SIZE     \* bits of an address: 16 in the code

ASSUME AddrSizeAssumption == ADDR_SIZE \in Nat \ {0}

Bits == 0 .. (ADDR_SIZE - 1)

Addrs == [Bits -> {0, 1}]

\* bitset<ADDR_SIZE>(0): the address every node starts with, and the value of
\* an address field in a header that nobody has written.
ZeroAdd == [i \in Bits |-> 0]

(***************************************************************************)
(* The loop of DiffBit runs from the top bit down and stops at the first   *)
(* bit that differs; it falls off the end, at -1, when there is none.      *)
(***************************************************************************)
DiffAt(n1, n2, i) == n1[i] # n2[i] /\ \A j \in Bits : j > i => n1[j] = n2[j]

DiffBit(n1, n2) == IF n1 = n2 THEN -1 ELSE CHOOSE i \in Bits : DiffAt(n1, n2, i)

\* bitset<ADDR_SIZE>(n): the low ADDR_SIZE bits of an integer.
ToBits(n) == [i \in Bits |-> (n \div 2^i) % 2]

Flip(a, i) == [a EXCEPT ![i] = 1 - @]

\* The bits below k reset: what the loops of sendDarq, recvDarq, sendDaup and
\* recvDaup have made of an address after k rounds.
ResetBelow(a, k) == [i \in Bits |-> IF i < k THEN 0 ELSE a[i]]

\* hash: the bits of the identifier reversed, then the top bit flipped.
HashBits(b) == Flip([i \in Bits |-> b[ADDR_SIZE - 1 - i]], ADDR_SIZE - 1)

Hash(id) == HashBits(ToBits(id))

\* The order of std::set<RoutingEntry*, setCompare>: as unsigned numbers.
Below(n1, n2) == n1 # n2 /\ n1[DiffBit(n1, n2)] < n2[DiffBit(n1, n2)]
=============================================================================
