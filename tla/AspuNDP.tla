------------------------------ MODULE AspuNDP -------------------------------
(***************************************************************************)
(* The neighbour discovery protocol of several ASPU nodes (class NDP and   *)
(* ASPUTimer in src/aspu.cc): HELLOs, the neighbour set, the validation    *)
(* and the selection of dynamic addresses, the rebuilding of the tables.   *)
(*                                                                         *)
(* Time is abstract.  The timers of the nodes run in any order; a HELLO is *)
(* heard in the instant it is sent by every node in range, except those    *)
(* that lose it.  The counts of HELLOs from which the code computes a link *)
(* quality are the subject of AspuLink; here a link has a quality while it *)
(* is up, and a neighbour out of range is forgotten at some later tick.    *)
(***************************************************************************)
EXTENDS AspuTable, Sequences, SequencesExt

CONSTANTS
  Nodes,            \* the identifiers of the nodes
  Pairs,            \* pairs of nodes that may come into range
  Quality,          \* quality of the link of a pair, in hundredths
  LQE_THRESHOLD,    \* 60: the quality a link needs
  MaxFaults         \* bound: links that come and go, HELLOs that are lost

ASSUME NDPAssumption ==
  /\ Nodes # {} /\ Nodes \subseteq 0 .. (INFINITO - 1)
  /\ \A p \in Pairs : \E n, m \in Nodes : n # m /\ p = {n, m}
  /\ Quality \in [Pairs -> 0 .. 100]
  /\ LQE_THRESHOLD \in 0 .. 100
  /\ MaxFaults \in Nat

VARIABLES
  address,      \* ASPU::address_
  table,        \* RoutingTable::table_
  nset,         \* NDP::neighborSet_, in the sequence in which it is visited
  calls,        \* ASPUTimer::numberOfCall_, up to 2
  links,        \* the pairs in range of each other
  faults,       \* bounded by MaxFaults
  last          \* the event dispatched last

vars == <<address, table, nset, calls, links, faults, last>>

Init ==
  /\ address = [n \in Nodes |-> ZeroAdd]
  /\ table = [n \in Nodes |-> {}]
  /\ nset = [n \in Nodes |-> << >>]
  /\ calls = [n \in Nodes |-> 0]
  /\ links \in SUBSET Pairs
  /\ faults = 0
  /\ last = << "none" >>

InRange(n) == {m \in Nodes : {n, m} \in links}

(***************************************************************************)
(* neighborInsert: the neighbour nb in the neighbour set o.                *)
(*                                                                         *)
(* The set is a std::multiset by the highest free level, most first, then  *)
(* by id.  A neighbour that is known keeps its place although its key may  *)
(* change; one that is new is placed before its table is read, so as if    *)
(* all its levels were free.  Between keys that have changed the place is  *)
(* any that its two neighbours in the sequence admit.                      *)
(***************************************************************************)
Neighbor(m, add, quality, lines) ==
  [id |-> m, address |-> add, quality |-> quality, lines |-> lines]

Precede(m, point, nb) ==
  \/ point > InsertionPoint(nb.lines)
  \/ point = InsertionPoint(nb.lines) /\ m < nb.id

PlacesFor(o, m) ==
  {i \in 1 .. Len(o) + 1 :
     /\ i > 1 => ~Precede(m, ADDR_SIZE - 1, o[i - 1])
     /\ i <= Len(o) => Precede(m, ADDR_SIZE - 1, o[i])}

Inserted(o, nb) ==
  LET known == {k \in DOMAIN o : o[k].id = nb.id}
  IN IF known # {} THEN {[k \in DOMAIN o |-> IF k \in known THEN nb ELSE o[k]]}
     ELSE {InsertAt(o, i, nb) : i \in PlacesFor(o, nb.id)}

(***************************************************************************)
(* sendHello of node m, with address a and table t, and recvHello of the   *)
(* nodes that hear it: what it may make of the neighbour sets ns.          *)
(***************************************************************************)
Broadcast(ns, m, a, t, hearers) ==
  LET lines == Update(GetUpdate(t))
      after(n) == IF n \in hearers
                  THEN Inserted(ns[n], Neighbor(m, a, Quality[{n, m}], lines))
                  ELSE {ns[n]}
  IN {f \in [Nodes -> UNION {after(n) : n \in Nodes}] : \A n \in Nodes : f[n] \in after(n)}

Lose(lost) ==
  /\ faults + Cardinality(lost) <= MaxFaults
  /\ faults' = faults + Cardinality(lost)

Hello(m, lost) ==
  /\ calls[m] = 2
  /\ Lose(lost)
  /\ nset' \in Broadcast(nset, m, address[m], table[m], InRange(m) \ lost)
  /\ last' = << "hello", m >>
  /\ UNCHANGED <<address, table, calls, links>>

(***************************************************************************)
(* NDP::validateAddress of node n, had it the address a and the table t.   *)
(***************************************************************************)
InUse(nb) == nb.quality >= LQE_THRESHOLD

\* (Mutants: both of two nodes with one address object; neither does.)
ObjectsBoth(n, a, t, nb) ==
  LET ls == DiffBit(a, nb.address)
  IN IF ls = -1 THEN nb.id # n
     ELSE EntryPresent(nb.lines, ls) /\ nb.lines[ls].networkId < LevelId(n, t, ls - 1)

ObjectsTable(n, a, t, nb) ==
  LET ls == DiffBit(a, nb.address)
  IN ls # -1 /\ EntryPresent(nb.lines, ls) /\ nb.lines[ls].networkId < LevelId(n, t, ls - 1)

\* (Mutant: a subtree of a smaller identifier is no objection.)
ObjectsAddress(n, a, t, nb) == DiffBit(a, nb.address) = -1 /\ nb.id < n

\* (Mutant: a subtree is judged by the node's own identifier.)
ObjectsOwnId(n, a, t, nb) ==
  LET ls == DiffBit(a, nb.address)
  IN IF ls = -1 THEN nb.id < n
     ELSE EntryPresent(nb.lines, ls) /\ nb.lines[ls].networkId < n

Objects(n, a, t, nb) ==
  LET ls == DiffBit(a, nb.address)
  IN IF ls = -1 THEN nb.id < n
     ELSE EntryPresent(nb.lines, ls) /\ nb.lines[ls].networkId < LevelId(n, t, ls - 1)

Valid(n, a, t, o) == \A k \in DOMAIN o : InUse(o[k]) => ~Objects(n, a, t, o[k])

(***************************************************************************)
(* NDP::selectAddress: next to every neighbour in turn, from its highest   *)
(* free level down, the first address that is valid, judged with the table *)
(* that this neighbour alone makes; the old address if there is none.      *)
(***************************************************************************)
\* The comparison is strict here, and only here.
Selectable(nb) == nb.quality > LQE_THRESHOLD

Vacancies(n, o, nb) ==
  {i \in 0 .. InsertionPoint(nb.lines) :
     LET a == Flip(nb.address, i) IN Valid(n, a, SetUpdate(a, {}, nb), o)}

SelectAddress(n, old, o) ==
  LET able == {k \in DOMAIN o : Selectable(o[k]) /\ Vacancies(n, o, o[k]) # {}}
      nb == o[Min(able)]
  IN IF able = {} THEN old ELSE Flip(nb.address, Max(Vacancies(n, o, nb)))

ValidateAddress(n, o) ==
  IF Valid(n, address[n], table[n], o) THEN address[n] ELSE SelectAddress(n, address[n], o)

\* (Mutant: the table is cleared for every neighbour.)
UpdateRoutingTableLast(a, o) == IF o = << >> THEN {} ELSE SetUpdate(a, {}, o[Len(o)])

\* NDP::updateRoutingTable, from the table that validateAddress has cleared:
\* what the neighbours in use leave of level i, one after the other.
LevelAfter(a, o, i) ==
  LET after[k \in 0 .. Len(o)] ==
        IF k = 0 THEN {}
        ELSE IF InUse(o[k]) THEN LevelUpdate(a, after[k - 1], o[k], i) ELSE after[k - 1]
  IN after[Len(o)]

UpdateRoutingTable(a, o) == UNION {LevelAfter(a, o, i) : i \in Bits}

\* neighborPurge, of the neighbours that have expired.
Purged(o, gone) ==
  LET rest[k \in 0 .. Len(o)] ==
        IF k = 0 THEN << >>
        ELSE IF o[k].id \in gone THEN rest[k - 1] ELSE Append(rest[k - 1], o[k])
  IN rest[Len(o)]

(***************************************************************************)
(* ASPUTimer: the first call only waits; the others are neighborPurge,     *)
(* validateAddress and updateRoutingTable, and the second one starts the   *)
(* HELLO timer, which sends its first HELLO at once.                       *)
(***************************************************************************)
FirstCall(n) ==
  /\ calls[n] = 0
  /\ calls' = [calls EXCEPT ![n] = 1]
  /\ UNCHANGED <<address, table, nset, links, faults, last>>

Silent(n) == {nset[n][k].id : k \in DOMAIN nset[n]} \ InRange(n)

Tick(n, gone, lost) ==
  /\ calls[n] > 0
  /\ gone \subseteq Silent(n)
  /\ calls' = [calls EXCEPT ![n] = 2]
  /\ \E o \in {Purged(nset[n], gone)} :
     \E a \in {ValidateAddress(n, o)} :
     \E t \in {UpdateRoutingTable(a, o)} :
        LET ns == [nset EXCEPT ![n] = o]
        IN /\ address' = [address EXCEPT ![n] = a]
           /\ table' = [table EXCEPT ![n] = t]
           /\ IF calls[n] = 1
              THEN /\ Lose(lost)
                   /\ nset' \in Broadcast(ns, n, a, t, InRange(n) \ lost)
              ELSE lost = {} /\ nset' = ns /\ UNCHANGED faults
  /\ last' = << "tick", n, gone = Silent(n) >>
  /\ UNCHANGED links

\* Nodes move in and out of range.
LinkChange(p) ==
  /\ faults < MaxFaults
  /\ faults' = faults + 1
  /\ links' = IF p \in links THEN links \ {p} ELSE links \cup {p}
  /\ UNCHANGED <<address, table, nset, calls, last>>

Next ==
  \/ \E n \in Nodes : FirstCall(n)
  \/ \E n \in Nodes : \E gone \in SUBSET Silent(n), lost \in SUBSET InRange(n) : Tick(n, gone, lost)
  \/ \E n \in Nodes : \E lost \in SUBSET InRange(n) : Hello(n, lost)
  \/ \E p \in Pairs : LinkChange(p)

(***************************************************************************)
(* The timers reschedule themselves for ever, so every node ticks and      *)
(* sends again and again; a silent neighbour expires.                      *)
(***************************************************************************)
Fairness ==
  \A n \in Nodes :
     /\ WF_calls(calls[n] = 0 /\ calls' = [calls EXCEPT ![n] = 1])
     /\ WF_last(calls[n] > 0 /\ last' = << "tick", n, TRUE >>)
     /\ WF_last(calls[n] = 2 /\ last' = << "hello", n >>)

Spec == Init /\ [][Next]_vars /\ Fairness
-----------------------------------------------------------------------------
Line == [networkId : 0 .. INFINITO, hopNumber : 0 .. INFINITO, etx : Nat, routeLog : SUBSET Bits]

Entry ==
  [level : Bits, nextHopAdd : Addrs, nextHopId : Nodes, networkId : Nodes,
   hopNumber : 1 .. INFINITO, etx : Nat, routeLog : SUBSET Bits, macFailed : {FALSE}]

\* The types of the variables: every identifier in a table is a node's.
TypeOK ==
  /\ address \in [Nodes -> Addrs]
  /\ \A n \in Nodes : table[n] \subseteq Entry
  /\ \A n \in Nodes : \A k \in DOMAIN nset[n] :
        nset[n][k] \in [id : Nodes \ {n}, address : Addrs, quality : 0 .. 100,
                        lines : [Bits -> Line]]
  /\ calls \in [Nodes -> 0 .. 2]
  /\ links \subseteq Pairs
  /\ faults \in 0 .. MaxFaults

\* NDP::validateAddress never drives the node of the least identifier away from
\* the address zero: no table, however stale, names a smaller subtree, so the
\* tree keeps its root whatever links do and whatever HELLOs are lost.
SmallestStays == address[Min(Nodes)] = ZeroAdd

\* What ASPU::forward and DARQ routing assume of the tables that
\* updateRoutingTable leaves: one entry per next hop and level, and no entry of
\* a level below the one where the next hop's address parts from the own.
TablesFit ==
  \A n \in Nodes :
     /\ \A e \in table[n] :
           /\ e.nextHopAdd # address[n]
           /\ e.level >= DiffBit(address[n], e.nextHopAdd)
     /\ \A e, f \in table[n] : e.level = f.level /\ e.nextHopAdd = f.nextHopAdd => e = f

\* getUpdate announces five fields and NeighborTable::update reads four: the
\* metric, 1 for every link in use, becomes a route log with the bit 0.  So
\* two nodes that part at level 0 never learn a way from each other.
NothingFromTwin ==
  \A n \in Nodes : \A e \in table[n] : e.level > 0 => DiffBit(address[n], e.nextHopAdd) # 0

\* The addresses come to rest when the links do: two nodes that see the same
\* conflict do not chase each other for ever (validateAddress makes only the one
\* of the larger identifier move), nor does a node flee a subtree it belongs to.
AddressesSettle == <>[][FALSE]_address

\* Whom a node can reach over links.
Reachable(n) ==
  LET R[k \in 0 .. Cardinality(Nodes)] ==
        IF k = 0 THEN {n} ELSE R[k - 1] \cup UNION {InRange(m) : m \in R[k - 1]}
  IN R[Cardinality(Nodes)]

\* A node that is gone is forgotten, although neighbours teach its subtree to
\* each other: the hop count of an entry without a source rises to INFINITO.
GoneIsForgotten ==
  <>[](\A n \in Nodes : \A e \in table[n] : e.networkId \in Reachable(n))

\* Nodes in range of each other end with different addresses.
NeighborsDiffer ==
  <>[](\A n, m \in Nodes : {n, m} \in links /\ address[n] = address[m] => n = m)

\* Two nodes behind a common neighbour h can keep one address for ever, but
\* only where h visits the one of the larger identifier first: setUpdate then
\* means to add the smaller one, and the std::set keeps the entry it has.
Before(h, m, n) == \E j, k \in DOMAIN nset[h] : j < k /\ nset[h][j].id = m /\ nset[h][k].id = n

TwinsAreMasked ==
  <>[](\A n, m, h \in Nodes :
         n < m /\ address[n] = address[m] /\ {n, h} \in links /\ {m, h} \in links =>
           Before(h, m, n))

\* selectAddress gives up silently.  A conflict between neighbours outlasts it
\* only when every address next to every neighbour is taken, or the link to
\* that neighbour is of the quality that validates an address and selects none.
Taken(a, h) == \E m \in InRange(h) : address[m] = a

ConflictIsHopeless ==
  <>[](\A n, m \in Nodes :
         m < n /\ {n, m} \in links /\ address[n] = address[m] =>
           \A h \in InRange(n) : Quality[{n, h}] <= LQE_THRESHOLD \/ \A i \in Bits : Taken(Flip(address[h], i), h))
=============================================================================
