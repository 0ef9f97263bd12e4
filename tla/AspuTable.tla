----------------------------- MODULE AspuTable ------------------------------
(***************************************************************************)
(* How ASPU builds its routing tables (src/aspu_rtable.cc and the class    *)
(* NeighborTable of src/aspu.h): what a node announces of its table in a   *)
(* HELLO, what a neighbour makes of the announcement, and the entries it   *)
(* derives from it.                                                        *)
(*                                                                         *)
(* The HELLO carries one line of five fields per level, written by         *)
(* getUpdate; NeighborTable::update reads four fields by their position.   *)
(* From the third field on the two disagree: the reader takes the          *)
(* interface for the metric and the metric for the route log.              *)
(*                                                                         *)
(* Metrics are integers here, in hundredths: link qualities are products   *)
(* of two counts of tenths, and 1/q of a link in use lies in 1.00 .. 1.67. *)
(***************************************************************************)
EXTENDS AspuFunction, FiniteSets, FiniteSetsExt

CONSTANTS
  INFINITO,         \* 0xFFFF: no such node, no such hop count
  RTR_ETX_MAX       \* 512.00, in hundredths

ASSUME TableAssumption ==
  /\ INFINITO \in Nat \ {0}
  /\ RTR_ETX_MAX \in Nat

Etx(quality) ==
  IF quality = 0 \/ 10000 \div quality > RTR_ETX_MAX THEN RTR_ETX_MAX ELSE 10000 \div quality

(***************************************************************************)
(* A table is a set of entries.  Each level is a std::set ordered by       *)
(* nextHopAdd, so an insertion leaves an entry of the same address alone.  *)
(***************************************************************************)
Insert(E, e) == IF \E f \in E : f.nextHopAdd = e.nextHopAdd THEN E ELSE E \cup {e}

Level(t, i) == {e \in t : e.level = i}

\* RoutingTable::networkId and ::id, of the entries of a level.
LeastId(E) == Min({INFINITO} \cup {e.networkId : e \in E})

\* RoutingTable::levelId, of the levels up to i, seen from node id.
LevelId(id, t, i) == Min({id} \cup {e.networkId : e \in {f \in t : f.level <= i}})

(***************************************************************************)
(* getUpdate: of every level the entry of the least networkId, among these *)
(* the first one of the least metric.                                      *)
(***************************************************************************)
Precedes(e, f) ==
  \/ e.networkId < f.networkId
  \/ e.networkId = f.networkId /\ e.etx < f.etx
  \/ e.networkId = f.networkId /\ e.etx = f.etx /\ Below(e.nextHopAdd, f.nextHopAdd)

Announced(E) == CHOOSE e \in E : \A f \in E \ {e} : Precedes(e, f)

\* No call of addEntry supplies an interface; a u_int8_t is streamed as a
\* character, here the byte 255.
NoInterface == 255

GetUpdate(t) ==
  [i \in Bits |->
     IF Level(t, i) = {}
     THEN << INFINITO, INFINITO, NoInterface, RTR_ETX_MAX, {} >>
     ELSE LET e == Announced(Level(t, i))
          IN << e.networkId, e.hopNumber, NoInterface, e.etx, e.routeLog >>]

(***************************************************************************)
(* NeighborTable: what a node knows of the table of a neighbour.           *)
(***************************************************************************)
\* atof of a text of one character.
Atof(byte) == IF byte \in 48 .. 57 THEN 100 * (byte - 48) ELSE 0

\* atoi of a metric, as the bits of a bitset.
Atoi(field) == {i \in Bits : ToBits(field \div 100)[i] = 1}

\* (Mutant: the reader skips the interface, as the writer means it.)
UpdateSkipping(fields) ==
  [i \in Bits |-> [networkId |-> fields[i][1], hopNumber |-> fields[i][2],
                   etx |-> fields[i][4], routeLog |-> fields[i][5]]]

Update(fields) ==
  [i \in Bits |-> [networkId |-> fields[i][1], hopNumber |-> fields[i][2],
                   etx |-> Atof(fields[i][3]), routeLog |-> Atoi(fields[i][4])]]

\* The constructor; networkId and routeLog are not read while hopNumber is
\* INFINITO.
NoLines ==
  [i \in Bits |-> [networkId |-> INFINITO, hopNumber |-> INFINITO,
                   etx |-> RTR_ETX_MAX, routeLog |-> {}]]

EntryPresent(lines, i) == lines[i].hopNumber < INFINITO

\* (Mutant: the loop starts below the top level.)
InsertionPointBelow(lines) == Max({-1} \cup {i \in 0 .. ADDR_SIZE - 2 : ~EntryPresent(lines, i)})

\* The highest free level, -1 when there is none.
InsertionPoint(lines) == Max({-1} \cup {i \in Bits : ~EntryPresent(lines, i)})

\* Neighbor::levelId.
NeighborLevelId(nb, i) ==
  Min({nb.id} \cup {nb.lines[j].networkId : j \in {k \in Bits : k <= i /\ EntryPresent(nb.lines, k)}})

(***************************************************************************)
(* RoutingTable::setUpdate, of a node with the given address and table,    *)
(* from the neighbour nb = [id, address, quality, lines].                  *)
(***************************************************************************)
\* The neighbour itself stands for the sibling subtree it lives in.
SiblingEntry(nb, ls) ==
  [level |-> ls, nextHopAdd |-> nb.address, nextHopId |-> nb.id,
   networkId |-> NeighborLevelId(nb, ls - 1), hopNumber |-> 1, etx |-> Etx(nb.quality),
   routeLog |-> {ls}, macFailed |-> FALSE]

\* (Mutant: "<" for "<=".)
AddSiblingStrict(E, nb, ls) ==
  IF NeighborLevelId(nb, ls - 1) < LeastId(E) /\ Etx(nb.quality) + 100 < RTR_ETX_MAX
  THEN Insert(E, SiblingEntry(nb, ls))
  ELSE E

AddSibling(E, nb, ls) ==
  IF NeighborLevelId(nb, ls - 1) <= LeastId(E) /\ Etx(nb.quality) + 100 < RTR_ETX_MAX
  THEN Insert(E, SiblingEntry(nb, ls))
  ELSE E

\* (Mutant: the hop to the neighbour does not count.)
OfferedSameHop(nb, ls, i) ==
  [level |-> i, nextHopAdd |-> nb.address, nextHopId |-> nb.id,
   networkId |-> nb.lines[i].networkId, hopNumber |-> nb.lines[i].hopNumber,
   etx |-> nb.lines[i].etx + Etx(nb.quality),
   routeLog |-> {ls} \cup {j \in nb.lines[i].routeLog : j >= ls}, macFailed |-> FALSE]

\* A way that the neighbour offers to the sibling subtree of level i.
OfferedEntry(nb, ls, i) ==
  [level |-> i, nextHopAdd |-> nb.address, nextHopId |-> nb.id,
   networkId |-> nb.lines[i].networkId, hopNumber |-> nb.lines[i].hopNumber + 1,
   etx |-> nb.lines[i].etx + Etx(nb.quality),
   routeLog |-> {ls} \cup {j \in nb.lines[i].routeLog : j >= ls}, macFailed |-> FALSE]

\* (Mutant: the neighbour need not have a way.)
AddOfferedBlind(E, nb, ls, i) ==
  IF ls \in nb.lines[i].routeLog THEN E
  ELSE IF nb.lines[i].networkId > LeastId(E) THEN E
  ELSE IF nb.lines[i].etx + Etx(nb.quality) >= RTR_ETX_MAX
  THEN IF nb.lines[i].networkId < LeastId(E) THEN {} ELSE E
  ELSE IF nb.lines[i].networkId < LeastId(E) THEN {OfferedEntry(nb, ls, i)}
  ELSE Insert(E, OfferedEntry(nb, ls, i))

\* A subtree of a smaller identifier replaces what the level held.
AddOffered(E, nb, ls, i) ==
  IF ~EntryPresent(nb.lines, i) \/ ls \in nb.lines[i].routeLog THEN E
  ELSE IF nb.lines[i].networkId > LeastId(E) THEN E
  ELSE IF nb.lines[i].etx + Etx(nb.quality) >= RTR_ETX_MAX
  THEN IF nb.lines[i].networkId < LeastId(E) THEN {} ELSE E
  ELSE IF nb.lines[i].networkId < LeastId(E) THEN {OfferedEntry(nb, ls, i)}
  ELSE Insert(E, OfferedEntry(nb, ls, i))

\* (Mutant: the neighbour's levels below its own count too.)
LevelUpdateAll(address, E, nb, i) ==
  LET ls == DiffBit(address, nb.address)
  IN IF ls = -1 THEN E
     ELSE IF i = ls THEN AddSibling(E, nb, ls)
     ELSE AddOffered(E, nb, ls, i)

\* No level looks at another one: the neighbour's own level, the levels above
\* it, and those below, of which a neighbour further up says nothing.
LevelUpdate(address, E, nb, i) ==
  LET ls == DiffBit(address, nb.address)
  IN IF ls = -1 \/ i < ls THEN E
     ELSE IF i = ls THEN AddSibling(E, nb, ls)
     ELSE AddOffered(E, nb, ls, i)

SetUpdate(address, t, nb) ==
  UNION {LevelUpdate(address, Level(t, i), nb, i) : i \in Bits}
=============================================================================
