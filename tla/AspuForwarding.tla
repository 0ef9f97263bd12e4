--------------------------- MODULE AspuForwarding ---------------------------
(***************************************************************************)
(* Packets on the tables that NDP builds: AspuNDP composed with the        *)
(* look-up of AspuNode.  ASPU::forward decides hop by hop, with the table  *)
(* each node has, so whether a packet arrives is a property of all tables. *)
(***************************************************************************)
EXTENDS AspuNDP

\* Only the routing table and the address of a node are looked at here.
Node == INSTANCE AspuNode WITH
  Ids <- Nodes \cup {0}, NoAdd <- -1, MaxPkts <- 0, MaxTime <- 0, macFailed_ <- TRUE,
  ASPU_QUEUE_LEN <- 1, ASPU_QUEUE_TIMEOUT <- 0, ASPU_DHT_ENTRY_TIMEOUT <- 0,
  ADP_DARQ_TIMEOUT <- 0, ADP_DARQ_EB_TIMEOUT <- 0, MAC_FAILED_ALLOWED_LOSS <- 0

NextHop(n, dst) == Node!GetEntry([address |-> address[n], table |-> table[n]], dst)

\* Where a packet for the address dst is after as many hops as there are nodes:
\* at a node that has the address, at one that drops it, or on its way.  A next
\* hop out of range loses the packet where it is.
Hop(n, dst) == IF NextHop(n, dst) \in InRange(n) THEN NextHop(n, dst) ELSE n

Destination(n, dst) ==
  LET at[k \in 0 .. Cardinality(Nodes)] == IF k = 0 THEN n ELSE Hop(at[k - 1], dst)
  IN at[Cardinality(Nodes)]
----
\* In a network at rest no packet for the address of a node that can be reached
\* runs in a circle.  (For an address that nobody has, it may: getEntry climbs
\* to the level above when a level is empty, and two nodes can send each other
\* the packet until its TTL ends.)
Circles(n, dst) == Hop(Destination(n, dst), dst) # Destination(n, dst)

PacketsComeToRest == <>[](\A n \in Nodes : \A m \in Reachable(n) : ~Circles(n, address[m]))

\* In a network at rest a packet for the address of a neighbour arrives at a
\* node with this address, although the tables name only one neighbour of each
\* subtree and need not name this one.
NeighborsReach ==
  <>[](\A n, m \in Nodes :
         {n, m} \in links => address[Destination(n, address[m])] = address[m])
=============================================================================
