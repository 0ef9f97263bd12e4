--------------------------- MODULE AspuDiscovery ----------------------------
(***************************************************************************)
(* Address discovery among several nodes (class ADP of src/aspu.cc): every *)
(* node is one of AspuNode, and their messages are delivered in any order, *)
(* or lost; the packets of applications travel from node to node, and      *)
(* every node that forwards one learns from its header.                    *)
(*                                                                         *)
(* Time is abstract: the clocks stand still, nothing expires, and a packet *)
(* that waits may be asked for again at any moment.  Addresses and tables  *)
(* are those of a network at rest, in several eras: a change of it reaches *)
(* the nodes one by one.  No time to live ends what circles.               *)
(***************************************************************************)
EXTENDS AspuNode

CONSTANTS
  Nodes,            \* the identifiers of the nodes
  Links,            \* the pairs in range of each other, era by era
  Addresses,        \* the addresses of the nodes
  Tables,           \* their routing tables
  Wants,            \* for every data packet who sends it, and to whom
  MaxLosses         \* bound: messages that are lost

ASSUME DiscoveryAssumption ==
  /\ Nodes \subseteq Ids
  /\ Addresses \in Seq([Nodes -> Addrs]) /\ Tables \in Seq([Nodes -> SUBSET RoutingEntry])
  /\ Addresses # << >> /\ Len(Addresses) = Len(Tables) /\ Len(Addresses) = Len(Links)
  /\ Wants \in [Uids -> {w \in Nodes \X Nodes : w[1] # w[2]}]
  /\ MaxLosses \in Nat

VARIABLES
  node,             \* the state of every node, a record of AspuNode
  era,              \* the era of the network, which says who hears whom
  epoch,            \* the era whose address and table a node has
  net,              \* the messages under way
  losses,           \* bounded by MaxLosses
  last              \* the event dispatched last

vars == <<node, era, epoch, net, losses, last>>

Init ==
  /\ node = [n \in Nodes |->
       [id |-> n, now |-> 0, address |-> Addresses[1][n], dht |-> [x \in {} |-> 0],
        queue |-> {}, pkt |-> [u \in Uids |-> Blank], table |-> Tables[1][n], out |-> << >>]]
  /\ era = 1
  /\ epoch = [n \in Nodes |-> 1]
  /\ net = {}
  /\ losses = 0
  /\ last = << "none" >>

InRange(n) == {m \in Nodes : {n, m} \in Links[era]}

\* Whom the interface of n hands a message to.
Receivers(n, to) == IF to = IP_BROADCAST THEN InRange(n) ELSE {to} \cap InRange(n)

\* The control messages that node n has left in out.  A data packet stays in the
\* node's pkt until its next hop has it.
Frames(n, out) ==
  UNION {{[at |-> m, msg |-> out[i]] : m \in Receivers(n, out[i].to)} :
           i \in {j \in DOMAIN out : out[j].type # "DATA"}}

\* Whether a node, in state s, has packet u in its queue or at its interface.
Has(s, u) == u \in s.queue \/ s.pkt[u].fate = "mac"

\* Node n is left in state s, without the headers of the packets it is rid of;
\* its messages join those of rest.
Settle(s) ==
  [s EXCEPT !.out = << >>, !.pkt = [u \in Uids |-> IF Has(s, u) THEN s.pkt[u] ELSE Blank]]

Become(n, s, rest) ==
  /\ node' = [node EXCEPT ![n] = Settle(s)]
  /\ net' = rest \cup Frames(n, s.out)

(***************************************************************************)
(* An application sends packet u, also again when it is gone; checkDarq    *)
(* asks again for what waits.                                              *)
(***************************************************************************)
Originate(u) ==
  LET n == Wants[u][1]
  IN /\ \A m \in Nodes : ~Has(node[m], u)
     /\ Become(n, Format([node[n] EXCEPT !.pkt[u] =
                            [Blank EXCEPT !.dst = Wants[u][2], !.src = n, !.fate = "new"]], u),
               net)
     /\ last' = << "none" >>
     /\ UNCHANGED <<era, epoch, losses>>

\* No back-off, so no need to count the requests.
Retry(n) ==
  /\ node[n].queue # {}
  /\ Become(n, [CheckDarq(node[n]) EXCEPT !.pkt = node[n].pkt], net)
  /\ last' = << "retry", n >>
  /\ UNCHANGED <<era, epoch, losses>>

(***************************************************************************)
(* A data packet that a node gave to its interface reaches the next hop,   *)
(* or the interface reports that it did not.                               *)
(***************************************************************************)
\* ASPU::recv of data packet u with header p.
RecvData(s, u, p) ==
  LET here(fate) == [s EXCEPT !.pkt[u] = [p EXCEPT !.up = TRUE, !.fate = fate]]
  IN IF p.src = s.id THEN here("DROP_RTR_ROUTE_LOOP") ELSE Forward(here("new"), u)

Pass(n, u) ==
  LET p == node[n].pkt[u]
      s == RecvData(node[p.nextHop], u, p)
  IN /\ p.fate = "mac" /\ p.nextHop \in InRange(n) \ {n}
     /\ node' = [node EXCEPT ![n] = Settle([@ EXCEPT !.pkt[u].fate = "sent"]),
                             ![p.nextHop] = Settle(s)]
     /\ net' = net \cup Frames(p.nextHop, s.out)
     /\ last' = << "none" >>
     /\ UNCHANGED <<era, epoch, losses>>

Fail(n, u) ==
  LET lost == IF node[n].pkt[u].nextHop \in InRange(n) THEN 1 ELSE 0
  IN /\ node[n].pkt[u].fate = "mac"
     /\ losses + lost <= MaxLosses
     /\ losses' = losses + lost
     /\ Become(n, LinkFailed(node[n], u), net)
     /\ last' = << "none" >>
     /\ UNCHANGED <<era, epoch>>

(***************************************************************************)
(* A HELLO of node n reaches the nodes in range, except those that lose it *)
(* (recvASPU caches the address; the rest of recvHello is AspuNDP's).      *)
(***************************************************************************)
Hello(n, lost) ==
  /\ losses + Cardinality(lost) <= MaxLosses
  /\ losses' = losses + Cardinality(lost)
  /\ node' = [m \in Nodes |->
       IF m \in InRange(n) \ lost
       THEN Settle(AddEntry(node[m], n, node[n].address))
       ELSE node[m]]
  /\ last' = << "hello", n, lost = {} >>
  /\ UNCHANGED <<era, epoch, net>>

(***************************************************************************)
(* ASPU::recv and recvASPU of a message f.                                 *)
(***************************************************************************)
\* The entries of a DABR are read one after the other.
Read(s, m, order) ==
  LET read[k \in 0 .. Len(order)] ==
        IF k = 0 THEN s
        ELSE AddEntryUntil(read[k - 1], order[k], m.dht[order[k]].add, m.dht[order[k]].expire)
  IN read[Len(order)]

\* Their order is that of pointers: any.
RecvDabr(s, m) == {Read(s, m, order) : order \in SetToSeqs(DOMAIN m.dht)}

\* The states it may leave.
RecvASPU(s, m) ==
  CASE m.type = "DARQ" -> {RecvDarq(s, m)}
    [] m.type = "DARP" -> {RecvDarp(s, m)}
    [] m.type = "DABR" -> RecvDabr(s, m)

Deliver(f) ==
  /\ \E s \in RecvASPU(node[f.at], f.msg) : Become(f.at, s, net \ {f})
  /\ last' = << "deliver", f.at, f.msg.type >>
  /\ UNCHANGED <<era, epoch, losses>>

Lose(f) ==
  /\ losses < MaxLosses
  /\ losses' = losses + 1
  /\ net' = net \ {f}
  /\ last' = << "none" >>
  /\ UNCHANGED <<node, era, epoch>>

(***************************************************************************)
(* The network changes, and the nodes come to the addresses and tables of  *)
(* the new era; a node that selects another address tells its neighbours.  *)
(* NDP builds the table of a node anew, whatever macFailed did to it.      *)
(***************************************************************************)
Stays(n) ==
  epoch[n] = era /\ Addresses[era][n] = Addresses[era + 1][n] /\ Tables[era][n] = Tables[era + 1][n]

Move ==
  /\ era < Len(Links)
  /\ era' = era + 1
  /\ epoch' = [n \in Nodes |-> IF Stays(n) THEN era + 1 ELSE epoch[n]]
  /\ last' = << "none" >>
  /\ UNCHANGED <<node, net, losses>>

Change(n) ==
  LET k == epoch[n] + 1
      s == [node[n] EXCEPT !.address = Addresses[k][n], !.table = Tables[k][n]]
  IN /\ epoch[n] < era
     /\ epoch' = [epoch EXCEPT ![n] = k]
     /\ Become(n, IF s.address = node[n].address THEN s ELSE UpdateAdd(s), net)
     /\ last' = << "none" >>
     /\ UNCHANGED <<era, losses>>

Marked(n) == node[n].table # Tables[epoch[n]][n]

Rebuild(n) ==
  /\ Marked(n)
  /\ node' = [node EXCEPT ![n].table = Tables[epoch[n]][n]]
  /\ last' = << "rebuild", n >>
  /\ UNCHANGED <<era, epoch, net, losses>>

Next ==
  \/ \E u \in Uids : Originate(u)
  \/ \E n \in Nodes : Retry(n) \/ Change(n) \/ Rebuild(n)
  \/ \E n \in Nodes : \E u \in Uids : Pass(n, u) \/ Fail(n, u)
  \/ \E n \in Nodes : \E lost \in SUBSET InRange(n) : Hello(n, lost)
  \/ \E f \in net : Deliver(f) \/ Lose(f)
  \/ Move

(***************************************************************************)
(* HELLOs are sent, NDP and checkDarq run for ever, and the interface      *)
(* delivers what it does not lose: bounded losses are not losses for ever. *)
(* Applications may send for ever, or stop.                                *)
(***************************************************************************)
Fairness ==
  \A n \in Nodes :
     /\ WF_last(last' = << "hello", n, TRUE >>)
     /\ WF_last(node[n].queue # {} /\ last' = << "retry", n >>)
     /\ WF_epoch(epoch[n] < era /\ epoch' = [epoch EXCEPT ![n] = @ + 1])
     /\ WF_last(Marked(n) /\ last' = << "rebuild", n >>)
     /\ \A type \in {"DARQ", "DARP", "DABR"} :
          WF_last((\E f \in net : f.at = n /\ f.msg.type = type) /\ last' = << "deliver", n, type >>)

Spec == Init /\ [][Next]_vars /\ Fairness
-----------------------------------------------------------------------------
\* Discovery never makes an address up: what a cache holds for a node is an
\* address that node has or had, whoever passed it on, however often and late.
CacheProvenance ==
  \A n \in Nodes : \A x \in DOMAIN node[n].dht \ {0} :
     x \in Nodes /\ \E k \in 1 .. epoch[x] : node[n].dht[x].add = Addresses[k][x]

\* The network that comes to rest, seen from nodes that know nothing: the
\* messages by which a request of node n for node d travels, and an answer of
\* node h to it.
End == Len(Links)

Ignorant ==
  [n \in Nodes |->
     [id |-> n, now |-> 0, address |-> Addresses[End][n], dht |-> << >>, queue |-> {},
      pkt |-> << >>, table |-> Tables[End][n], out |-> << >>]]

Onwards(m) ==
  IF {m.forId, m.to} \notin Links[End] THEN << >>
  ELSE LET s == Ignorant[m.to]
           out == IF m.type = "DARQ" THEN RecvDarq(s, m).out ELSE RecvDarp(s, m).out
       IN SelectSeq(out, LAMBDA o : o.type = m.type)

Hops(first) ==
  LET hop[k \in 1 .. 2 * Cardinality(Nodes)] ==
        IF k = 1 THEN first
        ELSE IF hop[k - 1] = << >> THEN << >> ELSE Onwards(Head(hop[k - 1]))
  IN {Head(hop[k]) : k \in {j \in DOMAIN hop : hop[j] # << >>}}

Asked(n, d) == {m \in Hops(Darq(Ignorant[n], d)) : {m.to, d} \in Links[End]}

Answered(n, m) ==
  \E r \in Hops(SendDarp(Ignorant[m.to], m).out) : r.to = n /\ {r.forId, n} \in Links[End]

Answerable == {u \in Uids : \E m \in Asked(Wants[u][1], Wants[u][2]) : Answered(Wants[u][1], m)}

\* Where the walk of a request passes a neighbour of the node asked for, and the
\* tables lead back, the packet gets away: whatever is lost, checkDarq asks again
\* until an answer arrives.  (Elsewhere it may wait for ever.  The node at the
\* end of the walk should know the address, but it would have to be told in a
\* DAUP, and nothing calls sendDaup.)
RequestsAreAnswered ==
  \A u \in Answerable : u \in node[Wants[u][1]].queue ~> u \notin node[Wants[u][1]].queue

\* No packet waits or is under way.
AtRest == \A n \in Nodes : \A u \in Uids : ~Has(node[n], u)

\* Caches take whatever arrives, also an old address after the new one: a DABR
\* spreads the whole cache of its sender, and every packet that is forwarded
\* writes the addresses of its header into the caches on its way, for as long as
\* a far sender goes on with an old one.  Once the traffic rests, HELLOs set
\* right for good what neighbours know of each other.
NeighborsKnown ==
  <>[]AtRest =>
  <>[](\A n, m \in Nodes :
         {n, m} \in Links[era] => m \in DOMAIN node[n].dht /\ node[n].dht[m].add = node[m].address)
=============================================================================
