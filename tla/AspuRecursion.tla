--------------------------- MODULE AspuRecursion ----------------------------
(***************************************************************************)
(* The mutual recursion of ADP::addEntry and ASPU::forward, call by call,  *)
(* to compare with the operators AddEntryUntil and Forward of AspuNode,    *)
(* which say at once what it comes to.                                     *)
(***************************************************************************)
EXTENDS AspuCalls

RECURSIVE CallAddEntry(_, _, _, _), CallDrain(_, _), CallForward(_, _)

\* DHT::addEntry, then the loop.
CallAddEntry(s, id, a, expire) ==
  CallDrain([s EXCEPT !.dht = DHTAddEntry(@, id, a, expire)], id)

\* while ((p = queue_->deque(id))) { dstAdd_ = findAdd(id); forward(p); }
CallDrain(s, id) ==
  IF Waiting(s, id) = {} THEN s
  ELSE CallDrain(CallForward(Taken(s, id), Min(Waiting(s, id))), id)

\* forward: deliver, or learn three entries from the header, then route.
CallForward(s, u) ==
  LET p == s.pkt[u]
      fresh == s.now + ASPU_DHT_ENTRY_TIMEOUT
      down == [s EXCEPT !.pkt[u].up = FALSE]
      l1 == CallAddEntry(down, p.dst, p.dstAdd, fresh)
      l2 == CallAddEntry(l1, p.src, p.srcAdd, fresh)
      l3 == CallAddEntry(l2, p.forId, p.forAdd, fresh)
      routed == Routed(l3, l3.pkt[u])
      after == [l3 EXCEPT !.pkt[u] = routed]
  IN IF p.up /\ p.dst \in {s.id, IP_BROADCAST} THEN [s EXCEPT !.pkt[u].fate = "dmux"]
     ELSE IF p.dst = IP_BROADCAST THEN [down EXCEPT !.pkt[u].fate = "DROP_IP_BROADCAST"]
     ELSE IF routed.fate = "mac" THEN Emit(after, Data(u, routed)) ELSE after

\* In every state the node can be in, AddEntryUntil is the outcome of the calls
\* of addEntry, and Forward of the calls of forward for a packet the interface
\* gives back: cache, queue, headers and the order of what is sent all agree.
RecursionAgrees ==
  LET s == S
      fresh == s.now + ASPU_DHT_ENTRY_TIMEOUT
  IN /\ \A id \in Ids, a \in {ZeroAdd, Flip(ZeroAdd, 0)}, e \in {0, fresh} :
          (id = Self => Waiting(s, id) = {}) =>
            AddEntryUntil(s, id, a, e) = CallAddEntry(s, id, a, e)
     /\ \A u \in Uids : pkt[u].fate = "mac" => Forward(s, u) = CallForward(s, u)
=============================================================================
