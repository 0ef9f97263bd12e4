----------------------------- MODULE AspuCalls ------------------------------
(***************************************************************************)
(* One turn of the mutual recursion of ADP::addEntry and ASPU::forward:    *)
(* each function as it is written, with the closed forms AddEntryUntil and *)
(* Forward of AspuNode for the calls that it makes.  Every such call finds *)
(* fewer packets in the queue, so that forms which satisfy both equations  *)
(* are what the recursion comes to.                                        *)
(***************************************************************************)
EXTENDS AspuAgent

\* p = queue_->deque(id), dstAdd_ = findAdd(id): the oldest packet for id.
Taken(s, id) ==
  [s EXCEPT !.queue = @ \ {Min(Waiting(s, id))},
            !.pkt[Min(Waiting(s, id))].dstAdd = FindAdd(s, id)]

\* forward(u): deliver, or learn three entries from the header, then route.
ForwardTurn(s, u) ==
  LET p == s.pkt[u]
      down == [s EXCEPT !.pkt[u].up = FALSE]
      learnt == AddEntry(AddEntry(AddEntry(down, p.dst, p.dstAdd), p.src, p.srcAdd),
                         p.forId, p.forAdd)
      routed == Routed(learnt, learnt.pkt[u])
      after == [learnt EXCEPT !.pkt[u] = routed]
  IN IF p.up /\ p.dst \in {s.id, IP_BROADCAST} THEN [s EXCEPT !.pkt[u].fate = "dmux"]
     ELSE IF p.dst = IP_BROADCAST THEN [down EXCEPT !.pkt[u].fate = "DROP_IP_BROADCAST"]
     ELSE IF routed.fate = "mac" THEN Emit(after, Data(u, routed)) ELSE after

\* addEntry(id, address, expire): the entry, and then the loop.  What one turn
\* leaves of the packets for id is nothing, which ends the loop.
AddEntryTurn(s, id, address_, expire) ==
  LET written == [s EXCEPT !.dht = DHTAddEntry(@, id, address_, expire)]
  IN IF Waiting(s, id) = {} THEN written
     ELSE Forward(Taken(written, id), Min(Waiting(s, id)))
-----------------------------------------------------------------------------
\* The closed forms satisfy the equations that the code is, for every entry and
\* every packet that the interface gives back; and the first turn of the loop is
\* the last, however many packets wait.
CallsUnfold ==
  LET s == S
  IN /\ \A id \in Ids, a \in Addrs, e \in {s.now, s.now + ASPU_DHT_ENTRY_TIMEOUT} :
          /\ AddEntryUntil(s, id, a, e) = AddEntryTurn(s, id, a, e)
          /\ Waiting(AddEntryUntil(s, id, a, e), id) = {}
     /\ \A u \in Uids : pkt[u].fate = "mac" => Forward(s, u) = ForwardTurn(s, u)
=============================================================================
