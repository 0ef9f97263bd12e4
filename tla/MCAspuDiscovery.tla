-------------------------- MODULE MCAspuDiscovery ---------------------------
(***************************************************************************)
(* Small networks for AspuDiscovery: their tables are those that NDP comes *)
(* to, computed with the operators of AspuNDP and AspuTable.               *)
(***************************************************************************)
EXTENDS AspuDiscovery

Discovery == INSTANCE AspuNDP WITH
  INFINITO <- 65535, RTR_ETX_MAX <- 51200, LQE_THRESHOLD <- 60, MaxFaults <- 0,
  Pairs <- {}, Quality <- [p \in {} |-> 100],
  address <- 0, table <- 0, links <- 0, nset <- 0, calls <- 0, faults <- 0, last <- 0

\* Every node hears all its neighbours, in the order of their identifiers, and
\* rebuilds its table, as often as there are nodes.
Settled(pairs, a) ==
  LET near(n) == SetToSortSeq({m \in DOMAIN a : {n, m} \in pairs}, <)
      table[k \in 0 .. Cardinality(DOMAIN a)] ==
        IF k = 0 THEN [n \in DOMAIN a |-> {}]
        ELSE [n \in DOMAIN a |->
                Discovery!UpdateRoutingTable(a[n],
                  [i \in DOMAIN near(n) |->
                     Discovery!Neighbor(near(n)[i], a[near(n)[i]], 100,
                       Discovery!Update(Discovery!GetUpdate(table[k - 1][near(n)[i]])))])]
  IN [n \in DOMAIN a |->
        {[level |-> e.level, nextHopAdd |-> e.nextHopAdd, nextHopId |-> e.nextHopId,
          etx |-> e.etx, macFailed |-> FALSE] : e \in table[Cardinality(DOMAIN a)][n]}]

\* Addresses are written as their three bits, the most significant one first;
\* the ways of a node with the addresses a as pairs of a level and a next hop.
Bitset(b2, b1, b0) == [i \in Bits |-> CASE i = 2 -> b2 [] i = 1 -> b1 [] i = 0 -> b0]

Ways(a, ways) ==
  {[level |-> w[1], nextHopAdd |-> a[w[2]], nextHopId |-> w[2], etx |-> 100, macFailed |-> FALSE] :
     w \in ways}

\* Four nodes in a row, 1 - 3 - 4 - 2; node 4 hears the others, but has not
\* yet built its table.
Row == {{1, 3}, {3, 4}, {2, 4}}
RowAddrs == << Bitset(0, 0, 0), Bitset(1, 1, 1), Bitset(1, 0, 0), Bitset(1, 1, 0) >>
RowTables ==
  << Ways(RowAddrs, {<<2, 3>>}),
     Ways(RowAddrs, {<<0, 4>>}),
     Ways(RowAddrs, {<<1, 4>>, <<2, 1>>, <<2, 4>>}),
     Ways(RowAddrs, {<<0, 2>>, <<1, 3>>, <<2, 3>>}) >>

RowLags == << Row, Row >>
RowLagsAddrs == << RowAddrs, RowAddrs >>
RowLagsTables == << << RowTables[1], RowTables[2], RowTables[3], {} >>, RowTables >>

\* Over three hops.
Far == << <<1, 2>> >>

\* Three nodes in a row, 1 - 0 - 2; node 2 moves to the other end of the row,
\* and selects another address.
RowMoves == << {{0, 1}, {0, 2}}, {{0, 1}, {1, 2}} >>
RowMovesAddrs ==
  << 0 :> Bitset(1, 0, 0) @@ 1 :> Bitset(0, 0, 0) @@ 2 :> Bitset(1, 1, 0),
     0 :> Bitset(1, 0, 0) @@ 1 :> Bitset(0, 0, 0) @@ 2 :> Bitset(0, 1, 0) >>
RowMovesTables ==
  << 0 :> Ways(RowMovesAddrs[1], {<<1, 2>>, <<2, 1>>, <<2, 2>>})
     @@ 1 :> Ways(RowMovesAddrs[1], {<<2, 0>>})
     @@ 2 :> Ways(RowMovesAddrs[1], {<<1, 0>>, <<2, 0>>}),
     0 :> Ways(RowMovesAddrs[2], {<<2, 1>>})
     @@ 1 :> Ways(RowMovesAddrs[2], {<<1, 2>>, <<2, 0>>, <<2, 2>>})
     @@ 2 :> Ways(RowMovesAddrs[2], {<<1, 1>>, <<2, 1>>}) >>

\* To the node that moves.
Follow == << <<0, 2>> >>

\* The tables written down here are those that NDP comes to.
ASSUME TablesAreNDPs ==
  /\ RowTables = Settled(Row, RowAddrs)
  /\ \A k \in 1 .. 2 : RowMovesTables[k] = Settled(RowMoves[k], RowMovesAddrs[k])
=============================================================================
