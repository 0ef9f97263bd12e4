----------------------------- MODULE MCAspuNDP ------------------------------
(***************************************************************************)
(* Small networks for AspuNDP.                                             *)
(***************************************************************************)
EXTENDS AspuForwarding

\* Three nodes in range of each other, or two behind a third.
Triangle == {{1, 2}, {2, 3}, {1, 3}}
Line3 == {{1, 2}, {1, 3}}

\* Three nodes around a fourth.
Star == {{1, 2}, {1, 3}, {1, 4}}

\* Every HELLO heard; a link that counts but selects no address.
Perfect == [p \in Pairs |-> 100]
StarEdge == [p \in Pairs |-> IF p = {1, 3} THEN LQE_THRESHOLD ELSE 100]
=============================================================================
