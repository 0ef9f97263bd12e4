-------------------------- MODULE MCAspuRecursion ---------------------------
(***************************************************************************)
(* The environments of MCAspuAgent for the comparison of AspuRecursion.    *)
(***************************************************************************)
EXTENDS MCAspuAgent, AspuRecursion

RecursionDsts == {0, 2}
RecursionTransit == {Head0(2, A3, 0, A1, 3, A1, 3)}
RecursionAddrs == {A1, A2}
=============================================================================
