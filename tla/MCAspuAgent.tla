---------------------------- MODULE MCAspuAgent -----------------------------
(***************************************************************************)
(* Small environments for AspuAgent: node 1 among nodes 0, 2 and 3, with   *)
(* two-bit addresses.                                                      *)
(***************************************************************************)
EXTENDS AspuAgent

A0 == ToBits(0)
A1 == ToBits(1)
A2 == ToBits(2)
A3 == ToBits(3)

None == {}

Entry(l, a, i, q) ==
  [level |-> l, nextHopAdd |-> a, nextHopId |-> i, etx |-> q, macFailed |-> FALSE]

\* Node 2 in the other half of the address space; node 0 next to address A0.
NearTables == {{}, {Entry(1, A2, 2, 1), Entry(0, A1, 0, 1)}}

\* A table that never changes once it is there.
SteadyTables == {{Entry(1, A2, 2, 1), Entry(0, A1, 0, 1)}}

\* Two ways into the other half, of which the one through node 3 also leads
\* to the neighbouring address.
ForkTables == {{Entry(1, A2, 2, 1), Entry(1, A3, 3, 2), Entry(0, A1, 0, 1)},
               {Entry(1, A3, 3, 1), Entry(0, A1, 3, 1), Entry(1, A2, 2, 1)}}

Hello(i, a) == [src |-> i, srcAdd |-> a]

Ctl(ty, i, a, f, fa, da) ==
  [type |-> ty, to |-> Self, src |-> i, srcAdd |-> a, forId |-> f, forAdd |-> fa, dstAdd |-> da]

AskFor(i, a, da, r) ==
  [type |-> "DARQ", to |-> Self, src |-> i, srcAdd |-> a, forId |-> 2, forAdd |-> A2,
   dstAdd |-> da, req |-> r]

Answer(i, a, da, r, ra) ==
  [type |-> "DARP", to |-> Self, src |-> i, srcAdd |-> a, forId |-> 2, forAdd |-> A2,
   dst |-> 1, dstAdd |-> da, req |-> r, reqAdd |-> ra]

\* Release: a HELLO, a DARP and a DABR that fill the cache while packets wait
\* for three destinations, one of them node 0.
ReleaseHellos == {Hello(2, A2)}
ReleaseDarps == {Answer(2, A2, A0, 0, A1)}
ReleaseDabrs == {<<[id |-> 3, add |-> A1, age |-> 1], [id |-> 0, add |-> A2, age |-> 2]>>}
ReleaseDsts == {0, 2, 3}
ReleaseAddrs == {A1}

\* Links: relayed packets, links that fail, and every message that looks up or
\* spreads an address.
Head0(d, da, i, a, f, fa, t) ==
  [dst |-> d, dstAdd |-> da, src |-> i, srcAdd |-> a, forId |-> f, forAdd |-> fa, ttl |-> t]
LinkTransit ==
  {Head0(3, A3, 0, A1, 0, A1, 3), Head0(3, A1, 2, A2, 2, A2, 1), Head0(2, A2, 1, A0, 0, A1, 2),
   Head0(1, A0, 2, A2, 2, A2, 2), Head0(IP_BROADCAST, A0, 2, A2, 2, A2, 2)}
LinkDsts == {2}
LinkHellos == {Hello(2, A2), Hello(2, A3)}
LinkDarqs == {AskFor(3, A3, A1, 0), AskFor(3, A3, A0, 2)}
LinkDarps == {Answer(2, A2, A0, 3, A3)}
LinkDaups == {Ctl("DAUP", 3, A3, 2, A2, A0)}

\* Time: one neighbour, whose entry is learnt, used, announced by others when it
\* is past for longer than a purge interval, and purged; packets that wait long, for node 2 or IP_BROADCAST.
TimeDsts == {2, IP_BROADCAST}
TimeHellos == {Hello(2, A2)}
TimeDabrs == {<<[id |-> 2, add |-> A3, age |-> -3]>>}
=============================================================================
