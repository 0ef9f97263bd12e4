# A TLA+ development of ASPU

ASPU is a dynamic-addressing routing protocol for ad-hoc networks, written as a
routing agent for the ns-2.35 simulator (`src/aspu*.cc`, `src/aspu*.h`).  A node
has a fixed identifier (its IP address) and a dynamic address, the path to it in
a binary tree that the network maintains.  Packets are routed by the dynamic
address; a distributed table maps identifiers to addresses.  This directory
models the agent in TLA+, checks it with TLC on small instances, and proves its
invariants, its action properties and its refinement with TLAPS for every value
of the constants.

## The system

| part | code | state | operations |
|---|---|---|---|
| address functions | `aspu_function.h` | none | `DiffBit`, `hash`, bit operations |
| ASPU agent, data path | `aspu.cc:238-433` | `address_`, `oldAddress_`, `id_`, `macFailed_`, `etxMetric_` | `recv`, `format`, `forward`, `macFailed` |
| ADP cache (DHT) | `aspu.cc:868-1066` | a set of (id, address, expire), the purge timer | `addEntry` (two forms), `findAdd`, `purge` |
| ADP queue (ASPUQueue) | `aspu.cc:1730-1925` | a deque of packets, deadlines in their headers | `enque`, `deque(dst)`, `removeHead`, `isExpired` |
| ADP messages | `aspu.cc:1069-1728` | none of their own; two timers | `sendDarq`, `checkDarq`, `recvDarq`, `sendDarp`, `recvDarp`, `recvDaup`, `updateAdd`, `sendDabr`, `recvDabr` |
| routing table | `aspu_rtable.cc` | one ordered set of entries per level | `getEntry`, `DAGetEntry`, `macFailed`, `setUpdate`, `getUpdate` |
| NDP | `aspu.cc:496-866`, `1928-2006` | neighbour set, link qualities, hello timers | `sendHello`, `recvHello`, `neighborPurge`, `validateAddress`, `selectAddress`, `updateRoutingTable` |
| start-up | `aspu.cc:28-69`, `aspu.h` timers | call counters of the timers | `ASPUTimer`, `NDPHelloTimer`, `NDPNeighborTimer`, `DHTTimer`, two ADP timers |

How they interact.  `recv` hands a data packet of the node's own to `format`,
which asks the cache for the destination's address: known, the packet goes to
`forward`; unknown, to the queue, and a request (DARQ) goes out.  `forward`
teaches the cache what the packet's header says (`ADP_DATA_CACHING`), asks the
routing table for a next hop and schedules the packet.  Every control message
also teaches the cache, and every `addEntry` drains the queue of the packets it
answers for, by calling `forward`, which calls `addEntry` again.  The interface
calls back into `macFailed` when a transmission failed, which marks the routing
table and calls `forward` again.  `ASPUTimer` revalidates the address and
rebuilds the table; a new address is taught to the cache and broadcast with the
whole cache (DABR).

What is hard about it.  ns-2 is single-threaded, so a handler runs to its end
before another starts; nothing is concurrent inside a node, and nothing is
persisted.  The difficulties are (1) the recursion `addEntry` / `forward`, which
re-enters the queue and the cache while a caller is half way through them;
(2) stale copies: addresses in the headers of packets in flight, in cache
entries, in DABRs, and dead next hops in the table; (3) timers of equal period
that share counters; (4) limits: the queue, back-off arithmetic, strict
comparisons in purges; (5) between nodes, lost or late messages, address
conflicts, tables built from tables of the past, requests that go astray;
(6) one pool of packets shared by all handlers and interfaces.  `PROJECT.json` lists these hazards line by line.

## What the code is taken to mean

The files do not compile as committed: `ASPUTimer::handl`, `counter >=3 0`,
`selectPaths`, `aspu_table.h`, undeclared `p` / `p_copy` / `recvPkt` in the
branches for several interfaces, a call of the routing table's `addEntry` with
the wrong number of arguments.  We model the control flow the statements spell
out, in the configuration the repository's own Tcl files set: one interface
(`numinterf = 0`), `etxMetric_` and `macFailed_` true (`ns-default.tcl`
1083-1084 of the vendored simulator).  `macFailed_ = FALSE` is checked as well.

- `ASPUQueueTimer` calls `selectPaths`, which does not exist, where the file it
  derives from purges.  `ASPUQueue::purge` has no other caller, so waiting
  packets never time out on their own; the timer has no effect in the model.
- Destructors, printing, tracing and the `DEBUG` code are left out, and so are
  fields nobody reads: `dstId_` of requests, `seqNum_`, sizes.
- `recvDabr` and `recvHello` free a packet and then schedule it.  What comes of
  it is the subject of `AspuPackets`; the other models take the handler up to
  that point.
- A message that the interface has scheduled is read by its receiver as it was
  sent (but for `AspuPackets`, where its buffer may have been given away).
- Containers are erased during iteration in `RoutingTable::clear`, `DHT::purge`
  and `neighborPurge`, in ways the standard library leaves undefined: the
  intended result is modelled, an element removed.
- `setUpdate` passes an interface that is declared nowhere, and `getUpdate`
  writes it: it is the value of an entry without one, 255, streamed as a
  character.  The reader takes it for the metric, and the metric for the route
  log (`AspuTable!Update`); the models keep this, as it decides what the network
  can do.
- `Packet::alloc` zeroes headers, which matters: a packet nobody forwarded yet
  carries forwarder 0 with address 0.
- An application's packet to its own node never reaches the routing agent (the
  node's classifier delivers it), so `LocalDsts` excludes `Self`.

## Modules

| module | contents |
|---|---|
| `AspuFunction` | addresses as bit vectors, `DiffBit`, `hash`, the order of `setCompare` |
| `AspuNode` | every handler of one node as a function from the node's state (a record) to the state it leaves; nested calls are nested applications, in the order of the code |
| `AspuAgent` | the node in an open environment: one action per scheduler event, and the properties |
| `AddressResolution` | the abstract service: packets wait for unknown destinations; implemented by `AspuAgent` |
| `AspuCalls` | one turn of `addEntry` and of `forward` as written, with closed forms for the calls they make |
| `AspuRecursion` | the same as the literal recursion, for TLC only; EXTENDS `AspuCalls` |
| `AspuTable` | how a table is announced, read by a neighbour, and built from what was read, as functions |
| `AspuNDP` | several nodes: HELLOs, neighbour sets, address validation and selection, tables; EXTENDS `AspuTable` |
| `AspuForwarding` | packets on the tables of `AspuNDP`: composes it with the look-up of `AspuNode` |
| `AspuDiscovery` | several `AspuNode`s and the messages between them, in a network that changes |
| `AspuLink` | a link in time: the HELLO counts that both nodes keep and one announces to the other, expiry, quality, four timers |
| `AspuPackets` | the packet pool and the event list of ns-2, and what handlers and interfaces do with packets |
| `MCAspuAgent`, `MCAspuRecursion`, `MCAspuNDP`, `MCAspuDiscovery` | small environments and networks |
| `AspuFunctionProofs`, `AspuNodeProofs` | lemmas on addresses and on the calls of one node |
| `AspuAgentProofs`, `AspuOutputProofs` | what the agent keeps and when it acts; what it sends |
| `AspuNDPProofs`, `AspuLinkProofs` | the network of tables, and a link in time |
| `AspuPacketsProofs`, `AspuDiscoveryProofs` | packets have one owner; no address is made up |

### The agent

**State.** `dht` maps identifiers to `[add, expire]` (the code's set holds one
entry per identifier, as `addEntry` looks before it inserts).  `queue` is the
set of the numbers of the packets that wait: packets are numbered as they
arrive and join the queue at most once, at its back, so the numbers give the
order.  `pkt` holds the headers, with a ghost field `fate` that says who holds
the packet.  `table` is the union of the levels of the routing table.  `out` is
what the last handler gave to `Scheduler::schedule(target_, ...)`, in order.

**Actions.** `RecvLocal` and `RecvTransit` are `recv` of data packets;
`MacFailed` and `MacDone` the two ends of a transmission; `RecvHello`,
`RecvDARQ`, `RecvDARP`, `RecvDAUP` are `recvASPU`; `RecvDABR` and `DabrEntry`
are `recvDabr`, entry by entry (no other action is enabled in between: `Idle`);
`AddressKept` and `AddressSelected` are a tick of `ASPUTimer`, with the address
and the table it arrives at chosen by the environment; `DarqTimer` (two timers
that both call `checkDarq`), `DHTTimer` and `Tick` are time.  A message with a
TTL that runs out, and messages dropped by the receiver, change nothing.

**The recursion.** `AspuNode!AddEntryUntil` is a closed form: `addEntry(id)`
takes *all* packets for `id` from the queue, oldest first, and sends them newest
first as the recursion unwinds; on the way it executes `addEntry(0, 0)`, from
the zeroed forwarder field of fresh packets, which releases whatever waits for
node 0 to address 0; and it re-teaches the node's own address as of the
formatting of the packet handled last.  The run `recursion` compares the closed
form with the recursion spelled out in every reachable state (`RecursionAgrees`),
and with one turn of each function (`CallsUnfold`); `AspuOutputProofs` proves that
it is what the recursion comes to, for queues of any length.

### The network

**`AspuNDP`.**  `nset[n]` is the neighbour set in the sequence in which the code
visits it.  The set is a `std::multiset` ordered by a key that changes while the
element stays, so the sequence depends on the past; a new neighbour may go to
any place that its two neighbours in the sequence admit (`PlacesFor`).  `Hello`
is `sendHello` at one node and `recvHello` at every node in range that does not
lose it; `Tick` is `ASPUTimer::handl`: `neighborPurge`, `validateAddress` with
`selectAddress` and the trial tables, `updateRoutingTable`, and at the second
call the first HELLO.  A link has a fixed quality while it is up, and a silent
neighbour is forgotten at some later tick; that the code's counts and expiries
amount to this is the subject of `AspuLink`.

**`AspuLink`.**  HELLOs are represented by their ages; time advances to the next
of four timers (`NDPHelloTimer` and `ASPUTimer` at either end), which draw an
interval at each call.  `hellos` is what the node counts of the neighbour,
`theirs` what the neighbour counts of the node: nothing while it does not list
it, then one more with each HELLO.  A HELLO of the neighbour announces that
count, and the node keeps the count announced last (`forQuality`).  The quality
is the product of the two counts, and `used` is what `validateAddress` and
`updateRoutingTable` make of it at the last call.

**`AspuDiscovery`.**  Each node is a record of `AspuNode`; `net` holds the
control messages under way, delivered in any order or lost.  A data packet stays
in the record of the node whose interface has it until the next hop receives it
(`Pass`: `recv` and `forward` there, which teach the next hop's cache what the
header says) or the interface gives it up (`Fail`: `macFailed` and the retry).
Addresses and tables are those of a network at rest, era by era; `Move` begins an
era, which reaches the nodes one by one (`Change`), and `Rebuild` is NDP making
anew a table that `macFailed` has marked.  `MCAspuDiscovery` computes the tables
with the operators of `AspuNDP` and has TLC compare them with the ones written
down (`TablesAreNDPs`).  The clock stands still: nothing expires and whatever
waits may be asked for again.  Acknowledgements are not lost, so a packet is not
received and reported as failed; and no TTL ends what circles.  An application
sends a packet again whenever the last one is gone.

**`AspuPackets`.**  A packet is an event, and its `uid_` says whether it is in
the event list, its `fflag_` whether it is in the free list.  Of a handler of the
agent is left what it frees, schedules, queues and allocates; why it does so is
in the other modules.  Every handler that calls `addEntry` may release any of the
packets that wait, in any order, and each of them goes on or is dropped there
(`Learnt`): `format`, `forward` and `macFailed` do so before the packet they were
called with is scheduled or freed.  The interface is followed in the same way: `LL` and
ARP, which keeps one packet and asks for its receiver (`Target`, `Resolve`), the
interface queue (`Queued`), the MAC, which hands copies to the channel and calls
back into `macFailed` with a copy (`Transmit`, `Done`), and the receiver
(`Arrive`, `Received`).

## Runs

All runs of the agent use two-bit addresses, node 1 among the identifiers 0-3, so that level
0 and level 1 of the table both matter, and node 0 (special by the zeroed
forwarder) is another node.  `CHECK_DEADLOCK FALSE` is said there because
packets (`MaxPkts`) and time (`MaxTime`) are bounded: at both bounds a small
environment really can do nothing more.  The other runs check deadlock: the timers go on.

| run | asks | bounds that make it happen |
|---|---|---|
| `release` | who leaves the queue, when, in which order, how often; `AddressResolution` is implemented | 3 packets, queue of 2 (overflow), three destinations including 0, a HELLO, a DARP, a DABR of two entries, an address change |
| `links` | dead hops, what waits, what forwarding writes into the cache, requests only when needed | 2 own and relayed packets, two losses allowed, two tables to swap between, two DARQs, a DARP and a DAUP |
| `time` | spacing of repeated requests; staleness of the cache, purges never strand a packet | one packet at a time, to node 2 or to `IP_BROADCAST`, which never answers; ten instants, back-off 1, entry lifetime 4, purge every 2, a DABR with an entry that expired three instants ago: `darqCount` reaches five, and the second case of `DhtStaleBound` is needed |
| `recursion` | closed form = recursion, and satisfies its equations | queue of 3, three destinations, relayed packets |
| `settle` | who moves, what tables hold, addresses come to rest, neighbours differ and reach each other | 3 nodes, any initial links of a triangle, two-bit addresses, one lost HELLO or changed link; all start at address 0, so conflicts come first |
| `forget` | a node that is gone is forgotten, packets come to rest | 3 nodes in a row, three-bit addresses (two levels above the twins' one), one link that comes or goes, `INFINITO` 5 |
| `conflicts` | when conflicts last | 4 nodes, two-bit addresses (the middle node has two addresses next to it, three nodes want one), one link of exactly the threshold, no fault |
| `link` | use, silence, expiry | from the first HELLO on; intervals of 1 or 2 at each draw, an expiry of 7, four HELLOs expected and a product of 9 asked for: three HELLOs at the longest interval are just enough; one HELLO lost in either direction, then silence |
| `packets` | until a packet is shared, ns-2's checks hold and every packet has one owner; only one that was freed and scheduled comes to be shared | 3 packets, queue of 1, all handlers, HELLOs among them, and the interface |
| `packets_dabr` | what comes then, with DABRs: ns-2 stops | 3 packets, queue of 1; the model goes on until a packet is in a list twice |
| `discovery` | a request is answered | 4 nodes in a row, three-bit addresses, two hops to a node that knows, one loss of a message or of a data packet, one table not built yet |
| `readdress` | caches hold addresses that were true; neighbours know each other in the end | 3 nodes in a row, node 0 in the middle and sending; one moves to the other end and takes another address, so that the old one is in requests, DABRs, HELLOs and headers |

`INFINITO` is 65535 in the code; the small value only shortens the count to it.
Metrics are in hundredths, and `RTR_ETX_MAX` is as in the code.  The scale of
`link` keeps what the four timers can do to each other: the expiry is not a
multiple of an interval, the longest interval is twice the shortest, and the
threshold needs exactly as many HELLOs as the longest intervals leave.  The
code's own numbers (an expiry of 10.5 s, intervals of 0.75 to 1.25 s, ten HELLOs
expected, a threshold of 0.6) are covered by the theorems of `AspuLinkProofs`.

The constants of the code (queue 64, timeouts in seconds) are scaled in the other runs; what
matters is which comparison comes first, and the scaled values make every
branch of every handler happen.

What the properties say:

- `NoWaitingForKnown`: no packet waits for an address the cache holds.
- `QueueOwnsItsPackets`: queue membership and ownership agree; the limit holds.
- `QueuedIsFresh`: what waits was never forwarded (hence `addEntry(0, 0)`).
- `ScheduledOnce`: one event never schedules a packet twice; ns-2 aborts if so.
- `ReleaseNewestFirst`: a released burst is sent in reverse order.
- `NoFailedHopUsed`: a hop reported dead is not used before the table is rebuilt.
- `CacheFollowsTraffic`: sending renews the destination's entry and writes the
  header's address, however old, back into the cache.
- `RequestsAreNeeded`: nobody asks for what the node knows.
- `BackoffGrows`, `RetriesOnTime`: the k-th retry waits k-1 periods; the first
  pause is zero, and because two timers run `checkDarq` at the same instant the
  first two retries always go out together.
- `DhtStaleBound`: an entry outlives its expiry by two purge intervals at most,
  or by one more than the oldest expiry announced to the node is old.  Neighbours
  announce what they have not purged yet, and it may have come to them the same
  way: an address nobody renews ages by up to one interval with each hop.
- `ImplementsResolution`: the refinement.
- `RecursionAgrees`, `CallsUnfold`: the closed forms of `addEntry` and `forward`
  are the outcome of their calls, and satisfy the equations the code is.
- `SmallestStays`: the node of the least identifier keeps the address zero,
  whatever stale tables say: the tree keeps its root.
- `TablesFit`: what `forward` and the discovery assume of a table.
- `NothingFromTwin`: what the misread announcement costs, see below.
- `AddressesSettle`, `NeighborsDiffer`: when links come to rest, so do the
  addresses, and nodes in range of each other have different ones.
- `GoneIsForgotten`: entries for a node that left count up and go.
- `PacketsComeToRest`, `NeighborsReach`: packets on the tables of a network at
  rest do not circle, and arrive if they are for a neighbour.
- `TwinsAreMasked`, `ConflictIsHopeless`: conflicts that last for ever occur,
  but only in the situations these two name.
- `SteadyLinkIsUsed`: a link that loses nothing either way is in use when the two
  nodes have known each other for one expiry and two longest intervals.  Less
  would not do: the announced count starts at 0 and grows with each HELLO, the
  full one takes an interval to arrive, and `ASPUTimer` another to look.
- `SilentLinkIsLeft`, `SilenceIsNoticed`, `KnownIsHeard`: a silent link is left
  (in the code after about eight seconds) and forgotten one interval after the
  expiry at most (11.75 s); the quality of a neighbour in the set is never 0 for
  want of HELLOs.
- `SoundUntilShared`, `OneOwner`, `OnlyReusedIsShared`: until a packet has come
  into two hands, ns-2's two checks of its event list hold, and the free list,
  the event list, the queue and the interfaces share the packets out; and it
  comes into two hands only if `recvHello` or `recvDabr` had scheduled it after
  freeing it.
- `EventUidValid`: ns-2's checks hold, always; violated, see below.
- `RequestsAreAnswered`: where the walk of a request passes a neighbour of the
  node asked for, and the tables lead back, the packet leaves the queue.
- `CacheProvenance`: no cache holds an address its node never had, whoever told it.
- `NeighborsKnown`: when the data traffic comes to rest, neighbours know each
  other's current address for good.  Without rest they need not: a sender with
  an old address of its destination writes it into the caches on the way
  (`aspu.cc:391`), over what the last HELLO said, for as long as it sends.

Some of these hold although a reader might not want them to: releases in
reverse order, node 0 mapped to address 0 at every release, a node's own stale
address re-taught, expired entries used and renewed by use.  Nothing in the
repository (no test, comment or document) promises otherwise, so they are
stated as what the code does.

### Fairness

`AspuNDP` assumes weak fairness of each node's timer calls and HELLOs: `handl`
and `NDPHelloTimer::handle` reschedule themselves unconditionally, so every node
ticks and sends again and again; the fair tick forgets all neighbours that are
silent, which `AspuLink` justifies (`SilenceIsNoticed`).  Links and losses are
bounded, hence in the end all HELLOs are heard; no fairness is assumed of links.
`AspuDiscovery` assumes weak fairness of HELLOs, of the retries of `checkDarq`
while something waits (its timers reschedule themselves), of delivery at each
node by type of message (the interface hands over what it does not lose), and
that a change of the network reaches every node, and that NDP rebuilds a table
that `macFailed` marked.  Nothing is assumed of data packets and of the
applications: they may send for ever or stop.  The conditions are written on
the variables that name the last event, `last`, `calls` and `epoch`, not on
whole actions, for the sake of TLC; they say the same.  The agent alone, the
link and the packets have no liveness property: a packet for a silent
destination waits for ever.

### What the runs showed

- The finding: `recvDabr` frees a packet at `aspu.cc:1673` and schedules it at
  1683; `recvHello` has the same two statements.  The packet is then in the free
  list and in the event list, and it takes one more `alloc` before the interface
  has done with it.  In the trace of `packets_dabr` ARP keeps the packet until it
  knows the receiver; the request that ARP sends (`mac/arp.cc:218`) is allocated
  from the free list, so it is the very same packet, and when ARP gives up what it
  keeps, ns-2's assertion in `packet.h:545` fails.
- Since the route log is the misread metric, its value is 1 for links in use:
  bit 0.  Two nodes that part at level 0 never learn another way from each
  other (`NothingFromTwin`): in a row with the addresses 000, 100, 110, 111 the
  last node can reach neither of the first two.  And no other loop is
  prevented: the hop count of a way to a node that is gone rises to `INFINITO`
  before it goes.  In a star of three leaves with three-bit addresses the tables
  need not come to rest at all (the addresses do), so no property says it.
- Uniqueness of addresses is not promised: two nodes behind a common neighbour
  can keep one address, as `std::set` keeps the entry it has and the order of
  the multiset depends on the past (`TwinsAreMasked`); and a conflict between
  neighbours stays when no address next to a neighbour is free or the link has
  exactly the quality 0.6 (`ConflictIsHopeless`).
- A packet for an address nobody has may circle in a network at rest until its
  TTL ends; for one in reach it does not (`PacketsComeToRest`).
- The node at the end of a request's walk is to know the address asked for, by
  a DAUP; nothing calls `sendDaup`.  So only nodes that happen to be neighbours
  of the one asked for can answer, and in a row of four most requests beyond
  neighbours wait for ever.

None of the last four contradicts a comment, a test or a document of the
repository, which promise nothing here; they are stated as what the code does.

## Proofs

Every theorem holds for every address length, set of identifiers, queue length,
timeout, environment and network that the assumptions below admit.

### The agent's state: `AspuAgentProofs`

`TypeCorrect`, `NothingStranded`, `QueueIsExact`, `QueueIsFresh`: `Spec => []` of
`TypeOK`, `NoWaitingForKnown`, `QueueOwnsItsPackets`, `QueuedIsFresh`.

None of them is inductive alone.  The inductive invariant `AgentInv` is
`NodeInv` of the node's record plus the types of timers and pending DABR.
`NodeInv` (in `AspuNodeProofs`) joins the types, one routing entry per next hop
and level, the queue invariant (membership = ownership, the limit, freshness,
no known destination) and "a packet at the interface has an address".
Freshness is needed because `addEntry` of the node's own identifier, done on
every release, drains nothing: no waiting packet is for the node itself.  The
key lemma is `AddEntryUntilInv`; every handler is a chain of calls, each with a
lemma that it preserves `NodeInv`, and `StepAgentInv` has one step per action.

Typing the table look-up needs that the loop of `getEntry` has one winner.
`BestIsBest` proves it from well-foundedness of the naturals
(`LeastNatural`, `LowestAddress`): a level with distinct next hops has exactly
one entry that beats the others by distance, metric and position.

### What it promises, and when: `AspuAgentProofs`

- `AgentIsResolver`: `Spec => ImplementsResolution`.  Every handler either only
  teaches the agent (`Gains`: the cache grows, and the packets for what it
  learnt leave the queue, all together), or queues one packet, or purges, or
  marks requests; `StepKinds` classifies the actions once, and the refinement
  and the two properties of time below go through that classification.
- `BackoffsAddUp`, `StaleEntriesGo`: `[]BackoffGrows` and `[]DhtStaleBound`, the
  latter for every age `b` of what is announced, with no hypothesis on it.
  `DhtStaleBound` is not inductive; `PurgeBound(b)` relates the age of entries to
  the next purge instead, and says that the first call of the timer, which only
  counts, comes when nothing of the node's own can have expired by more.
- `RetriesComeInTime`: `[]RetriesOnTime` if the two periods are positive.  The
  invariant `OnTime` says of a waiting packet that it is not due, or due and no
  timer has run yet, or asked for once and one timer is still to run.

### What it sends: `AspuOutputProofs`

`SentOnce`, `DeadHopsRest`, `NoVainRequests`, `CacheIsTaught`, `QueueIsReversed`:
`ScheduledOnce`, `NoFailedHopUsed`, `RequestsAreNeeded`, `CacheFollowsTraffic`,
`ReleaseNewestFirst`.

They speak about `out`, which the last event left, so the argument is about what
a handler does up to any point of its run.  `Releasing(s, t, n)` says that in
going from `s` to `t` it has only released packets of the queue: each was in the
queue of `s`, is in the queue of `t` no more, was sent once, to a hop that
works, and later packets of a destination went first.  `AddEntryUntilReleases`
proves this kept by one more `addEntry`, nested calls included: what left the
queue is not there for the second call to find.  A handler releases, and then
sends at most one message of its own (`LastRight`), which gives `Right(s, t)` for
each of them.  Two facts of the state are needed and not implied by `AgentInv`:
all entries of a table for one neighbour agree on `macFailed` (`Uniform`), since
`macFailed` marks the neighbour on every level and NDP builds tables unmarked;
and the node's own packets at the interface are for others and name the node as
forwarder (`Own`), so that a retransmission teaches nothing about node 0.  The
inductive invariant is `Output`; `NextGood` has one case per action.

The second half of the module is about the closed forms that all of this rests
on.  `CallsAlwaysUnfold` is `[]CallsUnfold`: in every reachable state
`AddEntryUntil` satisfies the equation that the code of `addEntry` is, with
`Forward` for the call it makes, and `Forward` that of `forward`, with
`AddEntryUntil` for the three calls it makes; and after the first turn of the loop
nothing is left waiting.  `RecursionIsClosed` draws the conclusion: *any* three
functions `addEntry`, `drain` (the loop) and `forward` that call each other as the
code does (`CallEachOther`) agree with the closed forms, for a queue of any
length.  `RecursionEnds` says that there are such functions.

The calls are made in the middle of handlers, where the invariant of the node
does not hold: a packet has left the queue and is not sent yet.  `Passed(s)` is
what holds there (types, distinct table entries, fresh packets in the queue),
and `CallPasses` that calls keep it.  `ForwardUnfolds` says that `forward` may mark
the header as going down before it makes its calls or after: they leave a packet
alone that is not in the queue (`PutAside`).  `AddEntryUnfolds` is the heart.  The
oldest packet for the identifier is taken and handed to `forward`, whose three
calls name the destination, which releases all the other packets for it; the
node itself, for which nothing waits; and node 0, which the zeroed header has as
forwarder (`OldestTeaches`).  They leave what `addEntry` leaves of the whole queue
but for the packet in hand, which then goes out, last: the oldest is the end of
the newest first (`NewestFirstEnds`).  If some function
differed from its closed form, there would be a state of least queue length
where it does; but `addEntry` takes a packet out before it calls anything, so
what it calls agrees, and then so does it by the equations.

### The network of tables: `AspuNDPProofs`

`Typing`, `SmallestKeepsAddress`, `TablesAlwaysFit`: `[]` of `TypeOK`,
`SmallestStays`, `TablesFit`; `TwinsTeachNothing`: `[]NothingFromTwin` if
`LQE_THRESHOLD > 50` (the code has 0.6): only then is the metric of a link in use
between 1 and 2, and read as a route log it is the bit of level 0.

The inductive invariant `IInv` says of every node that each level of its table
fits the node's address, and that what neighbours announced is well-formed.
The address of the smallest identifier is in it: no line of any announcement
names a smaller one, so no neighbour's subtree wins against it, however old the
announcement.  `setUpdate`, `updateRoutingTable` and `neighborPurge` are
functions defined by recursion on the number of lines or neighbours visited;
for each, its value after so many visits is shown to fit by the first visit
after which it would not.

### Addresses and links

`AspuFunctionProofs` proves that `DiffBit` is an ultrametric
(`DiffBitUltrametric`) and `hash` injective on bit vectors (`HashBitsInjective`).

`AspuLinkProofs` proves of a link, for all intervals, expiries, thresholds and
answers: `LinkTypeCorrect`, `SilenceIsAlwaysNoticed`, `KnownIsAlwaysHeard`
(`TypeOK`, `SilenceIsNoticed`, `KnownIsHeard`).  The bound on the age of a known
neighbour is not inductive: between two calls its age grows.  The invariant
`LInv` bounds age plus time left to the next call instead (`LooksSoon`), for the
neighbour and for each HELLO counted, and says that the HELLO heard last is among
those counted while the neighbour is known: both expire by the same comparison,
so neither goes first.  `HelloLInv`, `CallLInv` and `TickLInv` take one event
each.

Two theorems more are about the count of HELLOs in the window, so about all
their ages at once.

- `SilentLinkIsAlwaysLeft`: `[]SilentLinkIsLeft`, after any losses.  HELLOs
  counted are an interval apart (`Apart`, `BeforeNext`) and none is younger than
  the last one heard (`LastHeard`).  So if k of them count, the oldest is k-1 of
  the shortest intervals older than the youngest (`SpacedAreFew`: dividing by the
  interval tells the ages apart), and it is younger than the expiry:
  a link found good at a call has been silent for less than the expiry minus
  those intervals.  `SilentInv` carries this from the last call to the next.
- `SteadyLinkIsAlwaysUsed`: `[]SteadyLinkIsUsed` if `Enough`: as many HELLOs as
  come at the longest interval within the expiry suffice, on both sides, for the
  threshold.  That is all it supposes: what is announced is counted, from 0 on.
  `EnoughInTheCode` shows that the code's numbers are enough.  Without losses the
  ages are dense (`Dense`): every stretch of the longest interval, as far back as
  the link has been steady, holds a HELLO, at either end.  The stretches inside the
  expiry give that many different ages (`DenseAreMany`).  So the neighbour's count
  is high when the link has been steady for an expiry; the announced count one
  interval later (`Announced`); and what a call finds after one more (`FoundGood`).
  `SteadyInv` keeps this over HELLOs, calls and ticks.

### Packets: `AspuPacketsProofs`

`NothingStopsUntilShared`, `PacketsHaveOneOwner`, `SharingIsReuse`:
`[]SoundUntilShared`, `[]OneOwner` and `OnlyReusedIsShared`, for any number of
packets, any queue length and any messages, HELLOs and DABRs included.  Nothing
is said of what follows once a packet is shared: `packets_dabr` shows what can.

Within a handler `OneOwner` does not hold: the packet it was called with, and the
one it allocated, are nobody's.  `Apart(h, hand)` names them, the handler's hand:
every packet is free, in the event list once, in the queue, at an interface or in
the hand, as its flags say (`Owned`).  There is one lemma for each call
(`AllocGood`, `FreeAllGood`, `ScheduleAllGood`, `LinkedGood` and so on) which says
what the call adds to the hand or takes from it, and that it finds no packet that
ns-2 would stop for.  `LearntGood` is the one for the releases nested in a handler:
each packet released is taken from the queue once, and is scheduled or dropped.  A
handler is right if it begins with the packet dispatched in hand and ends with
nothing in it.  `Good(h, hand, R)` adds the packets `R` that were freed and
scheduled: a packet can come into two hands only if `R` is not empty
(`AllocGood`).  Between events, `Steady`, that is `Good` with an empty hand, is the
inductive invariant.

### Discovery: `AspuDiscoveryProofs`

`NothingIsMadeUp`: `[]CacheProvenance`, for any number of nodes, node 0 among them
or not, any links, tables and addresses in any number of eras, any packets, losses
and delays.

What a cache holds came from a message, a HELLO, or the header of a data packet,
and those took it from a cache or from the node's own address; so the
invariant `IInv` says of every cache, every header of a packet that waits or is
at an interface, and every message under way that what it names is true, or was:
`Had(epoch, x, a)`.  It stays so, as epochs only grow (`HadLater`).  A packet that
waits names only its sender truly (`Carries`), since nobody has forwarded it; one
at an interface also its destination and the node that sent it last (`Tells`).
`Truthful` is what a node holds between any two calls of a handler; there is one
lemma per call, and one per action.  About node 0 anything may be said, whether
it exists or not, because `addEntry` maps it to address 0 on every release, from
a field that `Packet::alloc` zeroed.  A DABR is read by a recursive
function over its entries, in any order; that every value of it is truthful goes
by the first entry after which it would not be (`ReadTruthful`).

### Assumptions

`AddrSizeAssumption` (at least one bit), `NodeAssumption` (types of
the constants; `NoAdd` is no address, which the code has by `IP_BROADCAST`
being wider than `ADDR_SIZE` bits), `AgentAssumption` (messages carry their
type, identifiers and addresses; a table has one entry per next hop and level, as
a `std::set` with `setCompare` has, and is handed over unmarked, as the
constructor of `RoutingEntry` clears `macFailed_`), `TableAssumption` and
`NDPAssumption` (identifiers below `INFINITO`, qualities in hundredths),
`LinkAssumption` (types of the constants, and intervals between the two bounds,
of which the lower one is not above the upper one),
`PacketsAssumption` and `DiscoveryAssumption` (types of the constants; an
application sends to another node).  TLC evaluates them in every run of their
modules.  What else a theorem supposes stands in its `ASSUME`: positive periods in
`RetriesComeInTime`, a threshold above one half in `TwinsTeachNothing`, `Enough` in
`SteadyLinkIsAlwaysUsed`.  The code's constants satisfy all three, and so do those
of the runs `time`, `settle` and `link`.  (`RecursionIsClosed`
and `RecursionEnds` suppose a set that holds at least the data messages, for
the messages sent before the call.)

### Only model-checked

- Liveness (`AddressesSettle`, `RequestsAreAnswered` and the like): beyond the
  prover.
- `RecursionAgrees`, since recursive operators are beyond the prover.  What it says
  is proved of functions instead, by `RecursionIsClosed` and `RecursionEnds`.

All other invariants and action properties of the passing runs are proved.

## Plan

1. Done: the agent (`AspuFunction`, `AspuNode`, `AspuAgent`,
   `AddressResolution`, `AspuCalls`, `AspuRecursion`), the tables and NDP (`AspuTable`,
   `AspuNDP`, `AspuForwarding`), links in time (`AspuLink`), discovery among
   nodes (`AspuDiscovery`), packet ownership (`AspuPackets`); the proofs above.
2. `AspuGossip`: DABRs between nodes with time, and the age of cache entries
   network-wide.

## Not modelled

- The Tcl binding, `command`, tracing and printing: input and output.
- The branches for several interfaces: they name undeclared variables.
- `etxMetric_` false, which no Tcl file of the repository sets.
- `NDPNeighborTimer` (never started), `sendDaup`, `ASPUQueue::purge` and the
  counting functions of tables and neighbours (no caller), destructors.
- What comes of the containers' undefined behaviour listed above.
- The vendored simulator and tool sources under `src/project` (Tcl, Tk, nam,
  ns-2.35 with M-DART): third-party code, more than 99 % of the lines of the
  repository, which is why the map covers so small a share of it.  Of it, the
  packet pool, the event list and the way of a packet through LL, ARP, the
  interface queue, the MAC and the channel are modelled (`AspuPackets`), as far as
  packets change hands there; the states of the MAC and the radio are not.
- The scenario script `tcl-file.tcl`.
