--------------------------- MODULE AspuLinkProofs ---------------------------
(***************************************************************************)
(* A link in time, for all intervals and expiries.  The invariant bounds   *)
(* every age by the time left of ASPUTimer: what is counted or known after *)
(* one call is looked at again by the next.                                *)
(***************************************************************************)
EXTENDS AspuLink, FiniteSetTheorems, TLAPS

\* An age that the next call will still find within one interval of the expiry.
LooksSoon(h) == h + nextCall <= NDP_NEIGHBOR_EXPIRE + NDP_MAX_HELLO_INTERVAL

\* The same of an age at the neighbour.
TheyLookSoon(h) == h + theirCall <= NDP_NEIGHBOR_EXPIRE + NDP_MAX_HELLO_INTERVAL

\* The types, the Boolean ones apart.
Booleans == known \in BOOLEAN /\ used \in BOOLEAN /\ up \in BOOLEAN

Numbers ==
  /\ hellos \subseteq 0 .. Limit /\ age \in 0 .. Limit /\ steady \in 0 .. Limit
  /\ theirs \subseteq 0 .. Limit /\ forQuality \in 0 .. LQE_MA_EXPECTED_HELLO
  /\ nextHello \in 0 .. NDP_MAX_HELLO_INTERVAL /\ nextCall \in 0 .. NDP_MAX_HELLO_INTERVAL
  /\ ourHello \in 0 .. NDP_MAX_HELLO_INTERVAL /\ theirCall \in 0 .. NDP_MAX_HELLO_INTERVAL
  /\ losses \in 0 .. MaxLosses

\* The inductive invariant.
LInv ==
  /\ Booleans /\ Numbers
  /\ \A h \in hellos : LooksSoon(h)
  /\ \A h \in theirs : TheyLookSoon(h)
  /\ known => LooksSoon(age)
  /\ known => age \in hellos

\* What the constants are.
LEMMA LinkFacts ==
  /\ NDP_NEIGHBOR_EXPIRE \in Nat \ {0} /\ NDP_MAX_HELLO_INTERVAL \in Nat
  /\ \A i \in Intervals : i \in 0 .. NDP_MAX_HELLO_INTERVAL
  /\ Limit \in Nat /\ Limit >= NDP_NEIGHBOR_EXPIRE + NDP_MAX_HELLO_INTERVAL
  /\ MaxLosses \in Nat /\ LQE_MA_EXPECTED_HELLO \in Nat \ {0}
  BY LinkAssumption DEF LinkAssumption, Limit

\* The lesser of two numbers, as Tick takes it of the two timers.
LEMMA LeastFacts ==
  \A x, y \in Int : Least(x, y) \in {x, y} /\ Least(x, y) <= x /\ Least(x, y) <= y
  BY DEF Least

\* What has not expired at a call of ASPUTimer is looked at again in time,
\* whatever interval the timer draws.
LEMMA YoungLooksSoon ==
  ASSUME NEW h \in Nat, h <= NDP_NEIGHBOR_EXPIRE, NEW c \in 0 .. NDP_MAX_HELLO_INTERVAL
  PROVE  h + c <= NDP_NEIGHBOR_EXPIRE + NDP_MAX_HELLO_INTERVAL
  <1>1. NDP_NEIGHBOR_EXPIRE \in Nat /\ NDP_MAX_HELLO_INTERVAL \in Nat
    BY LinkFacts
  <1>2. c \in Int /\ c <= NDP_MAX_HELLO_INTERVAL
    BY <1>1
  <1> QED
    BY <1>1, <1>2

\* What a node announces of the HELLOs it counts.
LEMMA CountFacts ==
  ASSUME NEW H, H \subseteq 0 .. Limit
  PROVE  /\ IsFiniteSet(H) /\ Cardinality(H) \in Nat
         /\ RevLinkQuality(H) \in 0 .. LQE_MA_EXPECTED_HELLO
  <1>1. H \in SUBSET Nat /\ \A h \in H : h <= Limit
    BY LinkFacts
  <1>2. IsFiniteSet(H) /\ Cardinality(H) \in Nat
    BY <1>1, LinkFacts, FS_BoundedSetOfNaturals, FS_CardinalityType
  <1> QED
    BY <1>2, LinkFacts DEF RevLinkQuality, Least

\* The first state: no neighbour, all timers drawn.
LEMMA InitLInv == Init => LInv
  <1> SUFFICES ASSUME Init PROVE LInv
    OBVIOUS
  <1>1. Booleans
    BY Zenon DEF Init, Booleans
  <1>2. Numbers
    <2>1. /\ hellos = {} /\ age = Limit /\ forQuality = 0 /\ losses = 0 /\ steady = 0
          /\ theirs = {}
      BY DEF Init
    <2>2. /\ nextHello \in 0 .. NDP_MAX_HELLO_INTERVAL /\ nextCall \in 0 .. NDP_MAX_HELLO_INTERVAL
          /\ ourHello \in 0 .. NDP_MAX_HELLO_INTERVAL /\ theirCall \in 0 .. NDP_MAX_HELLO_INTERVAL
      BY LinkFacts DEF Init
    <2> QED
      BY <2>1, <2>2, LinkFacts DEF Numbers
  <1> QED
    BY <1>1, <1>2 DEF Init, LInv

\* A HELLO, heard or missed.
LEMMA HelloLInv == ASSUME LInv, Hello PROVE LInv'
  <1>1. /\ UNCHANGED <<used, nextCall, theirs, ourHello, theirCall, up>>
        /\ nextHello' \in 0 .. NDP_MAX_HELLO_INTERVAL
    BY LinkFacts DEF Hello, there
  <1>2. CASE Missed /\ UNCHANGED <<known, hellos, age, forQuality>>
    <2>1. UNCHANGED <<known, hellos, age, forQuality>> /\ steady' = 0
      BY <1>2 DEF Missed
    <2>2. losses' \in 0 .. MaxLosses
      BY <1>1, <1>2, LinkFacts DEF Missed, LInv, Numbers
    <2>3. Booleans'
      BY <1>1, <2>1 DEF LInv, Booleans
    <2>4. Numbers'
      BY <1>1, <2>1, <2>2, LinkFacts DEF LInv, Numbers
    <2> QED
      BY <1>1, <2>1, <2>3, <2>4 DEF LInv, LooksSoon, TheyLookSoon
  <1>3. CASE Heard
    <2>1. /\ known' = TRUE /\ age' = 0 /\ forQuality' \in 0 .. LQE_MA_EXPECTED_HELLO
          /\ UNCHANGED <<losses, steady>>
      BY <1>3, CountFacts DEF Heard, LInv, Numbers
    <2>2. hellos' \subseteq hellos \cup {0} /\ 0 \in hellos'
      BY <1>3 DEF Heard, PurgeHello
    <2>3. Booleans'
      BY <1>1, <2>1 DEF LInv, Booleans
    <2>4. Numbers'
      BY <1>1, <2>1, <2>2, LinkFacts DEF LInv, Numbers
    <2>5. LooksSoon(0)'
      <3>1. nextCall' \in 0 .. NDP_MAX_HELLO_INTERVAL
        BY <2>4 DEF Numbers
      <3>2. 0 \in Nat /\ 0 <= NDP_NEIGHBOR_EXPIRE
        BY LinkFacts
      <3>3. 0 + nextCall' <= NDP_NEIGHBOR_EXPIRE + NDP_MAX_HELLO_INTERVAL
        BY <3>1, <3>2, YoungLooksSoon
      <3> QED
        BY <3>3 DEF LooksSoon
    <2>6. \A h \in hellos' : LooksSoon(h)'
      BY <1>1, <2>2, <2>5 DEF LInv, LooksSoon
    <2> QED
      BY <1>1, <2>1, <2>2, <2>3, <2>4, <2>5, <2>6 DEF LInv, TheyLookSoon
  <1> QED
    BY <1>2, <1>3 DEF Hello

\* A HELLO of the node, heard by the neighbour or missed.
LEMMA OurHelloLInv == ASSUME LInv, OurHello PROVE LInv'
  <1>1. UNCHANGED <<here, theirCall, up>> /\ ourHello' \in 0 .. NDP_MAX_HELLO_INTERVAL
    BY LinkFacts DEF OurHello
  <1>2. UNCHANGED <<known, hellos, age, forQuality, used, nextHello, nextCall>>
    BY <1>1 DEF here
  <1>3. theirs' \subseteq theirs \cup {0}
    BY DEF OurHello, PurgeHello
  <1>4. losses' \in 0 .. MaxLosses /\ steady' \in 0 .. Limit
    BY LinkFacts DEF OurHello, Missed, LInv, Numbers
  <1>5. Booleans'
    BY <1>1, <1>2 DEF LInv, Booleans
  <1>6. Numbers'
    BY <1>1, <1>2, <1>3, <1>4, LinkFacts DEF LInv, Numbers
  <1>7. TheyLookSoon(0)'
    <2>1. theirCall' \in 0 .. NDP_MAX_HELLO_INTERVAL
      BY <1>6 DEF Numbers
    <2>2. 0 \in Nat /\ 0 <= NDP_NEIGHBOR_EXPIRE
      BY LinkFacts
    <2>3. 0 + theirCall' <= NDP_NEIGHBOR_EXPIRE + NDP_MAX_HELLO_INTERVAL
      BY <2>1, <2>2, YoungLooksSoon
    <2> QED
      BY <2>3 DEF TheyLookSoon
  <1>8. (\A h \in theirs : TheyLookSoon(h))'
    BY <1>1, <1>3, <1>7 DEF LInv, TheyLookSoon
  <1> QED
    BY <1>2, <1>5, <1>6, <1>8 DEF LInv, LooksSoon

\* ASPUTimer: what it keeps is younger than the expiry.
LEMMA CallLInv == ASSUME LInv, Call PROVE LInv'
  <1>1. /\ nextCall' \in 0 .. NDP_MAX_HELLO_INTERVAL
        /\ UNCHANGED <<age, forQuality, nextHello, theirs, ourHello, theirCall, up, losses, steady>>
    BY LinkFacts DEF Call, there
  <1>2. hellos' \subseteq hellos /\ \A h \in hellos' : h < NDP_NEIGHBOR_EXPIRE
    BY DEF Call, PurgeHello
  <1>3. Booleans'
    BY <1>1, Zenon DEF Call, LInv, Booleans
  <1>4. Numbers'
    BY <1>1, <1>2 DEF LInv, Numbers
  <1>5. ASSUME NEW h \in 0 .. Limit, h < NDP_NEIGHBOR_EXPIRE PROVE LooksSoon(h)'
    <2>1. h + nextCall' <= NDP_NEIGHBOR_EXPIRE + NDP_MAX_HELLO_INTERVAL
      <3>1. h \in Nat /\ h <= NDP_NEIGHBOR_EXPIRE
        BY <1>5, LinkFacts
      <3> QED
        BY <1>1, <3>1, YoungLooksSoon
    <2> QED
      BY <2>1 DEF LooksSoon
  <1>6. (\A h \in hellos : LooksSoon(h))'
    BY <1>2, <1>4, <1>5 DEF Numbers
  <1>7. ASSUME known' PROVE age' < NDP_NEIGHBOR_EXPIRE /\ age' \in hellos'
    <2>1. known /\ ~Expired /\ hellos' = PurgeHello(hellos)
      BY <1>7 DEF Call
    <2>2. age \in hellos /\ age < NDP_NEIGHBOR_EXPIRE
      BY <2>1, LinkFacts DEF LInv, Numbers, Expired
    <2> QED
      BY <1>1, <2>1, <2>2 DEF PurgeHello
  <1>8. (known => LooksSoon(age))' /\ (known => age \in hellos)'
    BY <1>6, <1>7
  <1> QED
    BY <1>1, <1>3, <1>4, <1>6, <1>8 DEF LInv, TheyLookSoon

\* The neighbour's ASPUTimer.
LEMMA TheirCallLInv == ASSUME LInv, TheirCall PROVE LInv'
  <1>1. /\ UNCHANGED <<here, ourHello, up, losses, steady>>
        /\ theirCall' \in 0 .. NDP_MAX_HELLO_INTERVAL
    BY LinkFacts DEF TheirCall
  <1>2. UNCHANGED <<known, hellos, age, forQuality, used, nextHello, nextCall>>
    BY <1>1 DEF here
  <1>3. theirs' \subseteq theirs /\ \A h \in theirs' : h < NDP_NEIGHBOR_EXPIRE
    BY DEF TheirCall, PurgeHello
  <1>4. Booleans'
    BY <1>1, <1>2 DEF LInv, Booleans
  <1>5. Numbers'
    BY <1>1, <1>2, <1>3 DEF LInv, Numbers
  <1>6. ASSUME NEW h \in theirs' PROVE TheyLookSoon(h)'
    <2>1. h \in Nat /\ h <= NDP_NEIGHBOR_EXPIRE
      BY <1>3, LinkFacts DEF LInv, Numbers
    <2>2. h + theirCall' <= NDP_NEIGHBOR_EXPIRE + NDP_MAX_HELLO_INTERVAL
      BY <1>1, <2>1, YoungLooksSoon
    <2> QED
      BY <2>2 DEF TheyLookSoon
  <1>7. (\A h \in theirs : TheyLookSoon(h))'
    BY <1>6
  <1> QED
    BY <1>2, <1>4, <1>5, <1>7 DEF LInv, LooksSoon

\* How far the clock goes on: no further than to the next event.
LEMMA TickTo ==
  ASSUME LInv, Tick
  PROVE  \E d \in Nat :
           /\ d <= nextHello /\ d <= nextCall /\ d <= ourHello /\ d <= theirCall
           /\ nextHello' = nextHello - d /\ nextCall' = nextCall - d
           /\ ourHello' = ourHello - d /\ theirCall' = theirCall - d
           /\ hellos' = {h + d : h \in hellos} /\ theirs' = {h + d : h \in theirs}
           /\ age' = Least(age + d, Limit)
           /\ steady' = IF known /\ theirs # {} THEN Least(steady + d, Limit) ELSE 0
  <1> DEFINE x == Least(nextHello, nextCall)
             y == Least(ourHello, theirCall)
  <1>1. nextHello \in Nat /\ nextCall \in Nat /\ ourHello \in Nat /\ theirCall \in Nat
    BY LinkFacts DEF LInv, Numbers
  <1>2. x \in Nat /\ x <= nextHello /\ x <= nextCall
    BY <1>1, LeastFacts
  <1>3. y \in Nat /\ y <= ourHello /\ y <= theirCall
    BY <1>1, LeastFacts
  <1>4. Least(x, y) \in Nat /\ Least(x, y) <= x /\ Least(x, y) <= y
    <2> HIDE DEF x, y
    <2> QED
      BY <1>2, <1>3, LeastFacts
  <1>5. /\ Least(x, y) <= nextHello /\ Least(x, y) <= nextCall
        /\ Least(x, y) <= ourHello /\ Least(x, y) <= theirCall
    <2> HIDE DEF x, y
    <2> QED
      BY <1>1, <1>2, <1>3, <1>4
  <1> QED
    BY <1>4, <1>5 DEF Tick

\* The clock goes on, at most to the next call.
LEMMA TickLInv == ASSUME LInv, Tick PROVE LInv'
  <1>1. PICK d \in Nat :
          /\ d <= nextHello /\ d <= nextCall /\ d <= ourHello /\ d <= theirCall
          /\ nextHello' = nextHello - d /\ nextCall' = nextCall - d
          /\ ourHello' = ourHello - d /\ theirCall' = theirCall - d
          /\ hellos' = {h + d : h \in hellos} /\ theirs' = {h + d : h \in theirs}
          /\ age' = Least(age + d, Limit)
          /\ steady' = IF known /\ theirs # {} THEN Least(steady + d, Limit) ELSE 0
    BY TickTo
  <1>2. UNCHANGED <<known, forQuality, used, up, losses>>
    BY DEF Tick
  <1>3. ASSUME NEW h \in Nat, LooksSoon(h) PROVE LooksSoon(h + d)' /\ h + d \in 0 .. Limit
    <2>1. (h + d) + nextCall' = h + nextCall /\ h + d <= h + nextCall
      BY <1>1, LinkFacts DEF LInv, Numbers
    <2>2. h + d <= Limit
      BY <1>3, <2>1, LinkFacts DEF LooksSoon, LInv, Numbers
    <2> QED
      BY <1>3, <2>1, <2>2 DEF LooksSoon
  <1>4. hellos' \subseteq 0 .. Limit /\ \A h \in hellos' : LooksSoon(h)'
    <2>1. ASSUME NEW h \in hellos PROVE LooksSoon(h + d)' /\ h + d \in 0 .. Limit
      <3>1. h \in Nat /\ LooksSoon(h)
        BY LinkFacts DEF Numbers, LInv
      <3> QED
        BY <1>3, <3>1
    <2> QED
      BY <1>1, <2>1
  <1>10. ASSUME NEW h \in Nat, TheyLookSoon(h) PROVE TheyLookSoon(h + d)' /\ h + d \in 0 .. Limit
    <2>1. (h + d) + theirCall' = h + theirCall /\ h + d <= h + theirCall
      BY <1>1, LinkFacts DEF LInv, Numbers
    <2>2. h + d <= Limit
      BY <1>10, <2>1, LinkFacts DEF TheyLookSoon, LInv, Numbers
    <2> QED
      BY <1>10, <2>1, <2>2 DEF TheyLookSoon
  <1>11. theirs' \subseteq 0 .. Limit /\ \A h \in theirs' : TheyLookSoon(h)'
    <2>1. ASSUME NEW h \in theirs PROVE TheyLookSoon(h + d)' /\ h + d \in 0 .. Limit
      <3>1. h \in Nat /\ TheyLookSoon(h)
        BY LinkFacts DEF Numbers, LInv
      <3> QED
        BY <1>10, <3>1
    <2> QED
      BY <1>1, <2>1
  <1>5. age' \in 0 .. Limit /\ steady' \in 0 .. Limit
    BY <1>1, LeastFacts, LinkFacts DEF LInv, Numbers
  <1>6. Booleans'
    BY <1>2 DEF LInv, Booleans
  <1>7. Numbers'
    <2>1. /\ nextHello' \in 0 .. NDP_MAX_HELLO_INTERVAL /\ nextCall' \in 0 .. NDP_MAX_HELLO_INTERVAL
          /\ ourHello' \in 0 .. NDP_MAX_HELLO_INTERVAL /\ theirCall' \in 0 .. NDP_MAX_HELLO_INTERVAL
      BY <1>1, LinkFacts DEF LInv, Numbers
    <2> QED
      BY <1>2, <1>4, <1>5, <1>11, <2>1 DEF LInv, Numbers
  <1>8. ASSUME known' PROVE age' \in hellos'
    <2>1. known /\ age \in hellos /\ age + d \in 0 .. Limit
      BY <1>2, <1>3, <1>8 DEF LInv, Numbers
    <2>2. age' = age + d
      BY <1>1, <2>1, LinkFacts DEF Least
    <2> QED
      BY <1>1, <2>1, <2>2
  <1>9. (known => LooksSoon(age))' /\ (known => age \in hellos)'
    BY <1>4, <1>8
  <1> QED
    BY <1>4, <1>6, <1>7, <1>9, <1>11 DEF LInv

\* Every step preserves the inductive invariant.
LEMMA NextLInv == LInv /\ [Next]_vars => LInv'
  <1> SUFFICES ASSUME LInv, [Next]_vars PROVE LInv'
    OBVIOUS
  <1>1. CASE Hello
    BY <1>1, HelloLInv
  <1>2. CASE Call
    BY <1>2, CallLInv
  <1>3. CASE Tick
    BY <1>3, TickLInv
  <1>4. CASE Cut
    BY <1>4 DEF Cut, here, there, LInv, Booleans, Numbers, LooksSoon, TheyLookSoon
  <1>5. CASE UNCHANGED vars
    BY <1>5 DEF vars, here, there, LInv, Booleans, Numbers, LooksSoon, TheyLookSoon
  <1>6. CASE OurHello
    BY <1>6, OurHelloLInv
  <1>7. CASE TheirCall
    BY <1>7, TheirCallLInv
  <1> QED
    BY <1>1, <1>2, <1>3, <1>4, <1>5, <1>6, <1>7 DEF Next

\* So it holds of every behaviour of the link.
LEMMA LinkInvariant == Spec => []LInv
  BY InitLInv, NextLInv, PTL DEF Spec

\* The types, with the bound on what purgeHello leaves in helloVector_.
THEOREM LinkTypeCorrect == Spec => []TypeOK
  <1>1. LInv => TypeOK
    BY DEF LInv, Booleans, Numbers, TypeOK
  <1> QED
    BY <1>1, LinkInvariant, PTL

\* neighborPurge forgets a silent neighbour at the first call after its expiry,
\* whatever the timers draw.
THEOREM SilenceIsAlwaysNoticed == Spec => []SilenceIsNoticed
  <1>1. LInv => SilenceIsNoticed
    BY LinkFacts DEF LInv, Numbers, LooksSoon, SilenceIsNoticed
  <1> QED
    BY <1>1, LinkInvariant, PTL

\* A neighbour in the set has a HELLO that counts: the one heard last is in
\* helloVector_ for as long as the neighbour is in neighborSet_.
THEOREM KnownIsAlwaysHeard == Spec => []KnownIsHeard
  <1>1. LInv => KnownIsHeard
    BY DEF LInv, KnownIsHeard
  <1> QED
    BY <1>1, LinkInvariant, PTL

\* The quotient and the product of two numbers.
LEMMA QuotientFacts ==
  ASSUME NEW n \in Nat, NEW d \in Nat \ {0}
  PROVE  n \div d \in Nat /\ (n \div d) * d <= n /\ n < (n \div d) * d + d
  OBVIOUS

LEMMA ProductGrows ==
  ASSUME NEW a \in Nat, NEW b \in Nat, NEW c \in Nat, a <= b
  PROVE  a * c <= b * c /\ c * a <= c * b /\ a * c \in Nat
  OBVIOUS

LEMMA QuotientLeast ==
  ASSUME NEW n \in Nat, NEW d \in Nat \ {0}, NEW c \in Nat, c * d >= n
  PROVE  c >= n \div d
  <1>1. n \div d \in Nat /\ (n \div d) * d <= n
    BY QuotientFacts
  <1>2. SUFFICES ASSUME c + 1 <= n \div d PROVE FALSE
    BY <1>1
  <1>3. (c + 1) * d <= (n \div d) * d
    BY <1>1, <1>2, ProductGrows
  <1>4. (c + 1) * d = c * d + d /\ c * d \in Nat
    OBVIOUS
  <1> QED
    BY <1>1, <1>3, <1>4

\* Numbers that lie a divisor apart have different quotients.
LEMMA QuotientsApart ==
  ASSUME NEW a \in Nat, NEW b \in Nat, NEW d \in Nat \ {0}, b - a >= d
  PROVE  a \div d # b \div d
  <1>1. a \div d \in Nat /\ a < (a \div d) * d + d
    BY QuotientFacts
  <1>2. b \div d \in Nat /\ (b \div d) * d <= b
    BY QuotientFacts
  <1>3. (a \div d) * d \in Nat
    BY <1>1
  <1> SUFFICES ASSUME a \div d = b \div d PROVE FALSE
    OBVIOUS
  <1>4. (a \div d) * d <= b
    BY <1>2
  <1> QED
    BY <1>1, <1>2, <1>3, <1>4

\* One quotient is as large as the other.
LEMMA QuotientGrows ==
  ASSUME NEW a \in Nat, NEW b \in Nat, NEW d \in Nat \ {0}, a <= b
  PROVE  a \div d <= b \div d
  <1>1. b \div d \in Nat /\ b < (b \div d) * d + d
    BY QuotientFacts
  <1>2. a \div d \in Nat /\ (a \div d) * d <= a
    BY QuotientFacts
  <1> DEFINE p == a \div d
             q == b \div d
  <1> HIDE DEF p, q
  <1>3. SUFFICES ASSUME q + 1 <= p PROVE FALSE
    BY <1>1, <1>2 DEF p, q
  <1>4. (q + 1) * d <= p * d /\ q * d \in Nat
    BY <1>1, <1>2, <1>3, ProductGrows DEF p, q
  <1>5. (q + 1) * d = q * d + d
    BY <1>1 DEF q
  <1> QED
    BY <1>1, <1>2, <1>4, <1>5 DEF p, q

\* What is mapped one to one into a set is no larger than the set.
LEMMA OneToOne ==
  ASSUME NEW S, NEW T, IsFiniteSet(T), NEW f \in [S -> T],
         \A x, y \in S : x # y => f[x] # f[y]
  PROVE  IsFiniteSet(S) /\ Cardinality(S) <= Cardinality(T)
  <1>1. f \in Injection(S, T)
    BY DEF Injection, IsInjective
  <1> QED
    BY <1>1, FS_Injection

\* One less of two numbers, multiplied.
LEMMA OneLess ==
  ASSUME NEW c \in Nat, NEW k \in Nat, NEW m \in Nat \ {0}, c <= k + 1
  PROVE  (c - 1) * m <= k * m
  <1>1. k * m \in Nat /\ (0 - 1) * m <= 0
    OBVIOUS
  <1>2. CASE c = 0
    BY <1>1, <1>2
  <1>3. CASE c # 0
    <2>1. c - 1 \in Nat /\ c - 1 <= k
      BY <1>3
    <2> QED
      BY <2>1, ProductGrows
  <1> QED
    BY <1>2, <1>3

\* Times that are m apart within a span: no more of them than the span has room for.
LEMMA SpacedAreFew ==
  ASSUME NEW H \in SUBSET Nat, NEW lo \in Nat, NEW hi \in Nat, NEW m \in Nat \ {0}, lo <= hi,
         \A h \in H : lo <= h /\ h <= hi,
         \A g, h \in H : g < h => h - g >= m
  PROVE  IsFiniteSet(H) /\ Cardinality(H) \in Nat /\ (Cardinality(H) - 1) * m <= hi - lo
  <1>1. PICK k \in Nat : k = (hi - lo) \div m /\ k * m <= hi - lo
    BY hi - lo \in Nat, QuotientFacts
  <1>2. IsFiniteSet(H) /\ Cardinality(H) \in Nat
    BY FS_BoundedSetOfNaturals, FS_CardinalityType
  <1> DEFINE f == [h \in H |-> (h - lo) \div m]
  <1>3. ASSUME NEW h \in H PROVE (h - lo) \div m \in 0 .. k
    <2>1. h - lo \in Nat /\ hi - lo \in Nat /\ h - lo <= hi - lo
      OBVIOUS
    <2>2. (h - lo) \div m \in Nat /\ (h - lo) \div m <= (hi - lo) \div m
      BY <2>1, QuotientFacts, QuotientGrows
    <2> QED
      BY <1>1, <2>2
  <1>4. f \in [H -> 0 .. k]
    BY <1>3
  <1>5. ASSUME NEW g \in H, NEW h \in H, g < h PROVE (g - lo) \div m # (h - lo) \div m
    <2>1. g - lo \in Nat /\ h - lo \in Nat /\ (h - lo) - (g - lo) >= m
      BY <1>5
    <2> QED
      BY <2>1, QuotientsApart
  <1>6. ASSUME NEW g \in H, NEW h \in H, g # h PROVE f[g] # f[h]
    <2>1. g < h \/ h < g
      BY <1>6
    <2>2. (g - lo) \div m # (h - lo) \div m
      BY <1>5, <2>1
    <2> QED
      BY <2>2
  <1>7. IsFiniteSet(0 .. k) /\ Cardinality(0 .. k) = k + 1
    BY FS_Interval
  <1> HIDE DEF f
  <1>8. Cardinality(H) <= k + 1
    <2>1. Cardinality(H) <= Cardinality(0 .. k)
      BY <1>4, <1>6, <1>7, OneToOne
    <2> QED
      BY <1>7, <2>1
  <1>9. (Cardinality(H) - 1) * m <= k * m
    BY <1>2, <1>8, OneLess
  <1>10. (Cardinality(H) - 1) * m \in Int /\ k * m \in Int
    BY <1>2
  <1> QED
    BY <1>1, <1>2, <1>9, <1>10

\* A time in every one of k consecutive windows: at least k times.
LEMMA DenseAreMany ==
  ASSUME NEW H, IsFiniteSet(H), H \subseteq Nat, NEW k \in Nat, NEW M \in Nat \ {0},
         \A i \in 1 .. k : \E h \in H : (i - 1) * M < h /\ h <= i * M
  PROVE  Cardinality(H) \in Nat /\ Cardinality(H) >= k
  <1> DEFINE f == [i \in 1 .. k |-> CHOOSE h \in H : (i - 1) * M < h /\ h <= i * M]
  <1>1. Cardinality(H) \in Nat
    BY FS_CardinalityType
  <1>2. IsFiniteSet(1 .. k) /\ Cardinality(1 .. k) = k
    BY FS_Interval
  <1>3. \A i \in 1 .. k : f[i] \in H /\ (i - 1) * M < f[i] /\ f[i] <= i * M
    OBVIOUS
  <1>4. f \in [1 .. k -> H]
    BY <1>3
  <1> HIDE DEF f
  <1>5. ASSUME NEW i \in 1 .. k, NEW j \in 1 .. k, i < j PROVE f[i] < f[j]
    <2>1. i \in Nat /\ j - 1 \in Nat /\ i <= j - 1
      BY <1>5
    <2>2. i * M <= (j - 1) * M /\ i * M \in Nat /\ (j - 1) * M \in Nat
      BY <2>1, ProductGrows
    <2>3. f[i] \in Nat /\ f[j] \in Nat
      BY <1>3
    <2>4. f[i] <= i * M /\ (j - 1) * M < f[j]
      BY <1>3
    <2> QED
      BY <2>2, <2>3, <2>4
  <1>6. ASSUME NEW i \in 1 .. k, NEW j \in 1 .. k, i # j PROVE f[i] # f[j]
    <2>1. i < j \/ j < i
      BY <1>6
    <2>2. f[i] \in Nat /\ f[j] \in Nat
      BY <1>3
    <2> QED
      BY <1>5, <2>1, <2>2
  <1>7. k <= Cardinality(H)
    BY <1>2, <1>4, <1>6, OneToOne
  <1> QED
    BY <1>1, <1>7

\* A multiple of one number less one grows with the number.
LEMMA DifferenceGrows ==
  ASSUME NEW n \in Nat, NEW c \in Nat, NEW m \in Nat \ {0}, c >= n
  PROVE  (n - 1) * m <= (c - 1) * m
  <1>1. n * m <= c * m /\ n * m \in Nat /\ c * m \in Nat
    BY ProductGrows
  <1>2. (n - 1) * m = n * m - m /\ (c - 1) * m = c * m - m
    OBVIOUS
  <1> QED
    BY <1>1, <1>2

\* What ages by as much as a timer runs down.
LEMMA AgeAndTimer ==
  ASSUME NEW a \in Int, NEW b \in Int, NEW t \in Int, NEW u \in Int, NEW d \in Int,
         b <= a + d, u = t - d
  PROVE  b + u <= a + t
  OBVIOUS

\* An age and a timer just set, of HELLOs that span no more than an expiry.
LEMMA AgeAtCall ==
  ASSUME NEW a \in Int, NEW t \in Int, NEW e \in Int, NEW p \in Int, NEW q \in Int, NEW M \in Int,
         t <= M, p <= q, q <= e - 1 - a
  PROVE  a + t < e - p + M
  OBVIOUS

\* The same, of ages and of the steady time without their caps.
LEMMA TickBy ==
  ASSUME LInv, Tick
  PROVE  \E d \in Nat :
           /\ d <= nextHello /\ d <= nextCall /\ d <= ourHello /\ d <= theirCall
           /\ nextHello' = nextHello - d /\ nextCall' = nextCall - d
           /\ ourHello' = ourHello - d /\ theirCall' = theirCall - d
           /\ hellos' = {h + d : h \in hellos} /\ theirs' = {h + d : h \in theirs}
           /\ age' <= age + d /\ age' \in Nat /\ age' \in {age + d, Limit}
           /\ steady' \in Nat /\ steady' <= steady + d
           /\ (~known \/ theirs = {} => steady' = 0)
  <1>1. PICK d \in Nat :
          /\ d <= nextHello /\ d <= nextCall /\ d <= ourHello /\ d <= theirCall
          /\ nextHello' = nextHello - d /\ nextCall' = nextCall - d
          /\ ourHello' = ourHello - d /\ theirCall' = theirCall - d
          /\ hellos' = {h + d : h \in hellos} /\ theirs' = {h + d : h \in theirs}
          /\ age' = Least(age + d, Limit)
          /\ steady' = IF known /\ theirs # {} THEN Least(steady + d, Limit) ELSE 0
    BY TickTo
  <1>2. age \in Nat /\ steady \in Nat /\ Limit \in Nat
    BY LinkFacts DEF LInv, Numbers
  <1>3. age' <= age + d /\ age' \in Nat /\ age' \in {age + d, Limit}
    BY <1>1, <1>2, LeastFacts
  <1>4. steady' \in Nat /\ steady' <= steady + d /\ (~known \/ theirs = {} => steady' = 0)
    BY <1>1, <1>2, LeastFacts
  <1> QED
    BY <1>1, <1>3, <1>4

\* A silence that will still be within the bound of SilentLinkIsLeft at the next
\* call of ASPUTimer.
LeftSoon(s) == s < NDP_NEIGHBOR_EXPIRE - (Needed - 1) * NDP_MIN_HELLO_INTERVAL + NDP_MAX_HELLO_INTERVAL

\* What the HELLOs of one sender are: an interval apart, the last one included
\* with the next, and none younger than the one heard last.
Apart == \A g, h \in hellos : g < h => h - g >= NDP_MIN_HELLO_INTERVAL

BeforeNext == \A h \in hellos : h + nextHello >= NDP_MIN_HELLO_INTERVAL

LastHeard == \A h \in hellos : age <= h

\* The invariant of a silence: a link in use has been looked at while enough
\* HELLOs counted.
SilentInv == Apart /\ BeforeNext /\ LastHeard /\ (used => LeftSoon(age + nextCall))

\* The shortest interval and the number of HELLOs asked for.
LEMMA NeededFacts ==
  /\ NDP_MIN_HELLO_INTERVAL \in Nat \ {0} /\ NDP_MIN_HELLO_INTERVAL <= NDP_MAX_HELLO_INTERVAL
  /\ \A i \in Intervals : i \in Nat /\ NDP_MIN_HELLO_INTERVAL <= i /\ i <= NDP_MAX_HELLO_INTERVAL
  /\ LQE_MA_EXPECTED_HELLO \in Nat \ {0} /\ LQE_THRESHOLD \in Nat
  /\ \A a \in 0 .. LQE_MA_EXPECTED_HELLO : a \in Nat /\ a <= LQE_MA_EXPECTED_HELLO
  /\ Needed \in Nat /\ (Needed - 1) * NDP_MIN_HELLO_INTERVAL \in Int
  <1>1. LQE_MA_EXPECTED_HELLO \in Nat \ {0} /\ LQE_THRESHOLD \in Nat
    BY LinkAssumption DEF LinkAssumption
  <1>2. Needed \in Nat
    BY <1>1, QuotientFacts DEF Needed
  <1>3. NDP_MIN_HELLO_INTERVAL \in Nat
    BY LinkAssumption DEF LinkAssumption
  <1>4. (Needed - 1) * NDP_MIN_HELLO_INTERVAL \in Int
    BY <1>2, <1>3
  <1> QED
    BY <1>1, <1>2, <1>4, LinkAssumption DEF LinkAssumption

\* A quality of LQE_THRESHOLD takes Needed HELLOs, however many of its own the
\* neighbour announces.
LEMMA QualityTakesHellos ==
  ASSUME NEW c \in Nat, NEW a \in 0 .. LQE_MA_EXPECTED_HELLO,
         Least(c, LQE_MA_EXPECTED_HELLO) * a >= LQE_THRESHOLD
  PROVE  c >= Needed
  <1>1. a \in Nat /\ a <= LQE_MA_EXPECTED_HELLO
    BY NeededFacts
  <1>2. Least(c, LQE_MA_EXPECTED_HELLO) \in Nat /\ Least(c, LQE_MA_EXPECTED_HELLO) <= c
    BY NeededFacts DEF Least
  <1>3. /\ Least(c, LQE_MA_EXPECTED_HELLO) * a <= c * a
        /\ c * a <= c * LQE_MA_EXPECTED_HELLO
    BY <1>1, <1>2, NeededFacts, ProductGrows
  <1>4. c * LQE_MA_EXPECTED_HELLO >= LQE_THRESHOLD
    <2>1. /\ Least(c, LQE_MA_EXPECTED_HELLO) * a \in Nat /\ c * a \in Nat
          /\ c * LQE_MA_EXPECTED_HELLO \in Nat /\ LQE_THRESHOLD \in Nat
      BY <1>1, <1>2, NeededFacts
    <2> QED
      BY <1>3, <2>1
  <1> QED
    BY <1>4, NeededFacts, QuotientLeast DEF Needed

\* The first state: no HELLO, and no link in use.
LEMMA InitSilentInv == Init => SilentInv
  BY DEF Init, SilentInv, Apart, BeforeNext, LastHeard

\* A HELLO: the next one follows after an interval.
LEMMA HelloSilentInv == ASSUME LInv, SilentInv, Hello PROVE SilentInv'
  <1>1. /\ UNCHANGED <<used, nextCall>> /\ nextHello = 0
        /\ nextHello' \in Nat /\ nextHello' >= NDP_MIN_HELLO_INTERVAL
    BY NeededFacts DEF Hello
  <1>2. \A h \in hellos : h \in Nat /\ h >= NDP_MIN_HELLO_INTERVAL
    BY <1>1, LinkFacts DEF LInv, Numbers, SilentInv, BeforeNext
  <1>3. CASE Missed /\ UNCHANGED <<known, hellos, age, forQuality>>
    <2>1. UNCHANGED <<hellos, age>>
      BY <1>3
    <2>2. BeforeNext'
      BY <1>1, <1>2, <2>1, NeededFacts DEF BeforeNext
    <2> QED
      BY <1>1, <2>1, <2>2 DEF SilentInv, Apart, LastHeard, LeftSoon
  <1>4. CASE Heard
    <2>1. age' = 0 /\ hellos' \subseteq hellos \cup {0}
      BY <1>4 DEF Heard, PurgeHello
    <2>2. BeforeNext'
      BY <1>1, <1>2, <2>1, NeededFacts DEF BeforeNext
    <2>3. LastHeard'
      BY <1>2, <2>1 DEF LastHeard
    <2>4. Apart'
      <3> SUFFICES ASSUME NEW g \in hellos', NEW h \in hellos', g < h
                   PROVE  h - g >= NDP_MIN_HELLO_INTERVAL
        BY DEF Apart
      <3>1. CASE g \in hellos /\ h \in hellos
        BY <3>1 DEF SilentInv, Apart
      <3>2. CASE g = 0 /\ h \in hellos
        BY <1>2, <3>2, NeededFacts
      <3>3. CASE h = 0
        BY <1>2, <2>1, <3>3
      <3> QED
        BY <2>1, <3>1, <3>2, <3>3
    <2>5. ASSUME used' PROVE LeftSoon(age' + nextCall')
      <3>1. LeftSoon(age + nextCall)
        BY <1>1, <2>5 DEF SilentInv
      <3>2. age \in Nat /\ nextCall \in Nat
        BY LinkFacts DEF LInv, Numbers
      <3>3. age' + nextCall' <= age + nextCall
        BY <1>1, <2>1, <3>2
      <3> QED
        BY <1>1, <2>1, <3>1, <3>2, <3>3, LinkFacts, NeededFacts DEF LeftSoon
    <2>6. LeftSoon(age + nextCall)' <=> LeftSoon(age' + nextCall')
      BY DEF LeftSoon, Needed
    <2> QED
      BY <2>2, <2>3, <2>4, <2>5, <2>6 DEF SilentInv
  <1> QED
    BY <1>3, <1>4 DEF Hello

\* ASPUTimer finds the link good: Needed HELLOs that have not expired, at least
\* the shortest interval apart, leave little room for a silence.
LEMMA CallSilentInv == ASSUME LInv, SilentInv, Call PROVE SilentInv'
  <1>1. /\ UNCHANGED <<age, forQuality, nextHello>>
        /\ hellos' \subseteq hellos /\ \A h \in hellos' : h < NDP_NEIGHBOR_EXPIRE
    BY DEF Call, PurgeHello
  <1>2. Apart' /\ BeforeNext' /\ LastHeard'
    BY <1>1 DEF SilentInv, Apart, BeforeNext, LastHeard
  <1>3. LInv'
    BY CallLInv
  <1>4. /\ hellos' \in SUBSET Nat /\ age' \in Nat /\ nextCall' \in Nat
        /\ nextCall' <= NDP_MAX_HELLO_INTERVAL
    BY <1>3, LinkFacts DEF LInv, Numbers
  <1>5. ASSUME used' PROVE LeftSoon(age' + nextCall')
    <2>1. known' /\ RevLinkQuality(hellos') * forQuality >= LQE_THRESHOLD
      BY <1>5 DEF Call
    <2>2. age' \in hellos' /\ age' < NDP_NEIGHBOR_EXPIRE
      BY <1>1, <1>3, <2>1 DEF LInv
    <2>3. \A h \in hellos' : age' <= h /\ h <= NDP_NEIGHBOR_EXPIRE - 1
      BY <1>1, <1>2, <1>4, LinkFacts DEF LastHeard
    <2>4. \A g, h \in hellos' : g < h => h - g >= NDP_MIN_HELLO_INTERVAL
      BY <1>2 DEF Apart
    <2>5. NDP_NEIGHBOR_EXPIRE - 1 \in Nat /\ age' <= NDP_NEIGHBOR_EXPIRE - 1
      BY <1>4, <2>2, LinkFacts
    <2>6. /\ Cardinality(hellos') \in Nat
          /\ (Cardinality(hellos') - 1) * NDP_MIN_HELLO_INTERVAL <= NDP_NEIGHBOR_EXPIRE - 1 - age'
      BY <1>4, <2>3, <2>4, <2>5, NeededFacts, SpacedAreFew
    <2>7. Cardinality(hellos') >= Needed
      BY <2>1, <2>6, QualityTakesHellos DEF LInv, Numbers, RevLinkQuality
    <2>8. (Needed - 1) * NDP_MIN_HELLO_INTERVAL <= (Cardinality(hellos') - 1) * NDP_MIN_HELLO_INTERVAL
      BY <2>6, <2>7, NeededFacts, DifferenceGrows
    <2>9. (Cardinality(hellos') - 1) * NDP_MIN_HELLO_INTERVAL \in Int
      BY <2>6, NeededFacts
    <2>10. age' + nextCall' < NDP_NEIGHBOR_EXPIRE - (Needed - 1) * NDP_MIN_HELLO_INTERVAL + NDP_MAX_HELLO_INTERVAL
      <3>1. /\ age' \in Int /\ nextCall' \in Int /\ NDP_NEIGHBOR_EXPIRE \in Int
            /\ NDP_MAX_HELLO_INTERVAL \in Int /\ (Needed - 1) * NDP_MIN_HELLO_INTERVAL \in Int
        BY <1>4, LinkFacts, NeededFacts
      <3> QED
        BY <1>4, <2>6, <2>8, <2>9, <3>1, AgeAtCall
    <2> QED
      BY <2>10 DEF LeftSoon
  <1>6. LeftSoon(age + nextCall)' <=> LeftSoon(age' + nextCall')
    BY DEF LeftSoon, Needed
  <1> QED
    BY <1>2, <1>5, <1>6 DEF SilentInv

\* The clock goes on: the HELLOs age together.
LEMMA TickSilentInv == ASSUME LInv, SilentInv, Tick PROVE SilentInv'
  <1>1. PICK d \in Nat :
          /\ nextHello' = nextHello - d /\ nextCall' = nextCall - d
          /\ hellos' = {h + d : h \in hellos} /\ age' <= age + d /\ age' \in Nat
    BY TickBy
  <1>2. /\ UNCHANGED used
        /\ nextHello \in Nat /\ nextCall \in Nat /\ age \in Nat /\ hellos \subseteq Nat
    BY LinkFacts DEF LInv, Numbers, Tick
  <1>3. Apart'
    <2> SUFFICES ASSUME NEW g \in hellos, NEW h \in hellos, g + d < h + d
                 PROVE  (h + d) - (g + d) >= NDP_MIN_HELLO_INTERVAL
      BY <1>1 DEF Apart
    <2>1. g \in Nat /\ h \in Nat /\ g < h
      BY <1>1, <1>2
    <2>2. h - g >= NDP_MIN_HELLO_INTERVAL
      BY <2>1 DEF SilentInv, Apart
    <2> QED
      BY <2>1, <2>2, NeededFacts
  <1>4. BeforeNext'
    <2>1. ASSUME NEW h \in hellos PROVE (h + d) + nextHello' >= NDP_MIN_HELLO_INTERVAL
      <3>1. h \in Nat /\ h + nextHello >= NDP_MIN_HELLO_INTERVAL
        BY <1>2 DEF SilentInv, BeforeNext
      <3> QED
        BY <1>1, <1>2, <3>1, NeededFacts
    <2> QED
      BY <1>1, <2>1 DEF BeforeNext
  <1>5. LastHeard'
    <2>1. ASSUME NEW h \in hellos PROVE age' <= h + d
      <3>1. h \in Nat /\ age <= h
        BY <1>2 DEF SilentInv, LastHeard
      <3> QED
        BY <1>1, <1>2, <3>1
    <2> QED
      BY <1>1, <2>1 DEF LastHeard
  <1>6. ASSUME used' PROVE LeftSoon(age' + nextCall')
    <2>1. LeftSoon(age + nextCall)
      BY <1>2, <1>6 DEF SilentInv
    <2>2. age' \in Int /\ nextCall' \in Int /\ age \in Int /\ nextCall \in Int
      BY <1>1, <1>2
    <2> DEFINE a == age
               b == age'
               t == nextCall
               u == nextCall'
    <2>3. a \in Int /\ b \in Int /\ t \in Int /\ u \in Int /\ b <= a + d /\ u = t - d
      BY <1>1, <2>2
    <2> DEFINE bound == NDP_NEIGHBOR_EXPIRE - (Needed - 1) * NDP_MIN_HELLO_INTERVAL
                          + NDP_MAX_HELLO_INTERVAL
    <2>4. bound \in Int
      BY LinkFacts, NeededFacts
    <2>5. a + t < bound
      BY <2>1 DEF LeftSoon
    <2>6. b + u < bound
      <3> HIDE DEF a, b, t, u, bound
      <3> QED
        BY <2>3, <2>4, <2>5
    <2> QED
      BY <2>6 DEF LeftSoon
  <1>7. LeftSoon(age + nextCall)' <=> LeftSoon(age' + nextCall')
    BY DEF LeftSoon, Needed
  <1> QED
    BY <1>3, <1>4, <1>5, <1>6, <1>7 DEF SilentInv

\* Every step preserves the invariant of a silence.
LEMMA NextSilentInv == LInv /\ SilentInv /\ [Next]_vars => SilentInv'
  <1> SUFFICES ASSUME LInv, SilentInv, [Next]_vars PROVE SilentInv'
    OBVIOUS
  <1>1. CASE Hello
    BY <1>1, HelloSilentInv
  <1>2. CASE Call
    BY <1>2, CallSilentInv
  <1>3. CASE Tick
    BY <1>3, TickSilentInv
  <1>4. CASE UNCHANGED here
    BY <1>4 DEF here, SilentInv, Apart, BeforeNext, LastHeard, LeftSoon
  <1> QED
    BY <1>1, <1>2, <1>3, <1>4 DEF Next, OurHello, TheirCall, Cut, vars

\* A neighbour that has fallen silent is out of use at the latest when, of the
\* HELLOs that LQE_THRESHOLD asks for, the last sent but Needed - 1 at the
\* shortest interval has expired and ASPUTimer has looked: whatever the timers
\* draw, the neighbour announced and the link lost.
THEOREM SilentLinkIsAlwaysLeft == Spec => []SilentLinkIsLeft
  <1>1. LInv /\ SilentInv => SilentLinkIsLeft
    <2> SUFFICES ASSUME LInv, SilentInv, used PROVE LeftSoon(age)
      BY DEF SilentLinkIsLeft, LeftSoon
    <2>1. LeftSoon(age + nextCall) /\ age \in Nat /\ nextCall \in Nat
      BY LinkFacts DEF LInv, Numbers, SilentInv
    <2> DEFINE bound == NDP_NEIGHBOR_EXPIRE - (Needed - 1) * NDP_MIN_HELLO_INTERVAL
                          + NDP_MAX_HELLO_INTERVAL
    <2>2. bound \in Int
      BY LinkFacts, NeededFacts
    <2>3. age + nextCall < bound
      BY <2>1 DEF LeftSoon
    <2>4. age < bound
      <3> HIDE DEF bound
      <3> QED
        BY <2>1, <2>2, <2>3
    <2> QED
      BY <2>4 DEF LeftSoon
  <1> QED
    BY <1>1, InitLInv, NextLInv, InitSilentInv, NextSilentInv, PTL DEF Spec

\* As many HELLOs count at least, of those that come at the longest interval.
Kept == Least((NDP_NEIGHBOR_EXPIRE - 1) \div NDP_MAX_HELLO_INTERVAL, LQE_MA_EXPECTED_HELLO)

\* What the constants must hold for a link that loses nothing to be used: so many
\* HELLOs counted on both sides are LQE_THRESHOLD.
Enough == NDP_MAX_HELLO_INTERVAL < NDP_NEIGHBOR_EXPIRE /\ Kept * Kept >= LQE_THRESHOLD

\* The constants of the code are such: of an expiry of 10.5 s, eight intervals of
\* 1.25 s count, and eight tenths of eight tenths are more than six tenths.
LEMMA EnoughInTheCode ==
  ASSUME NDP_NEIGHBOR_EXPIRE = 42, NDP_MAX_HELLO_INTERVAL = 5,
         LQE_MA_EXPECTED_HELLO = 10, LQE_THRESHOLD = 60
  PROVE  Enough
  <1>1. (42 - 1) \div 5 = 8
    BY SMT
  <1>2. Least(8, 10) = 8
    BY DEF Least
  <1>3. Kept = 8
    BY <1>1, <1>2 DEF Kept
  <1> QED
    BY <1>3 DEF Enough

\* The HELLO heard last is followed within the longest interval, or the time of
\* hearing every HELLO has just begun; on both sides.
Regular ==
  /\ age + nextHello <= NDP_MAX_HELLO_INTERVAL \/ steady + nextHello <= NDP_MAX_HELLO_INTERVAL
  /\ \/ \E h \in theirs : h + ourHello <= NDP_MAX_HELLO_INTERVAL
     \/ steady + ourHello <= NDP_MAX_HELLO_INTERVAL

\* As far back as HELLOs count and all were heard, no longest interval without one.
Dense(H, s) ==
  \A x \in Nat :
    x + NDP_MAX_HELLO_INTERVAL < s /\ x + NDP_MAX_HELLO_INTERVAL < NDP_NEIGHBOR_EXPIRE
      => \E h \in H : x < h /\ h <= x + NDP_MAX_HELLO_INTERVAL

\* A HELLO heard when the link had been steady for the time a HELLO counts announced
\* as many as count then.
Announced == steady >= NDP_NEIGHBOR_EXPIRE + age => forQuality >= Kept

\* A link that has been steady since long enough before the next call of ASPUTimer
\* was found good by the last one.
FoundGood == steady + nextCall >= NDP_NEIGHBOR_EXPIRE + 2 * NDP_MAX_HELLO_INTERVAL => used

\* The invariant of a steady link.
SteadyInv ==
  /\ Regular /\ Dense(hellos, steady) /\ Dense(theirs, steady) /\ Announced /\ FoundGood
  /\ (known /\ theirs # {}) \/ steady <= NDP_MAX_HELLO_INTERVAL

\* The numbers that the steps compare.
LEMMA SteadyFacts ==
  ASSUME LInv
  PROVE  /\ age \in Nat /\ steady \in Nat /\ nextHello \in Nat /\ nextCall \in Nat
         /\ nextHello <= NDP_MAX_HELLO_INTERVAL /\ nextCall <= NDP_MAX_HELLO_INTERVAL
         /\ ourHello \in Nat /\ ourHello <= NDP_MAX_HELLO_INTERVAL
         /\ hellos \subseteq Nat /\ theirs \subseteq Nat /\ NDP_MAX_HELLO_INTERVAL \in Nat \ {0}
         /\ NDP_NEIGHBOR_EXPIRE \in Nat \ {0} /\ forQuality \in Nat
  BY LinkFacts, NeededFacts DEF LInv, Numbers

\* Neither the longest interval nor the expiry is nothing.
LEMMA Positive == NDP_MAX_HELLO_INTERVAL \in Nat \ {0} /\ NDP_NEIGHBOR_EXPIRE \in Nat \ {0}
  BY LinkFacts, NeededFacts

\* How many HELLOs count is a number.
LEMMA KeptFacts == Kept \in Nat
  <1>1. NDP_NEIGHBOR_EXPIRE - 1 \in Nat /\ NDP_MAX_HELLO_INTERVAL \in Nat \ {0}
    BY Positive
  <1>2. (NDP_NEIGHBOR_EXPIRE - 1) \div NDP_MAX_HELLO_INTERVAL \in Nat
    BY <1>1, QuotientFacts
  <1> QED
    BY <1>2, NeededFacts DEF Kept, Least

\* A short time of hearing every HELLO promises nothing yet.
LEMMA ShortIsDense ==
  ASSUME NEW H, NEW s \in Nat, s <= NDP_MAX_HELLO_INTERVAL
  PROVE  Dense(H, s)
  BY LinkFacts DEF Dense

\* What loses expired HELLOs only stays as dense.
LEMMA DenseIsKept ==
  ASSUME NEW H \in SUBSET Nat, NEW J, NEW s \in Nat, Dense(H, s),
         \A h \in H : h < NDP_NEIGHBOR_EXPIRE => h \in J
  PROVE  Dense(J, s)
  <1> SUFFICES ASSUME NEW x \in Nat, x + NDP_MAX_HELLO_INTERVAL < s,
                      x + NDP_MAX_HELLO_INTERVAL < NDP_NEIGHBOR_EXPIRE
               PROVE  \E h \in J : x < h /\ h <= x + NDP_MAX_HELLO_INTERVAL
    BY DEF Dense
  <1>1. PICK h \in H : x < h /\ h <= x + NDP_MAX_HELLO_INTERVAL
    BY DEF Dense
  <1>2. h < NDP_NEIGHBOR_EXPIRE
    BY <1>1, LinkFacts
  <1> QED
    BY <1>1, <1>2

\* HELLOs stay dense while the clock goes on, at most to the next one: the stretch
\* that the HELLO heard last leaves behind it is no longer than the longest interval.
LEMMA DenseAges ==
  ASSUME NEW H \in SUBSET Nat, NEW s \in Nat, NEW t \in Nat, NEW d \in Nat, Dense(H, s),
         t <= s + d,
         t <= NDP_MAX_HELLO_INTERVAL \/ \E h \in H : h + d <= NDP_MAX_HELLO_INTERVAL
  PROVE  Dense({h + d : h \in H}, t)
  <1> SUFFICES ASSUME NEW x \in Nat, x + NDP_MAX_HELLO_INTERVAL < t,
                      x + NDP_MAX_HELLO_INTERVAL < NDP_NEIGHBOR_EXPIRE
               PROVE  \E g \in H : x < g + d /\ g + d <= x + NDP_MAX_HELLO_INTERVAL
    BY DEF Dense
  <1>1. CASE x >= d
    <2>1. /\ x - d \in Nat /\ (x - d) + NDP_MAX_HELLO_INTERVAL < s
          /\ (x - d) + NDP_MAX_HELLO_INTERVAL < NDP_NEIGHBOR_EXPIRE
      BY <1>1, Positive
    <2>2. PICK h \in H : x - d < h /\ h <= (x - d) + NDP_MAX_HELLO_INTERVAL
      BY <2>1 DEF Dense
    <2> QED
      BY <2>2, Positive
  <1>2. CASE x < d
    <2>1. PICK h \in H : h + d <= NDP_MAX_HELLO_INTERVAL
      BY Positive
    <2> QED
      BY <1>2, <2>1, Positive
  <1> QED
    BY <1>1, <1>2

\* What a node counts once every HELLO that counts has been heard.
LEMMA DenseCounts ==
  ASSUME NEW H, H \subseteq 0 .. Limit, NEW s \in Nat, Dense(H, s), s >= NDP_NEIGHBOR_EXPIRE
  PROVE  RevLinkQuality(H) \in Nat /\ RevLinkQuality(H) >= Kept
  <1> DEFINE k == (NDP_NEIGHBOR_EXPIRE - 1) \div NDP_MAX_HELLO_INTERVAL
  <1>1. k \in Nat /\ k * NDP_MAX_HELLO_INTERVAL <= NDP_NEIGHBOR_EXPIRE - 1
    <2>1. NDP_NEIGHBOR_EXPIRE - 1 \in Nat /\ NDP_MAX_HELLO_INTERVAL \in Nat \ {0}
      BY Positive
    <2> QED
      BY <2>1, QuotientFacts
  <1>2. Kept = Least(k, LQE_MA_EXPECTED_HELLO)
    BY DEF Kept
  <1>3. H \subseteq Nat /\ IsFiniteSet(H)
    <2>1. IsFiniteSet(H)
      BY CountFacts
    <2>2. \A h \in 0 .. Limit : h \in Nat
      BY LinkFacts
    <2> QED
      BY <2>1, <2>2
  <1> HIDE DEF k
  <1>4. ASSUME NEW i \in 1 .. k
        PROVE  \E h \in H : (i - 1) * NDP_MAX_HELLO_INTERVAL < h /\ h <= i * NDP_MAX_HELLO_INTERVAL
    <2>1. i \in Nat /\ i - 1 \in Nat /\ i <= k
      BY <1>1
    <2>2. /\ (i - 1) * NDP_MAX_HELLO_INTERVAL \in Nat
          /\ (i - 1) * NDP_MAX_HELLO_INTERVAL + NDP_MAX_HELLO_INTERVAL = i * NDP_MAX_HELLO_INTERVAL
      BY <2>1, Positive
    <2>3. i * NDP_MAX_HELLO_INTERVAL <= k * NDP_MAX_HELLO_INTERVAL
      BY <1>1, <2>1, Positive, ProductGrows
    <2>4. i * NDP_MAX_HELLO_INTERVAL < NDP_NEIGHBOR_EXPIRE /\ i * NDP_MAX_HELLO_INTERVAL < s
      <3>1. i * NDP_MAX_HELLO_INTERVAL \in Int /\ k * NDP_MAX_HELLO_INTERVAL \in Int
        BY <1>1, <2>1, Positive
      <3> QED
        BY <1>1, <2>3, <3>1, Positive
    <2> QED
      BY <2>2, <2>4 DEF Dense
  <1>5. Cardinality(H) \in Nat /\ k <= Cardinality(H)
    BY <1>1, <1>3, <1>4, Positive, DenseAreMany
  <1> QED
    BY <1>1, <1>2, <1>5, NeededFacts DEF RevLinkQuality, Least

\* Dense primed speaks of the primed variables.
LEMMA DenseNext ==
  /\ Dense(hellos, steady)' <=> Dense(hellos', steady')
  /\ Dense(theirs, steady)' <=> Dense(theirs', steady')
  BY DEF Dense

\* A steady time that has only begun says nothing.
LEMMA ShortIsSteady ==
  ASSUME LInv', steady' + nextHello' <= NDP_MAX_HELLO_INTERVAL,
         steady' + ourHello' <= NDP_MAX_HELLO_INTERVAL, steady' = 0
  PROVE  SteadyInv'
  <1>1. /\ steady' \in Nat /\ nextCall' \in Nat /\ nextCall' <= NDP_MAX_HELLO_INTERVAL /\ age' \in Nat
        /\ nextHello' \in Nat /\ ourHello' \in Nat
    BY LinkFacts DEF LInv, Numbers
  <1>2. steady' <= NDP_MAX_HELLO_INTERVAL /\ Regular'
    <2>1. Regular'
      BY DEF Regular
    <2>2. 0 <= NDP_MAX_HELLO_INTERVAL
      BY Positive
    <2> QED
      BY <2>1, <2>2
  <1>3. Dense(hellos', steady') /\ Dense(theirs', steady')
    BY <1>1, <1>2, ShortIsDense
  <1>4. Announced' /\ FoundGood'
    <2> DEFINE a == age'
               c == nextCall'
    <2>1. ~(0 >= NDP_NEIGHBOR_EXPIRE + a)
      <3>1. a \in Nat
        BY <1>1
      <3> HIDE DEF a
      <3> QED
        BY <3>1, Positive
    <2>2. ~(0 + c >= NDP_NEIGHBOR_EXPIRE + 2 * NDP_MAX_HELLO_INTERVAL)
      <3>1. c \in Nat /\ c <= NDP_MAX_HELLO_INTERVAL
        BY <1>1
      <3> HIDE DEF c
      <3> QED
        BY <3>1, Positive
    <2> QED
      BY <2>1, <2>2 DEF Announced, FoundGood
  <1> QED
    BY <1>2, <1>3, <1>4, DenseNext DEF SteadyInv

\* The first state: no time has passed.
LEMMA InitSteadyInv == Init => SteadyInv
  <1> SUFFICES ASSUME Init PROVE SteadyInv
    OBVIOUS
  <1>1. LInv
    BY InitLInv
  <1>2. steady = 0
    BY DEF Init
  <1>3. /\ steady <= NDP_MAX_HELLO_INTERVAL /\ steady + nextHello <= NDP_MAX_HELLO_INTERVAL
        /\ steady + ourHello <= NDP_MAX_HELLO_INTERVAL
    BY <1>1, <1>2, SteadyFacts
  <1>4. Dense(hellos, steady) /\ Dense(theirs, steady)
    BY <1>1, <1>3, SteadyFacts, ShortIsDense
  <1>5. FoundGood /\ Announced
    BY <1>1, <1>2, SteadyFacts DEF FoundGood, Announced
  <1> QED
    BY <1>3, <1>4, <1>5 DEF SteadyInv, Regular

\* A HELLO of the neighbour: a missed one ends the steady time, one that is heard
\* takes none away that counts, and announces what the neighbour counts.
LEMMA HelloSteadyInv == ASSUME LInv, SteadyInv, Hello PROVE SteadyInv'
  <1>1. /\ UNCHANGED <<used, nextCall, theirs, ourHello>>
        /\ nextHello' \in Nat /\ nextHello' <= NDP_MAX_HELLO_INTERVAL
    BY NeededFacts DEF Hello, there
  <1>2. LInv'
    BY HelloLInv
  <1>3. CASE Missed
    <2>1. steady' = 0
      BY <1>3 DEF Missed
    <2>2. steady' + nextHello' <= NDP_MAX_HELLO_INTERVAL /\ steady' + ourHello' <= NDP_MAX_HELLO_INTERVAL
      BY <1>1, <2>1, SteadyFacts
    <2> QED
      BY <1>2, <2>1, <2>2, ShortIsSteady
  <1>4. CASE Heard
    <2>1. /\ age' = 0 /\ known' = TRUE /\ forQuality' = RevLinkQuality(theirs)
          /\ UNCHANGED steady
      BY <1>4 DEF Heard
    <2>2. Regular'
      BY <1>1, <2>1 DEF SteadyInv, Regular
    <2>3. FoundGood'
      BY <1>1, <2>1 DEF SteadyInv, FoundGood
    <2>4. Dense(hellos', steady')
      <3>1. CASE known
        <4>1. \A h \in hellos : h < NDP_NEIGHBOR_EXPIRE => h \in hellos'
          BY <1>4, <3>1 DEF Heard, PurgeHello
        <4> QED
          BY <2>1, <4>1, SteadyFacts, DenseIsKept DEF SteadyInv
      <3>2. CASE ~known
        <4>1. steady' <= NDP_MAX_HELLO_INTERVAL
          BY <2>1, <3>2 DEF SteadyInv
        <4> QED
          BY <2>1, <4>1, SteadyFacts, ShortIsDense
      <3> QED
        BY <3>1, <3>2
    <2>5. Announced'
      <3> SUFFICES ASSUME steady' >= NDP_NEIGHBOR_EXPIRE + age' PROVE forQuality' >= Kept
        BY DEF Announced, Kept
      <3>1. steady >= NDP_NEIGHBOR_EXPIRE
        BY <2>1, SteadyFacts
      <3>2. theirs \subseteq 0 .. Limit /\ Dense(theirs, steady)
        BY DEF LInv, Numbers, SteadyInv
      <3> QED
        BY <2>1, <3>1, <3>2, SteadyFacts, DenseCounts
    <2>6. Dense(theirs', steady')
      BY <1>1, <2>1 DEF SteadyInv
    <2>7. (known' /\ theirs' # {}) \/ steady' <= NDP_MAX_HELLO_INTERVAL
      BY <1>1, <2>1 DEF SteadyInv
    <2> QED
      BY <2>2, <2>3, <2>4, <2>5, <2>6, <2>7, DenseNext DEF SteadyInv
  <1> QED
    BY <1>3, <1>4 DEF Hello

\* A HELLO of the node, the same way.
LEMMA OurHelloSteadyInv == ASSUME LInv, SteadyInv, OurHello PROVE SteadyInv'
  <1>1. /\ UNCHANGED <<known, hellos, age, forQuality, used, nextHello, nextCall>>
        /\ ourHello' \in Nat /\ ourHello' <= NDP_MAX_HELLO_INTERVAL
    BY NeededFacts DEF OurHello, here
  <1>2. LInv'
    BY OurHelloLInv
  <1>3. CASE Missed
    <2>1. steady' = 0
      BY <1>3 DEF Missed
    <2>2. steady' + nextHello' <= NDP_MAX_HELLO_INTERVAL /\ steady' + ourHello' <= NDP_MAX_HELLO_INTERVAL
      BY <1>1, <2>1, SteadyFacts
    <2> QED
      BY <1>2, <2>1, <2>2, ShortIsSteady
  <1>4. CASE up /\ theirs' = PurgeHello(theirs) \cup {0} /\ UNCHANGED <<losses, steady>>
    <2>1. 0 \in theirs' /\ UNCHANGED steady
      BY <1>4
    <2>2. Regular'
      <3>1. 0 + ourHello' <= NDP_MAX_HELLO_INTERVAL
        BY <1>1
      <3> QED
        BY <1>1, <2>1, <3>1 DEF SteadyInv, Regular
    <2>3. \A h \in theirs : h < NDP_NEIGHBOR_EXPIRE => h \in theirs'
      BY <1>4 DEF PurgeHello
    <2>4. Dense(theirs', steady')
      BY <2>1, <2>3, SteadyFacts, DenseIsKept DEF SteadyInv
    <2>5. Dense(hellos', steady')
      BY <1>1, <2>1 DEF SteadyInv
    <2>6. Announced' /\ FoundGood'
      BY <1>1, <2>1 DEF SteadyInv, Announced, FoundGood, Kept
    <2>7. (known' /\ theirs' # {}) \/ steady' <= NDP_MAX_HELLO_INTERVAL
      BY <1>1, <2>1 DEF SteadyInv
    <2> QED
      BY <2>2, <2>4, <2>5, <2>6, <2>7, DenseNext DEF SteadyInv
  <1> QED
    BY <1>3, <1>4 DEF OurHello

\* ASPUTimer: it keeps a neighbour that is heard regularly, and the HELLOs that
\* make its link good.
LEMMA CallSteadyInv == ASSUME Enough, LInv, SteadyInv, Call PROVE SteadyInv'
  <1>1. /\ UNCHANGED <<age, forQuality, nextHello, theirs, ourHello, steady>>
        /\ nextCall' \in Nat /\ nextCall' <= NDP_MAX_HELLO_INTERVAL
    BY NeededFacts DEF Call, there
  <1>2. LInv'
    BY CallLInv
  <1>3. Regular'
    BY <1>1 DEF SteadyInv, Regular
  <1>4. NDP_MAX_HELLO_INTERVAL < NDP_NEIGHBOR_EXPIRE
    BY DEF Enough
  <1>5. known' \in BOOLEAN /\ (known' => known)
    BY <1>2 DEF Call, LInv, Booleans
  <1>6. (known' /\ theirs' # {}) \/ steady' <= NDP_MAX_HELLO_INTERVAL
    <2> SUFFICES ASSUME ~known' PROVE steady <= NDP_MAX_HELLO_INTERVAL
      BY <1>1 DEF SteadyInv
    <2>1. ~known \/ Expired
      BY DEF Call
    <2>2. CASE Expired
      <3>1. ~(age + nextHello <= NDP_MAX_HELLO_INTERVAL)
        BY <1>4, <2>2, SteadyFacts DEF Expired
      <3>2. steady + nextHello <= NDP_MAX_HELLO_INTERVAL
        BY <3>1 DEF SteadyInv, Regular
      <3> QED
        BY <3>2, SteadyFacts
    <2> QED
      BY <2>1, <2>2 DEF SteadyInv
  <1>7. Dense(hellos', steady')
    <2>1. CASE known'
      <3>1. \A h \in hellos : h < NDP_NEIGHBOR_EXPIRE => h \in hellos'
        BY <2>1 DEF Call, PurgeHello
      <3> QED
        BY <1>1, <3>1, SteadyFacts, DenseIsKept DEF SteadyInv
    <2>2. CASE ~known'
      BY <1>1, <1>6, <2>2, SteadyFacts, ShortIsDense
    <2> QED
      BY <1>5, <2>1, <2>2
  <1>8. Announced' /\ Dense(theirs', steady')
    BY <1>1 DEF SteadyInv, Announced, Kept
  <1>9. FoundGood'
    <2> SUFFICES ASSUME steady' + nextCall' >= NDP_NEIGHBOR_EXPIRE + 2 * NDP_MAX_HELLO_INTERVAL
                 PROVE  used'
      BY DEF FoundGood
    <2>1. steady >= NDP_NEIGHBOR_EXPIRE + NDP_MAX_HELLO_INTERVAL /\ steady' = steady
      <3> DEFINE s == steady
                 t == steady'
                 c == nextCall'
                 m == NDP_MAX_HELLO_INTERVAL
                 e == NDP_NEIGHBOR_EXPIRE
      <3>1. s \in Nat /\ t = s /\ c \in Nat /\ c <= m /\ m \in Nat /\ e \in Nat /\ t + c >= e + 2 * m
        BY <1>1, SteadyFacts
      <3>2. s >= e + m
        <4> HIDE DEF s, t, c, m, e
        <4> QED
          BY <3>1
      <3> QED
        BY <1>1, <3>2
    <2>2. known'
      BY <1>1, <1>4, <1>6, <2>1, SteadyFacts
    <2>3. age <= NDP_MAX_HELLO_INTERVAL
      BY <2>1, SteadyFacts DEF SteadyInv, Regular
    <2>4. forQuality >= Kept
      BY <2>1, <2>3, SteadyFacts DEF SteadyInv, Announced
    <2>5. hellos' \subseteq 0 .. Limit /\ steady' \in Nat /\ steady' >= NDP_NEIGHBOR_EXPIRE
      BY <1>2, <2>1, SteadyFacts DEF LInv, Numbers
    <2>6. RevLinkQuality(hellos') \in Nat /\ RevLinkQuality(hellos') >= Kept
      BY <1>7, <2>5, DenseCounts
    <2>7. RevLinkQuality(hellos') * forQuality >= LQE_THRESHOLD
      <3> DEFINE q == RevLinkQuality(hellos')
      <3>1. q \in Nat /\ q >= Kept /\ forQuality \in Nat /\ Kept \in Nat
        BY <2>6, SteadyFacts, KeptFacts
      <3> HIDE DEF q
      <3>2. Kept * Kept <= q * Kept /\ q * Kept <= q * forQuality
        BY <2>4, <3>1, ProductGrows
      <3>3. Kept * Kept \in Nat /\ q * Kept \in Nat /\ q * forQuality \in Nat /\ LQE_THRESHOLD \in Nat
        BY <3>1, NeededFacts
      <3>4. q * forQuality >= LQE_THRESHOLD
        BY <3>2, <3>3 DEF Enough
      <3> QED
        BY <3>4 DEF q
    <2>8. used' = (known' /\ RevLinkQuality(hellos') * forQuality >= LQE_THRESHOLD)
      BY DEF Call
    <2> QED
      BY <2>2, <2>7, <2>8
  <1> QED
    BY <1>3, <1>6, <1>7, <1>8, <1>9, DenseNext DEF SteadyInv

\* The neighbour's ASPUTimer: the HELLO it heard last still counts.
LEMMA TheirCallSteadyInv == ASSUME Enough, LInv, SteadyInv, TheirCall PROVE SteadyInv'
  <1>1. /\ UNCHANGED <<known, hellos, age, forQuality, used, nextHello, nextCall, ourHello, steady>>
        /\ theirs' = PurgeHello(theirs)
    BY DEF TheirCall, here
  <1>2. \A h \in theirs : h < NDP_NEIGHBOR_EXPIRE => h \in theirs'
    BY <1>1 DEF PurgeHello
  <1>3. ASSUME NEW h \in theirs, h + ourHello <= NDP_MAX_HELLO_INTERVAL PROVE h \in theirs'
    <2>1. h \in Nat /\ h < NDP_NEIGHBOR_EXPIRE
      BY <1>3, SteadyFacts DEF Enough
    <2> QED
      BY <1>2, <2>1
  <1>4. Regular'
    BY <1>1, <1>3 DEF SteadyInv, Regular
  <1>5. (known' /\ theirs' # {}) \/ steady' <= NDP_MAX_HELLO_INTERVAL
    <2>1. CASE \E h \in theirs : h + ourHello <= NDP_MAX_HELLO_INTERVAL
      BY <1>1, <1>3, <2>1 DEF SteadyInv
    <2>2. CASE steady + ourHello <= NDP_MAX_HELLO_INTERVAL
      BY <1>1, <2>2, SteadyFacts
    <2> QED
      BY <2>1, <2>2 DEF SteadyInv, Regular
  <1>6. Dense(theirs', steady')
    BY <1>1, <1>2, SteadyFacts, DenseIsKept DEF SteadyInv
  <1>7. Dense(hellos', steady') /\ Announced' /\ FoundGood'
    BY <1>1 DEF SteadyInv, Announced, FoundGood, Kept
  <1> QED
    BY <1>4, <1>5, <1>6, <1>7, DenseNext DEF SteadyInv

\* The clock goes on, at most to the next HELLO of either.
LEMMA TickSteadyInv == ASSUME LInv, SteadyInv, Tick PROVE SteadyInv'
  <1>1. PICK d \in Nat :
          /\ d <= nextHello /\ d <= ourHello
          /\ nextHello' = nextHello - d /\ nextCall' = nextCall - d /\ ourHello' = ourHello - d
          /\ hellos' = {h + d : h \in hellos} /\ theirs' = {h + d : h \in theirs}
          /\ age' <= age + d /\ age' \in Nat /\ age' \in {age + d, Limit}
          /\ steady' \in Nat /\ steady' <= steady + d
          /\ (~known \/ theirs = {} => steady' = 0)
    BY TickBy
  <1>2. UNCHANGED <<known, forQuality, used>>
    BY DEF Tick
  <1>3. nextHello' \in Int /\ nextCall' \in Int /\ ourHello' \in Int
    BY <1>1, SteadyFacts
  <1>4. /\ age' + nextHello' <= age + nextHello /\ steady' + nextHello' <= steady + nextHello
        /\ steady' + ourHello' <= steady + ourHello /\ steady' + nextCall' <= steady + nextCall
    BY <1>1, <1>3, SteadyFacts, AgeAndTimer
  <1>5. /\ age' + nextHello' \in Int /\ steady' + nextHello' \in Int /\ steady' + ourHello' \in Int
        /\ steady' + nextCall' \in Int
    BY <1>1, <1>3
  <1>6. Regular'
    <2>1. age' + nextHello' <= NDP_MAX_HELLO_INTERVAL \/ steady' + nextHello' <= NDP_MAX_HELLO_INTERVAL
      BY <1>4, <1>5, SteadyFacts DEF SteadyInv, Regular
    <2>2. \/ \E h \in theirs' : h + ourHello' <= NDP_MAX_HELLO_INTERVAL
          \/ steady' + ourHello' <= NDP_MAX_HELLO_INTERVAL
      <3>1. CASE \E h \in theirs : h + ourHello <= NDP_MAX_HELLO_INTERVAL
        <4>1. PICK h \in theirs : h + ourHello <= NDP_MAX_HELLO_INTERVAL
          BY <3>1
        <4>2. h + d \in theirs' /\ h \in Nat
          BY <1>1, SteadyFacts
        <4>3. (h + d) + ourHello' = h + ourHello
          BY <1>1, <4>2, SteadyFacts
        <4> QED
          BY <4>1, <4>2, <4>3
      <3>2. CASE steady + ourHello <= NDP_MAX_HELLO_INTERVAL
        BY <1>4, <1>5, <3>2, SteadyFacts
      <3> QED
        BY <3>1, <3>2 DEF SteadyInv, Regular
    <2> QED
      BY <2>1, <2>2 DEF Regular
  <1>7. FoundGood'
    BY <1>2, <1>4, <1>5, SteadyFacts DEF SteadyInv, FoundGood
  <1>8. Announced'
    <2> SUFFICES ASSUME steady' >= NDP_NEIGHBOR_EXPIRE + age' PROVE forQuality' >= Kept
      BY DEF Announced, Kept
    <2>1. LInv'
      BY TickLInv
    <2>2. steady' <= Limit /\ Limit \in Nat
      BY <2>1, LinkFacts DEF LInv, Numbers
    <2>3. age' = age + d
      BY <1>1, <2>2, SteadyFacts
    <2>4. steady >= NDP_NEIGHBOR_EXPIRE + age
      <3> DEFINE s == steady
                 t == steady'
                 a == age
                 b == age'
      <3>1. s \in Nat /\ t \in Nat /\ a \in Nat /\ b = a + d /\ t <= s + d
            /\ t >= NDP_NEIGHBOR_EXPIRE + b
        BY <1>1, <2>3, SteadyFacts
      <3>2. s >= NDP_NEIGHBOR_EXPIRE + a
        <4> HIDE DEF s, t, a, b
        <4> QED
          BY <3>1, Positive
      <3> QED
        BY <3>2
    <2> QED
      BY <1>2, <2>4 DEF SteadyInv, Announced
  <1>9. (known' /\ theirs' # {}) \/ steady' <= NDP_MAX_HELLO_INTERVAL
    <2>1. CASE known /\ theirs # {}
      BY <1>1, <1>2, <2>1
    <2>2. CASE ~known \/ theirs = {}
      BY <1>1, <2>2, SteadyFacts
    <2> QED
      BY <2>1, <2>2
  <1>10. Dense(hellos', steady')
    <2>1. steady' <= NDP_MAX_HELLO_INTERVAL \/ \E h \in hellos : h + d <= NDP_MAX_HELLO_INTERVAL
      <3>1. CASE age + nextHello <= NDP_MAX_HELLO_INTERVAL
        <4>1. age + d <= NDP_MAX_HELLO_INTERVAL
          BY <1>1, <3>1, SteadyFacts
        <4>2. CASE known
          BY <4>1, <4>2 DEF LInv
        <4>3. CASE ~known
          BY <1>1, <4>3, SteadyFacts
        <4> QED
          BY <4>2, <4>3
      <3>2. CASE steady + nextHello <= NDP_MAX_HELLO_INTERVAL
        BY <1>1, <3>2, SteadyFacts
      <3> QED
        BY <3>1, <3>2 DEF SteadyInv, Regular
    <2>2. Dense(hellos, steady) /\ hellos \in SUBSET Nat /\ steady \in Nat
      BY SteadyFacts DEF SteadyInv
    <2>3. Dense({h + d : h \in hellos}, steady')
      BY <1>1, <2>1, <2>2, DenseAges
    <2> QED
      BY <1>1, <2>3
  <1>11. Dense(theirs', steady')
    <2>1. steady' <= NDP_MAX_HELLO_INTERVAL \/ \E h \in theirs : h + d <= NDP_MAX_HELLO_INTERVAL
      <3>1. ASSUME NEW h \in theirs, h + ourHello <= NDP_MAX_HELLO_INTERVAL
            PROVE  h + d <= NDP_MAX_HELLO_INTERVAL
        BY <1>1, <3>1, SteadyFacts
      <3>2. CASE steady + ourHello <= NDP_MAX_HELLO_INTERVAL
        BY <1>1, <3>2, SteadyFacts
      <3> QED
        BY <3>1, <3>2 DEF SteadyInv, Regular
    <2>2. Dense(theirs, steady) /\ theirs \in SUBSET Nat /\ steady \in Nat
      BY SteadyFacts DEF SteadyInv
    <2>3. Dense({h + d : h \in theirs}, steady')
      BY <1>1, <2>1, <2>2, DenseAges
    <2> QED
      BY <1>1, <2>3
  <1> QED
    BY <1>6, <1>7, <1>8, <1>9, <1>10, <1>11, DenseNext DEF SteadyInv

\* Every step preserves the invariant of a steady link.
LEMMA NextSteadyInv == ASSUME Enough PROVE LInv /\ SteadyInv /\ [Next]_vars => SteadyInv'
  <1> SUFFICES ASSUME LInv, SteadyInv, [Next]_vars PROVE SteadyInv'
    OBVIOUS
  <1>1. CASE Hello
    BY <1>1, HelloSteadyInv
  <1>2. CASE OurHello
    BY <1>2, OurHelloSteadyInv
  <1>3. CASE Call
    BY <1>3, CallSteadyInv
  <1>4. CASE TheirCall
    BY <1>4, TheirCallSteadyInv
  <1>5. CASE Tick
    BY <1>5, TickSteadyInv
  <1>6. CASE UNCHANGED <<here, there, steady>>
    BY <1>6 DEF here, there, SteadyInv, Regular, Dense, Announced, FoundGood, Kept
  <1> QED
    BY <1>1, <1>2, <1>3, <1>4, <1>5, <1>6 DEF Next, Cut, vars

\* A link that loses nothing in either direction is in use once the two nodes have
\* known each other for the time a HELLO counts and two intervals, however the four
\* timers draw, the counts announced from the first HELLO on included: if that time
\* holds enough of the longest intervals for LQE_THRESHOLD, as it does in the code.
THEOREM SteadyLinkIsAlwaysUsed == ASSUME Enough PROVE Spec => []SteadyLinkIsUsed
  <1>1. LInv /\ SteadyInv => SteadyLinkIsUsed
    <2> SUFFICES ASSUME LInv, SteadyInv, steady >= NDP_NEIGHBOR_EXPIRE + 2 * NDP_MAX_HELLO_INTERVAL
                 PROVE  used
      BY DEF SteadyLinkIsUsed
    <2>1. steady + nextCall >= NDP_NEIGHBOR_EXPIRE + 2 * NDP_MAX_HELLO_INTERVAL
      BY SteadyFacts
    <2> QED
      BY <2>1 DEF SteadyInv, FoundGood
  <1>2. LInv /\ SteadyInv /\ [Next]_vars => SteadyInv'
    BY NextSteadyInv
  <1> QED
    BY <1>1, <1>2, InitLInv, NextLInv, InitSteadyInv, PTL DEF Spec
=============================================================================
