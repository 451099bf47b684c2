----------------------------- MODULE DedupProofs -----------------------------
(***************************************************************************)
(* What a process accepted is known while the filter it was accepted in is *)
(* retained, for any identifiers, calendar and number of sessions          *)
(* retained, and whatever rotation comes between the acceptance and the    *)
(* write of the bits.                                                      *)
(***************************************************************************)
EXTENDS DedupWindow, InductionFacts, SequenceTheorems

\* The retained filters are the last ones before the live one, without a gap.
Chain ==
    /\ live \in Nat /\ retained \in Seq(Nat)
    /\ Len(retained) = IF live < SessionsRetained THEN live ELSE SessionsRetained
    /\ \A i \in 1..Len(retained) : retained[i] = live - i

\* The writer thread is about to write into the filter in which it accepted.
HandOver ==
    remembering # None =>
        /\ remembering \in [id : Ids, filter : Nat]
        /\ acceptedIn[remembering.id] = remembering.filter

\* Once it has written, the identifier is in that filter.
Written ==
    \A id \in Ids : acceptedIn[id] # None =>
        /\ acceptedIn[id] \in 0..live
        /\ InHand(id) \/ <<acceptedIn[id], id>> \in content

WindowInv == Chain /\ HandOver /\ Written /\ acceptedIn \in [Ids -> Nat \cup {None}]

----------------------------------------------------------------------------
\* A rotation retires the live filter and keeps the chain (rotate).
LEMMA RotateKeepsChain == ASSUME Chain, Rotate PROVE Chain'
<1> USE DedupWindowAssumption DEF Chain
<1> DEFINE all == <<live>> \o retained
           kept == IF Len(retained) < SessionsRetained THEN Len(retained) + 1 ELSE SessionsRetained
<1>1. /\ live' = live + 1 /\ retained' = SubSeq(all, 1, kept)
  BY DEF Rotate, Retired
<1>2. <<live>> \in Seq(Nat) /\ Len(<<live>>) = 1 /\ <<live>>[1] = live
  OBVIOUS
<1>3. /\ all \in Seq(Nat) /\ Len(all) = Len(retained) + 1
      /\ \A i \in 1..Len(retained) + 1 : all[i] = IF i <= 1 THEN <<live>>[i] ELSE retained[i - 1]
  <2>1. /\ Len(all) = Len(<<live>>) + Len(retained) /\ all \in Seq(Nat)
        /\ \A i \in 1..Len(<<live>>) + Len(retained) :
              all[i] = IF i <= Len(<<live>>) THEN <<live>>[i] ELSE retained[i - Len(<<live>>)]
    BY <1>2, ConcatProperties
  <2>2. Len(retained) \in Nat /\ Len(<<live>>) + Len(retained) = Len(retained) + 1
    BY <1>2
  <2> HIDE DEF all
  <2> QED BY <2>1, <2>2, <1>2
<1> HIDE DEF all
<1>4. \A i \in 1..Len(all) : all[i] = live + 1 - i
  BY <1>2, <1>3
<1>5. kept \in Nat /\ kept >= 1 /\ kept <= Len(all)
      /\ kept = IF live + 1 < SessionsRetained THEN live + 1 ELSE SessionsRetained
  BY <1>3
<1> HIDE DEF kept
<1>6. /\ retained' \in Seq(Nat) /\ Len(retained') = kept
      /\ \A i \in 1..kept : retained'[i] = all[i]
  <2>1. \A i \in 1..kept : all[i] \in Nat
    BY <1>3, <1>5
  <2>2. /\ SubSeq(all, 1, kept) \in Seq(Nat)
        /\ Len(SubSeq(all, 1, kept)) = IF 1 <= kept THEN kept - 1 + 1 ELSE 0
        /\ \A i \in 1..kept - 1 + 1 : SubSeq(all, 1, kept)[i] = all[1 + i - 1]
    BY <2>1, <1>5, SubSeqProperties
  <2> QED BY <2>2, <1>1, <1>5
<1> QED BY <1>1, <1>4, <1>5, <1>6

\* While its filter is the live one or retained, an identifier is not taken for a new one.
LEMMA ChainIsConsulted ==
    ASSUME WindowInv PROVE KnownWhileRetained
<1> SUFFICES ASSUME NEW id \in Ids, acceptedIn[id] # None, ~InHand(id),
                    live <= acceptedIn[id] + SessionsRetained
             PROVE  acceptedIn[id] \in Consulted /\ <<acceptedIn[id], id>> \in content
  BY DEF KnownWhileRetained, DefinitelyNew
<1>1. acceptedIn[id] \in 0..live /\ <<acceptedIn[id], id>> \in content
  BY DEF WindowInv, Written
<1>2. CASE acceptedIn[id] = live
  BY <1>1, <1>2 DEF Consulted
<1>3. CASE acceptedIn[id] < live
  <2> DEFINE i == live - acceptedIn[id]
  <2>1. i \in 1..Len(retained) /\ live - i = acceptedIn[id]
    BY <1>1, <1>3, DedupWindowAssumption DEF WindowInv, Chain
  <2>2. retained[i] = acceptedIn[id] /\ i \in DOMAIN retained
    BY <2>1 DEF WindowInv, Chain
  <2> HIDE DEF i
  <2> QED BY <2>2, <1>1 DEF Consulted
<1> QED BY <1>1, <1>2, <1>3 DEF WindowInv, Chain

LEMMA WindowInit == Init => WindowInv
BY DedupWindowAssumption, EmptySeq DEF Init, WindowInv, Chain, HandOver, Written, NoneOfThem

LEMMA WindowStep == ASSUME WindowInv, [Next]_vars PROVE WindowInv'
<1> USE DEF WindowInv
<1>1. CASE Restart
  BY <1>1, DedupWindowAssumption DEF Restart, Chain, HandOver, Written, NoneOfThem
<1>2. ASSUME NEW id \in Ids, Accept(id) PROVE WindowInv'
  <2>1. Chain' BY <1>2 DEF Accept, filters, Chain
  <2>2. remembering' \in [id : Ids, filter : Nat] /\ remembering'.id = id /\ remembering'.filter = live
    BY <1>2 DEF Accept, Chain
  <2>3. acceptedIn' = [acceptedIn EXCEPT ![id] = live] /\ live' = live /\ content' = content /\ remembering = None
    BY <1>2 DEF Accept, filters
  <2>4. HandOver' BY <2>2, <2>3 DEF HandOver
  <2>5. remembering' # None BY <2>2, DedupWindowAssumption
  <2>6. Written'
    <3> SUFFICES ASSUME NEW k \in Ids, acceptedIn'[k] # None
                 PROVE acceptedIn'[k] \in 0..live /\ (InHand(k)' \/ <<acceptedIn'[k], k>> \in content)
      BY <2>3 DEF Written
    <3>1. CASE k = id
      BY <3>1, <2>2, <2>3, <2>5 DEF InHand, Chain
    <3>2. CASE k # id
      BY <3>2, <2>3 DEF Written, InHand
    <3> QED BY <3>1, <3>2
  <2>7. acceptedIn' \in [Ids -> Nat \cup {None}]
    BY <2>3 DEF Chain
  <2> QED BY <2>1, <2>4, <2>6, <2>7
<1>3. CASE Remember
  BY <1>3 DEF Remember, filters, Chain, HandOver, Written, InHand
<1>4. CASE Rotate
  <2>1. Chain' BY <1>4, RotateKeepsChain
  <2> QED BY <2>1, <1>4 DEF Rotate, Chain, HandOver, Written, InHand
<1>5. CASE \/ Publish \/ RotationFails \/ Tick \/ (\E id \in Ids : Finish(id)) \/ UNCHANGED vars
  BY <1>5 DEF Publish, RotationFails, Tick, Finish, vars, filters, Chain, HandOver, Written, InHand
<1> QED BY <1>1, <1>2, <1>3, <1>4, <1>5 DEF Next

\* KnownWhileRetained, always: a rotation between the acceptance of an identifier and the
\* write of its bits loses nothing, and rotations keep a filter for SessionsRetained
\* rotations (RotatingDedupIndex: "There is no window in which a write is dropped").
THEOREM KnownThroughRotations == Spec => []KnownWhileRetained
<1>1. WindowInv /\ [Next]_vars => WindowInv'
  BY WindowStep
<1>2. WindowInv => KnownWhileRetained
  BY ChainIsConsulted
<1> QED BY WindowInit, <1>1, <1>2, PTL DEF Spec

----------------------------------------------------------------------------
(* The calendar: the moments of rotation, numbered over the days.          *)

Boundary(b) == (b \div Sessions) * Day + Starts[(b % Sessions) + 1]

LEMMA DivMod ==
    ASSUME NEW S \in Nat \ {0}, NEW b \in Int
    PROVE  b \div S \in Int /\ b % S \in 0..(S - 1) /\ b = ((b \div S) * S) + (b % S)
OBVIOUS

LEMMA TimesRises ==
    ASSUME NEW S \in Nat \ {0}, NEW q \in Int, NEW p \in Int, q < p
    PROVE  q * S \in Int /\ p * S \in Int /\ (q * S) + S <= p * S
OBVIOUS

LEMMA DivModUnique ==
    ASSUME NEW S \in Nat \ {0}, NEW q \in Int, NEW r \in 0..(S - 1)
    PROVE  ((q * S) + r) \div S = q /\ ((q * S) + r) % S = r
<1> DEFINE b == (q * S) + r
           p == b \div S
<1>1. b \in Int /\ p \in Int /\ b % S \in 0..(S - 1) /\ b = (p * S) + (b % S)
  BY DivMod
<1>2. q * S \in Int /\ p * S \in Int
  BY <1>1
<1>3. ~(q < p) /\ ~(p < q)
  BY <1>1, <1>2, TimesRises
<1> QED
  BY <1>1, <1>2, <1>3

\* The session starts are moments of one day, in order.
LEMMA Calendar ==
    /\ Sessions \in Nat \ {0} /\ Day \in Nat \ {0}
    /\ \A i \in 1..Sessions : Starts[i] \in 0..(Day - 1)
    /\ \A i, j \in 1..Sessions : i < j => Starts[i] < Starts[j]
<1>1. Starts \in Seq(0..(Day - 1)) /\ Len(Starts) \in Nat /\ Len(Starts) > 0 /\ Day \in Nat
  BY CalendarAssumption, LenProperties
<1>2. \A i \in 1..Len(Starts) : Starts[i] \in 0..(Day - 1)
  BY <1>1, ElementOfSeq
<1>3. Starts[1] \in 0..(Day - 1)
  BY <1>1, <1>2
<1> QED
  BY <1>1, <1>2, <1>3, CalendarAssumption DEF Sessions

LEMMA BoundaryOf ==
    ASSUME NEW d \in Int, NEW i \in 1..Sessions
    PROVE  LET b == (d * Sessions) + (i - 1) IN
              b \in Int /\ b \div Sessions = d /\ b % Sessions = i - 1
              /\ Boundary(b) = (d * Day) + Starts[i]
<1>1. i - 1 \in 0..(Sessions - 1) /\ d * Sessions \in Int
  BY Calendar
<1>2. ((d * Sessions) + (i - 1)) \div Sessions = d /\ ((d * Sessions) + (i - 1)) % Sessions = i - 1
  BY <1>1, Calendar, DivModUnique
<1> QED
  BY <1>1, <1>2, Calendar DEF Boundary

LEMMA BoundaryInt ==
    ASSUME NEW b \in Int
    PROVE  /\ b \div Sessions \in Int /\ (b % Sessions) + 1 \in 1..Sessions
           /\ b = ((b \div Sessions) * Sessions) + (b % Sessions)
           /\ (b \div Sessions) * Day \in Int
           /\ Boundary(b) \in Int
BY DivMod, Calendar DEF Boundary

\* A later boundary is later.
LEMMA BoundaryRises ==
    ASSUME NEW b \in Int, NEW c \in Int, b < c
    PROVE  Boundary(b) < Boundary(c)
<1> DEFINE q == b \div Sessions
           r == b % Sessions
           p == c \div Sessions
           s == c % Sessions
<1>1. /\ q \in Int /\ r \in 0..(Sessions - 1) /\ b = (q * Sessions) + r
      /\ p \in Int /\ s \in 0..(Sessions - 1) /\ c = (p * Sessions) + s
  BY DivMod, Calendar
<1>2. Boundary(b) = (q * Day) + Starts[r + 1] /\ Boundary(c) = (p * Day) + Starts[s + 1]
  BY DEF Boundary
<1>3. Starts[r + 1] \in 0..(Day - 1) /\ Starts[s + 1] \in 0..(Day - 1)
  BY <1>1, Calendar
<1> HIDE DEF q, r, p, s
<1>4. CASE q < p
  <2>1. q * Day \in Int /\ p * Day \in Int /\ (q * Day) + Day <= p * Day
    BY <1>1, <1>4, Calendar, TimesRises
  <2> QED
    BY <2>1, <1>2, <1>3, Calendar
<1>5. CASE q = p
  <2>1. q * Sessions \in Int /\ r < s
    BY <1>1, <1>5, Calendar
  <2>2. Starts[r + 1] < Starts[s + 1] /\ q * Day \in Int
    BY <1>1, <2>1, Calendar
  <2> QED
    BY <2>2, <1>2, <1>3, <1>5
<1>6. CASE p < q
  <2>1. p * Sessions \in Int /\ q * Sessions \in Int /\ (p * Sessions) + Sessions <= q * Sessions
    BY <1>1, <1>6, Calendar, TimesRises
  <2> QED
    BY <2>1, <1>1, Calendar
<1> QED
  BY <1>1, <1>4, <1>5, <1>6

\* Between a boundary and the next lies the gap of its session.
LEMMA BoundaryGap ==
    ASSUME NEW b \in Int
    PROVE  Boundary(b + 1) = Boundary(b) + Gaps[(b % Sessions) + 1]
<1> DEFINE d == b \div Sessions
           i == (b % Sessions) + 1
<1>1. d \in Int /\ i \in 1..Sessions /\ b = (d * Sessions) + (i - 1) /\ d * Sessions \in Int
  BY DivMod, Calendar
<1>2. Boundary(b) = (d * Day) + Starts[i] /\ d * Day \in Int
  BY <1>1, Calendar DEF Boundary
<1>3. Starts[i] \in Int /\ Starts[1] \in Int /\ Starts[Sessions] \in Int
  BY <1>1, Calendar
<1>4. Gaps[i] = IF i < Sessions THEN Starts[i + 1] - Starts[i] ELSE Day - (Starts[Sessions] - Starts[1])
  BY <1>1 DEF Gaps
<1> HIDE DEF d, i
<1>5. CASE i < Sessions
  <2>1. i + 1 \in 1..Sessions /\ b + 1 = (d * Sessions) + ((i + 1) - 1)
    BY <1>1, <1>5, Calendar
  <2>2. Boundary(b + 1) = (d * Day) + Starts[i + 1] /\ Starts[i + 1] \in Int
    <3>1. Boundary((d * Sessions) + ((i + 1) - 1)) = (d * Day) + Starts[i + 1]
      BY <2>1, <1>1, BoundaryOf
    <3>2. Starts[i + 1] \in Int
      BY <2>1, Calendar
    <3> QED
      BY <2>1, <3>1, <3>2
  <2> QED
    BY <2>2, <1>2, <1>3, <1>4, <1>5 DEF i
<1>6. CASE i = Sessions
  <2>1. 1 \in 1..Sessions /\ d + 1 \in Int /\ (d + 1) * Sessions = (d * Sessions) + Sessions
        /\ (d + 1) * Day = (d * Day) + Day
    BY <1>1, Calendar
  <2>2. b + 1 = ((d + 1) * Sessions) + (1 - 1)
    BY <2>1, <1>1, <1>6, Calendar
  <2>3. Boundary(b + 1) = ((d + 1) * Day) + Starts[1]
    BY <2>1, <2>2, BoundaryOf
  <2> QED
    BY <2>1, <2>3, <1>2, <1>3, <1>4, <1>6, Calendar DEF i
<1> QED
  BY <1>1, <1>5, <1>6, Calendar

\* The next boundary after a moment is later than it, and the one before is not.
LEMMA NextIsBoundary ==
    ASSUME NEW t \in Nat
    PROVE  \E b \in Int : /\ NextBoundaryAfter(t) = Boundary(b)
                          /\ Boundary(b - 1) <= t /\ t < Boundary(b)
<1> DEFINE d == t \div Day
           first == (d * Sessions) + (1 - 1)
           J == {j \in Nat : t < Boundary(first + j)}
           N == {e * Day + Starts[i] : e \in {d, d + 1}, i \in 1..Sessions} \ 0..t
<1>1. d \in Int /\ d * Day \in Int /\ d * Day <= t /\ t < (d * Day) + Day
      /\ (d + 1) * Day = (d * Day) + Day
  BY DivMod, Calendar
<1>2. /\ first \in Int /\ d * Sessions \in Int /\ first = d * Sessions
      /\ (d + 1) * Sessions = first + Sessions /\ (d - 1) * Sessions = first - Sessions
      /\ (d - 1) * Day = (d * Day) - Day
  BY <1>1, Calendar
<1> HIDE DEF d
<1>3. Boundary(first + Sessions) = ((d + 1) * Day) + Starts[1]
  <2>1. first + Sessions = ((d + 1) * Sessions) + (1 - 1)
    BY <1>1, <1>2, Calendar
  <2>2. Boundary(((d + 1) * Sessions) + (1 - 1)) = ((d + 1) * Day) + Starts[1]
    <3>1. d + 1 \in Int /\ 1 \in 1..Sessions
      BY <1>1, Calendar
    <3> QED
      BY <3>1, BoundaryOf
  <2> QED
    BY <2>1, <2>2
<1>4. Boundary(first - 1) = ((d - 1) * Day) + Starts[Sessions]
  <2>1. first - 1 = ((d - 1) * Sessions) + (Sessions - 1)
    BY <1>1, <1>2, Calendar
  <2>2. Boundary(((d - 1) * Sessions) + (Sessions - 1)) = ((d - 1) * Day) + Starts[Sessions]
    <3>1. d - 1 \in Int /\ Sessions \in 1..Sessions
      BY <1>1, Calendar
    <3> QED
      BY <3>1, BoundaryOf
  <2> QED
    BY <2>1, <2>2
<1>5. Sessions \in J /\ Boundary(first - 1) <= t
  <2>1. Starts[1] \in 0..(Day - 1) /\ Starts[Sessions] \in 0..(Day - 1)
    BY Calendar
  <2>2. t < Boundary(first + Sessions)
    BY <2>1, <1>1, <1>3, Calendar
  <2>3. Boundary(first - 1) <= t
    BY <2>1, <1>1, <1>2, <1>4, Calendar
  <2> QED
    BY <2>2, <2>3, Calendar
<1> HIDE DEF first
<1>6. PICK j \in J : \A k \in J : j <= k
  BY <1>5, LeastNumber
<1> DEFINE b == first + j
<1>7. j \in 0..Sessions /\ b \in Int /\ t < Boundary(b) /\ Boundary(b) \in Int
  BY <1>2, <1>5, <1>6, BoundaryInt, Calendar
<1>8. Boundary(b - 1) <= t
  <2>1. CASE j = 0
    BY <2>1, <1>2, <1>5
  <2>2. CASE j # 0
    <3>1. j - 1 \in Nat /\ j - 1 \notin J /\ first + (j - 1) = b - 1
      BY <2>2, <1>2, <1>6
    <3>2. ~(t < Boundary(b - 1)) /\ Boundary(b - 1) \in Int
      BY <3>1, <1>7, BoundaryInt
    <3> QED
      BY <3>2
  <2> QED
    BY <2>1, <2>2
<1>9. Boundary(b) \in N
  <2>1. \E e \in {d, d + 1}, i \in 1..Sessions : Boundary(b) = e * Day + Starts[i]
    <3>1. CASE j < Sessions
      <4>1. j + 1 \in 1..Sessions /\ b = (d * Sessions) + ((j + 1) - 1)
        BY <3>1, <1>2, <1>7, Calendar
      <4>2. Boundary((d * Sessions) + ((j + 1) - 1)) = (d * Day) + Starts[j + 1]
        BY <4>1, <1>1, BoundaryOf
      <4> HIDE DEF b
      <4> QED
        BY <4>1, <4>2
    <3>2. CASE j = Sessions
      <4>1. Boundary(b) = ((d + 1) * Day) + Starts[1] /\ 1 \in 1..Sessions
        BY <3>2, <1>3, Calendar
      <4> HIDE DEF b
      <4> QED
        BY <4>1
    <3> QED
      BY <3>1, <3>2, <1>7, Calendar
  <2>2. Boundary(b) \notin 0..t
    BY <1>7
  <2> HIDE DEF b
  <2> QED
    BY <2>1, <2>2
<1>10. \A y \in N : y \in Int /\ Boundary(b) <= y
  <2> SUFFICES ASSUME NEW e \in {d, d + 1}, NEW i \in 1..Sessions,
                      e * Day + Starts[i] \notin 0..t
               PROVE  e * Day + Starts[i] \in Int /\ Boundary(b) <= e * Day + Starts[i]
    BY DEF N
  <2> DEFINE c == (e * Sessions) + (i - 1)
  <2>1. e \in Int /\ c \in Int /\ Boundary(c) = (e * Day) + Starts[i] /\ e * Day \in Int
    <3>1. e \in Int /\ e * Day \in Int
      BY <1>1, Calendar
    <3> QED
      BY <3>1, BoundaryOf
  <2>2. Boundary(c) >= 0 /\ Boundary(c) \in Int
    <3>1. 0 <= d * Day
      <4>1. d \in Nat
        BY Calendar DEF d
      <4> QED
        BY <4>1, Calendar
    <3>2. e * Day >= d * Day /\ Starts[i] \in 0..(Day - 1)
      BY <1>1, Calendar
    <3> QED
      BY <3>1, <3>2, <2>1, <1>1
  <2>3. t < Boundary(c)
    BY <2>1, <2>2
  <2> HIDE DEF b, c
  <2>4. ~(c <= b - 1)
    <3>1. CASE c = b - 1
      BY <3>1, <2>3, <1>8, <2>2
    <3>2. CASE c < b - 1
      <4>1. b - 1 \in Int /\ Boundary(b - 1) \in Int /\ Boundary(c) < Boundary(b - 1)
        <5>1. b - 1 \in Int
          BY <1>7
        <5> QED
          BY <5>1, <3>2, <2>1, BoundaryRises, BoundaryInt
      <4> QED
        BY <4>1, <2>2, <2>3, <1>8
    <3> QED
      BY <3>1, <3>2, <2>1, <1>7
  <2>5. Boundary(b) <= Boundary(c)
    <3>1. CASE c = b
      BY <3>1, <1>7
    <3>2. CASE b < c
      BY <3>2, <2>1, <2>2, <1>7, BoundaryRises
    <3> QED
      BY <3>1, <3>2, <2>1, <2>4, <1>7
  <2> QED
    BY <2>1, <2>2, <2>5
<1>11. NextBoundaryAfter(t) = Boundary(b)
  <2>1. NextBoundaryAfter(t) = Min(N)
    BY DEF NextBoundaryAfter, d
  <2>2. Min(N) = CHOOSE x \in N : \A y \in N : x <= y
    BY DEF Min
  <2> HIDE DEF N, b
  <2>3. \A x \in N : (\A y \in N : x <= y) => x = Boundary(b)
    BY <1>7, <1>9, <1>10
  <2> QED
    BY <2>1, <2>2, <2>3, <1>9, <1>10
<1> HIDE DEF b
<1> QED
  BY <1>7, <1>8, <1>11

\* After a boundary comes the next in number.
LEMMA NextAfterBoundary ==
    ASSUME NEW b \in Int, Boundary(b) \in Nat
    PROVE  NextBoundaryAfter(Boundary(b)) = Boundary(b + 1)
<1>1. PICK c \in Int : /\ NextBoundaryAfter(Boundary(b)) = Boundary(c)
                       /\ Boundary(c - 1) <= Boundary(b) /\ Boundary(b) < Boundary(c)
  BY NextIsBoundary
<1>2. Boundary(c) \in Int /\ c - 1 \in Int /\ Boundary(c - 1) \in Int
  BY <1>1, BoundaryInt
<1>3. ~(c < b) /\ c # b
  BY <1>1, <1>2, BoundaryRises
<1>4. ~(b < c - 1)
  BY <1>1, <1>2, BoundaryRises
<1>5. c = b + 1
  BY <1>3, <1>4
<1> QED
  BY <1>1, <1>5

----------------------------------------------------------------------------
(* What a number of sessions covers, and the horizon.                      *)

LEMMA SameSession ==
    ASSUME NEW e \in Int, NEW k \in Int
    PROVE  ((e % Sessions) - k) % Sessions = (e - k) % Sessions
<1> DEFINE q == e \div Sessions
           s == e % Sessions
           x == s - k
           p == x \div Sessions
           r == x % Sessions
<1>1. q \in Int /\ s \in 0..(Sessions - 1) /\ e = (q * Sessions) + s
  BY DivMod, Calendar
<1>2. x \in Int
  BY <1>1
<1>3. p \in Int /\ r \in 0..(Sessions - 1) /\ x = (p * Sessions) + r
  <2> HIDE DEF x
  <2> QED
    BY <1>2, DivMod, Calendar
<1>4. e - k = (q * Sessions) + x /\ q * Sessions \in Int
  BY <1>1, Calendar
<1> HIDE DEF q, s, x, p, r
<1>5. q + p \in Int /\ ((q + p) * Sessions) + r = e - k
  BY <1>1, <1>2, <1>3, <1>4, Calendar
<1>6. (((q + p) * Sessions) + r) % Sessions = r
  BY <1>3, <1>5, DivModUnique, Calendar
<1> QED
  BY <1>5, <1>6 DEF r, x, s

\* The sessions that end with boundary e + 1 cover the time between the boundaries.
LEMMA CoveredSpan ==
    ASSUME NEW e \in Int, NEW n \in Nat
    PROVE  Covered(e % Sessions, n) = Boundary(e + 1) - Boundary((e + 1) - n)
<1> DEFINE s == e % Sessions
           F == [step \in 0..(n - 1) |-> Gaps[((s - step) % Sessions) + 1]]
           G == [k \in Nat |-> Gaps[((e - k) % Sessions) + 1]]
           Span(k) == Boundary(e + 1) - Boundary((e + 1) - k)
           T == {k \in Nat : SumFunctionOnSet(G, 0..(k - 1)) = Span(k)}
<1>1. Covered(s, n) = SumFunctionOnSet(F, 0..(n - 1))
  <2>1. DOMAIN F = 0..(n - 1)
    OBVIOUS
  <2>2. Covered(s, n) = SumFunctionOnSet(F, DOMAIN F)
    BY DEF Covered, FoldFunction, SumFunctionOnSet
  <2> QED
    BY <2>1, <2>2
<1>2. SumFunctionOnSet(F, 0..(n - 1)) = SumFunctionOnSet(G, 0..(n - 1))
  <2>1. ASSUME NEW k \in 0..(n - 1) PROVE F[k] = G[k]
    <3>1. (s - k) % Sessions = (e - k) % Sessions
      BY SameSession
    <3>2. F[k] = Gaps[((s - k) % Sessions) + 1]
      OBVIOUS
    <3>3. G[k] = Gaps[((e - k) % Sessions) + 1]
      OBVIOUS
    <3> QED
      BY <3>1, <3>2, <3>3
  <2>2. IsFiniteSet(0..(n - 1))
    BY FS_Interval
  <2> HIDE DEF F, G
  <2> QED
    BY <2>1, <2>2, SumSame
<1>3. \A k \in Nat : /\ G[k] \in Nat
                     /\ G[k] = Boundary((e + 1) - k) - Boundary((e + 1) - (k + 1))
                     /\ Span(k) \in Int
  <2> SUFFICES ASSUME NEW k \in Nat
               PROVE  /\ G[k] \in Nat
                      /\ G[k] = Boundary((e + 1) - k) - Boundary((e + 1) - (k + 1))
                      /\ Span(k) \in Int
    OBVIOUS
  <2>1. /\ e - k \in Int /\ (e - k) + 1 = (e + 1) - k /\ (e + 1) - (k + 1) = e - k
        /\ e + 1 \in Int /\ (e + 1) - k \in Int
    OBVIOUS
  <2>2. Boundary((e + 1) - k) = Boundary(e - k) + Gaps[((e - k) % Sessions) + 1]
    BY <2>1, BoundaryGap
  <2>3. Boundary(e - k) < Boundary((e + 1) - k)
    BY <2>1, BoundaryRises
  <2>4. Boundary(e - k) \in Int /\ Boundary((e + 1) - k) \in Int /\ Boundary(e + 1) \in Int
    BY <2>1, BoundaryInt
  <2>5. Gaps[((e - k) % Sessions) + 1] \in Int
    <3>1. ((e - k) % Sessions) + 1 \in 1..Sessions
      BY <2>1, BoundaryInt
    <3> QED
      BY <3>1, Calendar DEF Gaps
  <2> QED
    BY <2>1, <2>2, <2>3, <2>4, <2>5
<1> HIDE DEF G
<1>4. 0 \in T
  <2>1. 0..(0 - 1) = {} /\ (e + 1) - 0 = e + 1 /\ e + 1 \in Int
    OBVIOUS
  <2>2. Boundary(e + 1) \in Int
    BY <2>1, BoundaryInt
  <2>3. Span(0) = 0
    BY <2>1, <2>2
  <2>4. SumFunctionOnSet(G, 0..(0 - 1)) = 0
    BY <2>1, SumEmpty
  <2> QED
    BY <2>3, <2>4
<1>5. ASSUME NEW k \in Nat, k \in T PROVE k + 1 \in T
  <2> DEFINE S == 0..k
  <2>1. IsFiniteSet(S) /\ k \in S /\ S \ {k} = 0..(k - 1) /\ S = 0..((k + 1) - 1)
    BY FS_Interval
  <2>2. \A x \in S : G[x] \in Nat
    BY <1>3
  <2>3. SumFunctionOnSet(G, S) = G[k] + SumFunctionOnSet(G, S \ {k})
    <3> HIDE DEF S
    <3> QED
      BY <2>1, <2>2, SumOf
  <2>4. SumFunctionOnSet(G, 0..(k - 1)) = Span(k)
    BY <1>5
  <2>5. SumFunctionOnSet(G, 0..((k + 1) - 1)) = G[k] + Span(k)
    BY <2>1, <2>3, <2>4
  <2>6. e + 1 \in Int /\ (e + 1) - k \in Int /\ (e + 1) - (k + 1) \in Int
    OBVIOUS
  <2>7. Boundary(e + 1) \in Int /\ Boundary((e + 1) - k) \in Int /\ Boundary((e + 1) - (k + 1)) \in Int
    BY <2>6, BoundaryInt
  <2>8. G[k] + Span(k) = Span(k + 1)
    BY <2>7, <1>3
  <2> QED
    BY <2>5, <2>8
<1>6. Nat \subseteq T
  <2> HIDE DEF T
  <2> QED
    BY <1>4, <1>5, SetInduction
<1> QED
  BY <1>1, <1>2, <1>6

\* The horizon is no more than what the retained sessions before any boundary cover.
LEMMA HorizonIsCovered ==
    ASSUME NEW c \in Int
    PROVE  /\ Horizon \in Int
           /\ Horizon <= Boundary(c) - Boundary(c - SessionsRetained)
<1> DEFINE C == {Covered(start, SessionsRetained) : start \in 0..(Sessions - 1)}
<1>0. SessionsRetained \in Nat
  BY DedupWindowAssumption
<1>1. \A e \in Int : /\ Covered(e % Sessions, SessionsRetained)
                          = Boundary(e + 1) - Boundary((e + 1) - SessionsRetained)
                     /\ Covered(e % Sessions, SessionsRetained) \in Nat
  <2> SUFFICES ASSUME NEW e \in Int
               PROVE  /\ Covered(e % Sessions, SessionsRetained)
                           = Boundary(e + 1) - Boundary((e + 1) - SessionsRetained)
                      /\ Covered(e % Sessions, SessionsRetained) \in Nat
    OBVIOUS
  <2>1. Covered(e % Sessions, SessionsRetained)
          = Boundary(e + 1) - Boundary((e + 1) - SessionsRetained)
    BY <1>0, CoveredSpan
  <2>2. /\ e + 1 \in Int /\ (e + 1) - SessionsRetained \in Int
        /\ (e + 1) - SessionsRetained < e + 1
    BY DedupWindowAssumption
  <2>3. /\ Boundary(e + 1) \in Int /\ Boundary((e + 1) - SessionsRetained) \in Int
        /\ Boundary((e + 1) - SessionsRetained) < Boundary(e + 1)
    BY <2>2, BoundaryInt, BoundaryRises
  <2> QED
    BY <2>1, <2>3
<1>2. \A e \in Int : Covered(e % Sessions, SessionsRetained) \in C
  BY BoundaryInt, DivMod, Calendar
<1>3. C \subseteq Nat
  <2> SUFFICES ASSUME NEW start \in 0..(Sessions - 1)
               PROVE  Covered(start, SessionsRetained) \in Nat
    OBVIOUS
  <2>1. start % Sessions = start
    BY Calendar
  <2> QED
    BY <2>1, <1>1
<1>4. Horizon = CHOOSE x \in C : \A y \in C : x <= y
  BY DEF Horizon, MinimumCoverage, Min
<1> HIDE DEF C
<1>5. C # {}
  BY <1>2
<1>6. PICK x \in C : \A y \in C : x <= y
  BY <1>3, <1>5, LeastNumber
<1>7. Horizon \in C /\ \A y \in C : Horizon <= y
  BY <1>4, <1>6
<1>8. Covered((c - 1) % Sessions, SessionsRetained) = Boundary(c) - Boundary(c - SessionsRetained)
  <2>1. c - 1 \in Int /\ (c - 1) + 1 = c
    OBVIOUS
  <2> QED
    BY <2>1, <1>1
<1>9. Covered((c - 1) % Sessions, SessionsRetained) \in C
  BY <1>2
<1>10. Horizon \in Int
  BY <1>3, <1>7
<1>11. Horizon <= Covered((c - 1) % Sessions, SessionsRetained)
  BY <1>7, <1>9
<1> QED
  BY <1>8, <1>10, <1>11

----------------------------------------------------------------------------
(* The index over time.                                                    *)

\* The rotation armed next is at a boundary, and the moment is not before the last one.
ArmedAt(b) == armed = Boundary(b) /\ Boundary(b - 1) <= now /\ now <= armed

\* An identifier was accepted no later than as many boundaries before it as there were
\* rotations since; fewer, if some failed.
AcceptedBefore(b) ==
    \A id \in Ids : acceptedIn[id] # None =>
        processed[id] \in Nat /\ processed[id] <= Boundary(b - (live - acceptedIn[id]))

CalendarInv ==
    /\ now \in Nat
    /\ DOMAIN processed = Ids
    /\ ~ready => acceptedIn = NoneOfThem
    /\ ready => \E b \in Int : ArmedAt(b) /\ AcceptedBefore(b)

LEMMA CalendarInit == Init => CalendarInv
BY DEF Init, CalendarInv, NoneOfThem

LEMMA CalendarStep ==
    ASSUME WindowInv, CalendarInv, [Next]_vars
    PROVE  CalendarInv'
<1>0. /\ live \in Nat
      /\ \A id \in Ids : acceptedIn[id] # None => acceptedIn[id] \in 0..live
      /\ \A id \in Ids : NoneOfThem[id] = None
      /\ acceptedIn \in [Ids -> Nat \cup {None}]
  BY DEF WindowInv, Chain, Written, NoneOfThem
<1>1. CASE Restart
  BY <1>1 DEF Restart, CalendarInv
<1>2. CASE Publish
  <2>1. PICK b \in Int : /\ NextBoundaryAfter(now) = Boundary(b)
                         /\ Boundary(b - 1) <= now /\ now < Boundary(b)
    BY NextIsBoundary DEF CalendarInv
  <2>2. /\ ready' = TRUE /\ armed' = NextBoundaryAfter(now) /\ now' = now /\ processed' = processed
        /\ acceptedIn' = acceptedIn /\ acceptedIn = NoneOfThem
    BY <1>2 DEF Publish, CalendarInv
  <2>3. AcceptedBefore(b)'
    BY <1>0, <2>2 DEF AcceptedBefore
  <2>4. ArmedAt(b)'
    BY <2>1, <2>2, BoundaryInt DEF ArmedAt, CalendarInv
  <2> QED
    BY <2>2, <2>3, <2>4 DEF CalendarInv
<1>3. ASSUME NEW id \in Ids, Accept(id) PROVE CalendarInv'
  <2>1. /\ ready /\ ready' = ready /\ now' = now /\ armed' = armed /\ live' = live
        /\ processed' = [processed EXCEPT ![id] = now]
        /\ acceptedIn' = [acceptedIn EXCEPT ![id] = live]
    BY <1>3 DEF Accept, filters
  <2>2. PICK b \in Int : ArmedAt(b) /\ AcceptedBefore(b)
    BY <2>1 DEF CalendarInv
  <2>3. ArmedAt(b)'
    BY <2>1, <2>2 DEF ArmedAt
  <2>4. AcceptedBefore(b)'
    <3> SUFFICES ASSUME NEW k \in Ids, acceptedIn'[k] # None
                 PROVE  /\ processed'[k] \in Nat
                        /\ processed'[k] <= Boundary(b - (live - acceptedIn'[k]))
      BY <2>1 DEF AcceptedBefore
    <3>1. CASE k = id
      <4>1. processed'[k] = now /\ acceptedIn'[k] = live
        BY <3>1, <2>1, <1>0 DEF CalendarInv
      <4>2. b - (live - live) = b /\ now <= Boundary(b) /\ now \in Nat
        BY <1>0, <2>2 DEF ArmedAt, CalendarInv
      <4> QED
        BY <4>1, <4>2
    <3>2. CASE k # id
      BY <3>2, <2>1, <2>2 DEF AcceptedBefore
    <3> QED
      BY <3>1, <3>2
  <2> QED
    BY <2>1, <2>3, <2>4 DEF CalendarInv
<1>4. CASE Rotate \/ RotationFails
  <2>1. /\ ready /\ ready' = ready /\ now >= armed /\ armed' = NextBoundaryAfter(now)
        /\ now' = now /\ processed' = processed /\ acceptedIn' = acceptedIn
        /\ live' \in {live, live + 1}
    BY <1>4 DEF Rotate, RotationFails, filters
  <2>2. PICK b \in Int : ArmedAt(b) /\ AcceptedBefore(b)
    BY <2>1 DEF CalendarInv
  <2>3. now \in Nat /\ now = Boundary(b) /\ Boundary(b) \in Int
    <3>1. Boundary(b) \in Int
      BY BoundaryInt
    <3>2. now \in Nat /\ armed = Boundary(b) /\ now <= armed /\ now >= armed
      BY <2>1, <2>2 DEF ArmedAt, CalendarInv
    <3> QED
      BY <3>1, <3>2
  <2>4. armed' = Boundary(b + 1)
    BY <2>1, <2>3, NextAfterBoundary
  <2>5. b + 1 \in Int /\ (b + 1) - 1 = b /\ Boundary(b) < Boundary(b + 1) /\ Boundary(b + 1) \in Int
    BY BoundaryRises, BoundaryInt
  <2>6. ArmedAt(b + 1)'
    BY <2>1, <2>3, <2>4, <2>5 DEF ArmedAt
  <2>7. AcceptedBefore(b + 1)'
    <3> SUFFICES ASSUME NEW k \in Ids, acceptedIn[k] # None
                 PROVE  /\ processed[k] \in Nat
                        /\ processed[k] <= Boundary((b + 1) - (live' - acceptedIn[k]))
      BY <2>1 DEF AcceptedBefore
    <3> DEFINE i == b - (live - acceptedIn[k])
               j == (b + 1) - (live' - acceptedIn[k])
    <3>1. processed[k] \in Nat /\ processed[k] <= Boundary(i)
      BY <2>2 DEF AcceptedBefore
    <3>2. i \in Int /\ j \in Int /\ (j = i \/ i < j)
      BY <1>0, <2>1
    <3> HIDE DEF i, j
    <3>3. Boundary(i) \in Int /\ Boundary(j) \in Int /\ (j = i \/ Boundary(i) < Boundary(j))
      BY <3>2, BoundaryInt, BoundaryRises
    <3>4. processed[k] <= Boundary(j)
      BY <3>1, <3>3
    <3> QED
      BY <3>1, <3>4 DEF j
  <2> QED
    BY <2>1, <2>5, <2>6, <2>7 DEF CalendarInv
<1>5. CASE Tick
  <2>1. /\ now' = now + 1 /\ ready' = ready /\ armed' = armed /\ processed' = processed
        /\ acceptedIn' = acceptedIn /\ live' = live /\ ~(ready /\ now >= armed)
    BY <1>5 DEF Tick, filters
  <2>2. now' \in Nat
    BY <2>1 DEF CalendarInv
  <2>3. ASSUME ready PROVE \E b \in Int : ArmedAt(b)' /\ AcceptedBefore(b)'
    <3>1. PICK b \in Int : ArmedAt(b) /\ AcceptedBefore(b)
      BY <2>3 DEF CalendarInv
    <3>2. AcceptedBefore(b)'
      BY <2>1, <3>1 DEF AcceptedBefore
    <3>3. b - 1 \in Int /\ Boundary(b - 1) \in Int /\ Boundary(b) \in Int
      BY BoundaryInt
    <3>4. ArmedAt(b)'
      BY <2>1, <2>3, <3>1, <3>3 DEF ArmedAt, CalendarInv
    <3> QED
      BY <3>2, <3>4
  <2> QED
    BY <2>1, <2>2, <2>3 DEF CalendarInv
<1>6. CASE Remember \/ (\E id \in Ids : Finish(id)) \/ UNCHANGED vars
  <2>1. UNCHANGED <<now, processed, ready, armed, acceptedIn, live>>
    BY <1>6 DEF Remember, Finish, vars, filters
  <2> QED
    BY <2>1 DEF CalendarInv, ArmedAt, AcceptedBefore
<1> QED
  BY <1>1, <1>2, <1>3, <1>4, <1>5, <1>6 DEF Next

\* More rotations than filters are retained take the horizon at least.
LEMMA HorizonFromRotations ==
    ASSUME WindowInv, CalendarInv, ready, NEW id \in Ids, acceptedIn[id] # None,
           now - processed[id] < Horizon
    PROVE  live <= acceptedIn[id] + SessionsRetained
<1> SUFFICES ASSUME ~(live <= acceptedIn[id] + SessionsRetained) PROVE FALSE
  OBVIOUS
<1>1. PICK b \in Int : ArmedAt(b) /\ AcceptedBefore(b)
  BY DEF CalendarInv
<1> DEFINE c == b - 1
           i == b - (live - acceptedIn[id])
           j == c - SessionsRetained
<1>2. live \in Nat /\ acceptedIn[id] \in Nat /\ SessionsRetained \in Nat
  BY DedupWindowAssumption DEF WindowInv, Chain, Written
<1>3. c \in Int /\ i \in Int /\ j \in Int /\ (i = j \/ i < j)
  BY <1>2
<1>4. processed[id] \in Nat /\ processed[id] <= Boundary(i) /\ Boundary(c) <= now /\ now \in Nat
  BY <1>1 DEF ArmedAt, AcceptedBefore, CalendarInv
<1>5. Horizon \in Int /\ Horizon <= Boundary(c) - Boundary(j)
  BY <1>3, HorizonIsCovered
<1> HIDE DEF c, i, j
<1>6. Boundary(c) \in Int /\ Boundary(i) \in Int /\ Boundary(j) \in Int
      /\ (i = j \/ Boundary(i) < Boundary(j))
  BY <1>3, BoundaryInt, BoundaryRises
<1>7. processed[id] <= Boundary(j)
  BY <1>4, <1>6
<1> QED
  BY <1>4, <1>5, <1>6, <1>7

\* OwnKnownForTheHorizon, always: whatever the session starts and the number retained,
\* however many rotations fail, and wherever in a session an identifier was accepted, the
\* process that accepted it knows it for the worst coverage of the sessions retained
\* (RotationSchedule.minimumCoverage: "The shortest span retained generations are
\* guaranteed to cover, which is the deduplication horizon").
THEOREM KnownForTheHorizonByItsOwn == Spec => []OwnKnownForTheHorizon
<1>1. Init => WindowInv /\ CalendarInv
  BY WindowInit, CalendarInit
<1>2. WindowInv /\ CalendarInv /\ [Next]_vars => (WindowInv /\ CalendarInv)'
  BY WindowStep, CalendarStep
<1>3. WindowInv /\ CalendarInv => OwnKnownForTheHorizon
  BY ChainIsConsulted, HorizonFromRotations DEF OwnKnownForTheHorizon, KnownWhileRetained
<1> QED
  BY <1>1, <1>2, <1>3, PTL DEF Spec
=============================================================================
