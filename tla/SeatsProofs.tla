---------------------------- MODULE SeatsProofs -----------------------------
(***************************************************************************)
(* What the walk round the table finds, for any number of seats.           *)
(***************************************************************************)
EXTENDS Seats, NaturalsInduction, WellFoundedInduction, TLAPS

\* Walking round the table from a seat meets every seat within N steps.
LEMMA WalkMeetsEverySeat ==
    ASSUME NEW from \in Seat, NEW p \in Seat
    PROVE  \E k \in 1 .. N : (from + k) % N = p
  <1>1. CASE p > from
    <2>1. p - from \in 1 .. N /\ (from + (p - from)) % N = p
      BY <1>1, SeatsAssumption DEF Seat
    <2> QED  BY <2>1
  <1>2. CASE p <= from
    <2>1. p - from + N \in 1 .. N
      BY <1>2, SeatsAssumption DEF Seat
    <2>2. from + (p - from + N) = p + N
      BY <1>2, SeatsAssumption DEF Seat
    <2>3. (p + N) % N = p
      BY SeatsAssumption DEF Seat
    <2> QED  BY <2>1, <2>2, <2>3
  <1> QED  BY <1>1, <1>2, SeatsAssumption DEF Seat

\* A nonempty set of naturals has a least member.
LEMMA SmallestMember ==
    ASSUME NEW K, K \subseteq Nat, K # {}
    PROVE  \E k \in K : \A j \in K : k <= j
  <1>1. PICK m \in K : \A j \in K : ~(<<j, m>> \in OpToRel(<, Nat))
    BY NatLessThanWellFounded, WFMin, Zenon
  <1>2. ASSUME NEW j \in K PROVE ~(j < m)
    <2>1. j \in Nat /\ m \in Nat
      OBVIOUS
    <2> QED  BY <1>1, <2>1, Zenon DEF OpToRel
  <1>3. \A j \in K : m <= j
    BY <1>2
  <1> QED  BY <1>3

\* FirstAfter finds a member of S whenever S has one.
LEMMA FirstAfterInSet ==
    ASSUME NEW from \in Seat, NEW S \in SUBSET Seat, S # {}
    PROVE  FirstAfter(from, S) \in S
  <1> DEFINE K == {k \in 1 .. N : ((from + k) % N) \in S}
  <1>1. K # {} /\ K \subseteq Nat
    BY WalkMeetsEverySeat, SeatsAssumption
  <1>2. PICK k \in K : \A j \in K : k <= j
    BY <1>1, SmallestMember
  <1>3. /\ k \in 1 .. N
        /\ ((from + k) % N) \in S
        /\ \A j \in 1 .. N : ((from + j) % N) \in S => k <= j
    BY <1>2
  <1> QED  BY <1>3 DEF FirstAfter
-----------------------------------------------------------------------------
(***************************************************************************)
(* The walk in terms of distances, without a remainder.                    *)
(***************************************************************************)

\* How many steps the walk from one seat takes to reach another; a whole round
\* for the seat it starts from.
Ahead(from, q) == IF q > from THEN q - from ELSE q - from + N

\* The remainder of a number below 2N takes at most one subtraction.
LEMMA OneSubtraction ==
    ASSUME NEW a \in 0 .. (2 * N - 1)
    PROVE  a % N = (IF a < N THEN a ELSE a - N)
  <1>1. N \in Nat /\ N > 0 /\ a \in Nat
    BY SeatsAssumption
  <1>2. CASE a < N
    BY <1>1, <1>2
  <1>3. CASE a >= N
    <2>1. a - N \in 0 .. (N - 1)
      BY <1>1, <1>3
    <2>2. a = 1 * N + (a - N)
      BY <1>1
    <2> QED  BY <1>1, <1>3, <2>1, <2>2
  <1> QED  BY <1>1, <1>2, <1>3

\* A seat is reached after exactly that many steps.
LEMMA StepsAhead ==
    ASSUME NEW from \in Seat, NEW q \in Seat
    PROVE  /\ Ahead(from, q) \in 1 .. N
           /\ \A k \in 1 .. N : (from + k) % N = q <=> k = Ahead(from, q)
  <1>1. N \in Nat /\ N >= 2 /\ from \in 0 .. (N - 1) /\ q \in 0 .. (N - 1)
    BY SeatsAssumption DEF Seat
  <1>2. Ahead(from, q) \in 1 .. N
    BY <1>1 DEF Ahead
  <1>3. ASSUME NEW k \in 1 .. N
        PROVE  (from + k) % N = q <=> k = Ahead(from, q)
    <2> DEFINE a == from + k
    <2>1. a \in 0 .. (2 * N - 1)
      BY <1>1
    <2> HIDE DEF a
    <2>2. a % N = (IF a < N THEN a ELSE a - N)
      BY <2>1, OneSubtraction
    <2> QED  BY <1>1, <2>2 DEF Ahead, a
  <1> QED  BY <1>2, <1>3

\* FirstAfter finds the nearest member of S.
LEMMA FirstAfterIsNearest ==
    ASSUME NEW from \in Seat, NEW S \in SUBSET Seat, S # {}
    PROVE  /\ FirstAfter(from, S) \in S
           /\ \A q \in S : Ahead(from, FirstAfter(from, S)) <= Ahead(from, q)
  <1> DEFINE K == {k \in 1 .. N : ((from + k) % N) \in S}
             P(k) == /\ ((from + k) % N) \in S
                     /\ \A j \in 1 .. N : ((from + j) % N) \in S => k <= j
             c == CHOOSE k \in 1 .. N : P(k)
  <1>1. K # {} /\ K \subseteq Nat
    BY WalkMeetsEverySeat, SeatsAssumption
  <1>2. PICK k \in K : \A j \in K : k <= j
    BY <1>1, SmallestMember
  <1>3. k \in 1 .. N /\ P(k)
    BY <1>2
  <1>4. c \in 1 .. N /\ P(c)
    BY <1>3
  <1>5. FirstAfter(from, S) = (from + c) % N
    BY DEF FirstAfter
  <1> HIDE DEF c
  <1>6. (from + c) % N \in S /\ (from + c) % N \in Seat
    BY <1>4
  <1>7. c = Ahead(from, FirstAfter(from, S))
    BY <1>4, <1>5, <1>6, StepsAhead
  <1>8. ASSUME NEW q \in S PROVE Ahead(from, FirstAfter(from, S)) <= Ahead(from, q)
    <2>1. Ahead(from, q) \in 1 .. N /\ (from + Ahead(from, q)) % N = q
      BY StepsAhead
    <2> QED  BY <1>4, <1>7, <2>1
  <1> QED  BY <1>5, <1>6, <1>8

\* There is only one nearest member.
LEMMA NearestIsFirstAfter ==
    ASSUME NEW from \in Seat, NEW S \in SUBSET Seat, NEW w \in S,
           \A q \in S : Ahead(from, w) <= Ahead(from, q)
    PROVE  FirstAfter(from, S) = w
  <1> DEFINE f == FirstAfter(from, S)
  <1>1. f \in S /\ Ahead(from, f) <= Ahead(from, w)
    BY FirstAfterIsNearest
  <1>2. f \in Seat /\ w \in Seat
    BY <1>1
  <1>3. Ahead(from, w) <= Ahead(from, f)
    BY <1>1
  <1> HIDE DEF f
  <1>4. f = w
    BY <1>1, <1>2, <1>3, SeatsAssumption DEF Ahead, Seat
  <1> QED  BY <1>4 DEF f

\* Taking another seat out of S does not change what the walk finds.
LEMMA FirstAfterSparing ==
    ASSUME NEW from \in Seat, NEW S \in SUBSET Seat, S # {},
           NEW p, p # FirstAfter(from, S)
    PROVE  FirstAfter(from, S \ {p}) = FirstAfter(from, S)
  <1> DEFINE f == FirstAfter(from, S)
             T == S \ {p}
  <1>1. f \in S /\ \A q \in S : Ahead(from, f) <= Ahead(from, q)
    BY FirstAfterIsNearest
  <1>2. T \in SUBSET Seat /\ f \in T /\ \A q \in T : Ahead(from, f) <= Ahead(from, q)
    BY <1>1
  <1> HIDE DEF f, T
  <1>3. FirstAfter(from, T) = f
    BY <1>2, NearestIsFirstAfter
  <1> QED  BY <1>3 DEF f, T

\* When the seat the walk finds is taken out of S, the walk goes on from there.
LEMMA FirstAfterRemoval ==
    ASSUME NEW from \in Seat, NEW S \in SUBSET Seat, NEW p \in S,
           p = FirstAfter(from, S), S \ {p} # {}
    PROVE  FirstAfter(from, S \ {p}) = FirstAfter(p, S \ {p})
  <1> DEFINE T == S \ {p}
             g == FirstAfter(p, T)
  <1>1. p \in Seat /\ T \in SUBSET Seat /\ T # {} /\ p \notin T
    OBVIOUS
  <1>2. \A q \in T : q \in Seat /\ q # p /\ Ahead(from, p) <= Ahead(from, q)
    BY <1>1, FirstAfterIsNearest
  <1> HIDE DEF T
  <1>3. g \in T /\ \A q \in T : Ahead(p, g) <= Ahead(p, q)
    BY <1>1, FirstAfterIsNearest
  <1> HIDE DEF g
  <1>4. ASSUME NEW q \in T PROVE Ahead(from, g) <= Ahead(from, q)
    <2>1. g \in Seat /\ q \in Seat /\ g # p /\ q # p
      BY <1>2, <1>3
    <2>2. Ahead(from, p) <= Ahead(from, q) /\ Ahead(from, p) <= Ahead(from, g)
          /\ Ahead(p, g) <= Ahead(p, q)
      BY <1>2, <1>3
    <2> QED  BY <1>1, <2>1, <2>2, SeatsAssumption DEF Ahead, Seat
  <1>5. FirstAfter(from, T) = g
    BY <1>1, <1>3, <1>4, NearestIsFirstAfter
  <1> QED  BY <1>5 DEF g, T

\* The seat before a seat.
LEMMA SeatBefore ==
    ASSUME NEW q \in Seat
    PROVE  /\ (q + N - 1) % N \in Seat
           /\ (q + N - 1) % N = (IF q = 0 THEN N - 1 ELSE q - 1)
  <1>1. N \in Nat /\ N >= 2 /\ q \in 0 .. (N - 1)
    BY SeatsAssumption DEF Seat
  <1> DEFINE a == q + N - 1
  <1>2. a \in 0 .. (2 * N - 1)
    BY <1>1
  <1> HIDE DEF a
  <1>3. a % N = (IF a < N THEN a ELSE a - N)
    BY <1>2, OneSubtraction
  <1> QED  BY <1>1, <1>3 DEF Seat, a

\* The seat after a seat.
LEMMA SeatAfter ==
    ASSUME NEW q \in Seat
    PROVE  /\ (q + 1) % N \in Seat
           /\ (q + 1) % N = (IF q = N - 1 THEN 0 ELSE q + 1)
  <1>1. N \in Nat /\ N >= 2 /\ q \in 0 .. (N - 1)
    BY SeatsAssumption DEF Seat
  <1> DEFINE a == q + 1
  <1>2. a \in 0 .. (2 * N - 1)
    BY <1>1
  <1> HIDE DEF a
  <1>3. a % N = (IF a < N THEN a ELSE a - N)
    BY <1>2, OneSubtraction
  <1> QED  BY <1>1, <1>3 DEF Seat, a
=============================================================================
