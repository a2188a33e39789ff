----------------------------- MODULE GameProofs -----------------------------
(***************************************************************************)
(* For every size of the arena, of its platforms and of their buffer that  *)
(* satisfies FlightAssumption, the ring of platforms is an endless flight  *)
(* of stairs (THEOREM FlightImplemented), and the removal loop, which does *)
(* not test the end of the ring, stops inside of it (THEOREM               *)
(* RemovalStaysInTheRing).                                                 *)
(*                                                                         *)
(* The inductive invariant FlightOK bounds the number of platforms from    *)
(* above, by their distances, and the gap under the last one, so that one  *)
(* is generated in time.  Of the ball it says that it moves, or is where   *)
(* reset_game put it, above all platforms: a ball that moves leaves every  *)
(* platform after so many turns of ball_reverse_to_collision               *)
(* (LeavesThePlatform), so that no loop of the game runs for ever (THEOREM *)
(* GameIsNeverStuck).                                                      *)
(***************************************************************************)
EXTENDS Game, DataLemmas, SequenceTheorems, WellFoundedInduction, TLAPS

N == MAX_PLATFORM_NR

-----------------------------------------------------------------------------
(* Numbers *)

\* The constants, and what is computed from them, are numbers.
LEMMA Sizes ==
    /\ ARENA_HEIGHT \in Nat /\ ARENA_HEIGHT > 0
    /\ ARENA_WIDTH \in Nat /\ BALL_RADIUS \in Nat /\ Diameter \in Nat
    /\ PLATFORM_HEIGHT \in Nat /\ PLATFORM_HEIGHT > 0 /\ PLATFORM_WIDTH \in Nat
    /\ N \in Nat /\ N > 0
    /\ MIN_PLATFORM_Y_DISTANCE \in Nat /\ MIN_PLATFORM_Y_DISTANCE > 0
    /\ MAX_PLATFORM_Y_DISTANCE \in Nat /\ MAX_PLATFORM_Y_DISTANCE > 0
    /\ ArenaSpeed \in Nat /\ ArenaSpeed > 0
    /\ PlatformX \subseteq Nat /\ ARENA_WIDTH > PLATFORM_WIDTH
    /\ FirstY \in Nat
  <1>1. \A c \in {ARENA_HEIGHT, ARENA_WIDTH, BALL_RADIUS, PLATFORM_HEIGHT,
                  PLATFORM_WIDTH, N, MIN_PLATFORM_Y_DISTANCE,
                  MAX_PLATFORM_Y_DISTANCE, ArenaSpeed} : c \in Nat /\ c > 0
    BY SizeAssumption DEF N
  <1>2. PlatformX \subseteq Nat /\ ARENA_WIDTH > PLATFORM_WIDTH
    <2>1. PICK x \in PlatformX : x \in 0..(ARENA_WIDTH - PLATFORM_WIDTH - 1)
      BY SizeAssumption, Zenon
    <2>2. ARENA_WIDTH > PLATFORM_WIDTH
      BY <1>1, <2>1
    <2>3. 0..(ARENA_WIDTH - PLATFORM_WIDTH - 1) \subseteq Nat
      BY <1>1
    <2> QED
      BY <2>2, <2>3, SizeAssumption, Zenon
  <1>3. Diameter \in Nat
    BY <1>1 DEF Diameter
  <1>4. FirstY \in Nat
    BY <1>1, <1>3 DEF FirstY
  <1> QED
    BY <1>1, <1>2, <1>3, <1>4

\* A set of numbers that is not empty has a least element.
LEMMA MinExists ==
    ASSUME NEW S \in SUBSET Nat, S # {}
    PROVE  Min(S) \in S /\ \A i \in S : Min(S) <= i
  <1> DEFINE R == OpToRel(<, Nat)
  <1>1. IsWellFoundedOn(R, Nat)
    BY NatLessThanWellFounded
  <1>2. \A i, j \in Nat : i < j => <<i, j>> \in R
    BY DEF OpToRel
  <1> HIDE DEF R
  <1>3. PICK m \in S : \A i \in S : ~(<<i, m>> \in R)
    BY <1>1, WFMin, Zenon
  <1>4. \A i \in S : m <= i
    <2> TAKE i \in S
    <2>1. ~(i < m)
      BY <1>2, <1>3, Zenon
    <2> QED
      BY <2>1
  <1> QED
    BY <1>4 DEF Min

\* A slot of the ring, k slots further on.
LEMMA WrapUp ==
    \A a, k \in Slots : (a + k) % N = IF a + k < N THEN a + k ELSE a + k - N
  BY Sizes DEF Slots, N

\* The number of slots from k to a.
LEMMA WrapDown ==
    \A a, k \in Slots : (a - k) % N = IF a >= k THEN a - k ELSE a - k + N
  BY Sizes DEF Slots, N

\* The slot after e.
LEMMA WrapNext ==
    \A e \in Slots : (e + 1) % N = IF e + 1 < N THEN e + 1 ELSE 0
  BY Sizes DEF Slots, N

\* What a quotient is.
LEMMA QuotientBounds ==
    \A a \in Nat, d \in Nat \ {0} :
      a \div d \in Nat /\ (a \div d) * d <= a /\ a < ((a \div d) + 1) * d
  OBVIOUS

\* Products with a sum, for the multiples of the minimal distance.
LEMMA Distribute ==
    \A i, j, m \in Int : (i + j) * m = i * m + j * m
  OBVIOUS

\* A multiple of a positive number is not below its factor.
LEMMA FactorGrows ==
    \A i \in Nat, m \in Nat \ {0} : i <= i * m
  OBVIOUS

\* Multiples of the same number are ordered as their factors are.
LEMMA CancelFactor ==
    \A i, j \in Int, m \in Nat \ {0} : i * m < j * m => i < j
  OBVIOUS

-----------------------------------------------------------------------------
(* The ring *)

\* Platforms leave at the beginning of the ring.
LEMMA RingDrop ==
    ASSUME NEW b \in Slots, NEW e \in Slots, NEW k \in 0..(((e - b) % N) - 1)
    PROVE  LET c == (b + k) % N
           IN /\ c \in Slots
              /\ (e - c) % N = ((e - b) % N) - k
              /\ \A i \in 0..(((e - b) % N) - k - 1) : (c + i) % N = (b + (k + i)) % N
  <1> DEFINE n == (e - b) % N
             c == (b + k) % N
  <1>1. n \in Slots /\ n = IF e >= b THEN e - b ELSE e - b + N
    BY WrapDown, Sizes DEF Slots, N
  <1>2. k \in Slots /\ k < n
    BY <1>1, Sizes DEF Slots, N
  <1>3. c = IF b + k < N THEN b + k ELSE b + k - N
    BY <1>2, WrapUp
  <1> HIDE DEF n, c
  <1>4. c \in Slots
    BY <1>2, <1>3, Sizes DEF Slots, N
  <1>5. (e - c) % N = n - k
    <2>1. (e - c) % N = IF e >= c THEN e - c ELSE e - c + N
      BY <1>4, WrapDown
    <2> QED
      BY <2>1, <1>1, <1>2, <1>3, <1>4, Sizes DEF Slots, N
  <1>6. \A i \in 0..(n - k - 1) : (c + i) % N = (b + (k + i)) % N
    <2> TAKE i \in 0..(n - k - 1)
    <2>1. i \in Slots /\ k + i \in Slots
      BY <1>1, <1>2, Sizes DEF Slots, N
    <2>2. /\ (c + i) % N = IF c + i < N THEN c + i ELSE c + i - N
          /\ (b + (k + i)) % N = IF b + (k + i) < N THEN b + (k + i) ELSE b + (k + i) - N
      BY <2>1, <1>4, WrapUp
    <2> QED
      BY <2>1, <2>2, <1>1, <1>2, <1>3, <1>4, Sizes DEF Slots, N
  <1> QED
    BY <1>4, <1>5, <1>6 DEF n, c

\* A platform comes to the end of the ring.
LEMMA RingAppend ==
    ASSUME NEW b \in Slots, NEW e \in Slots, (e + 1) % N # b
    PROVE  /\ (e + 1) % N \in Slots
           /\ (((e + 1) % N) - b) % N = ((e - b) % N) + 1
           /\ (b + ((e - b) % N)) % N = e
           /\ \A i \in 0..(((e - b) % N) - 1) : (b + i) % N # e
  <1> DEFINE n == (e - b) % N
             f == (e + 1) % N
  <1>1. n \in Slots /\ n = IF e >= b THEN e - b ELSE e - b + N
    BY WrapDown, Sizes DEF Slots, N
  <1>2. f = IF e + 1 < N THEN e + 1 ELSE 0
    BY WrapNext
  <1>3. f \in Slots /\ f # b
    BY <1>2, Sizes DEF Slots, N
  <1> HIDE DEF n, f
  <1>4. (f - b) % N = n + 1
    <2>1. (f - b) % N = IF f >= b THEN f - b ELSE f - b + N
      BY <1>3, WrapDown
    <2> QED
      BY <2>1, <1>1, <1>2, <1>3, Sizes DEF Slots, N
  <1>5. (b + n) % N = e
    <2>1. (b + n) % N = IF b + n < N THEN b + n ELSE b + n - N
      BY <1>1, WrapUp
    <2> QED
      BY <2>1, <1>1, Sizes DEF Slots, N
  <1>6. \A i \in 0..(n - 1) : (b + i) % N # e
    <2> TAKE i \in 0..(n - 1)
    <2>1. i \in Slots
      BY <1>1, Sizes DEF Slots, N
    <2>2. (b + i) % N = IF b + i < N THEN b + i ELSE b + i - N
      BY <2>1, WrapUp
    <2> QED
      BY <2>1, <2>2, <1>1, Sizes DEF Slots, N
  <1> QED
    BY <1>3, <1>4, <1>5, <1>6 DEF n, f

\* One slot stays free.
LEMMA RingNotFull ==
    ASSUME NEW b \in Slots, NEW e \in Slots, ((e - b) % N) + 2 <= N
    PROVE  (e + 1) % N # b
  <1>1. (e - b) % N = IF e >= b THEN e - b ELSE e - b + N
    BY WrapDown
  <1>2. (e + 1) % N = IF e + 1 < N THEN e + 1 ELSE 0
    BY WrapNext
  <1> QED
    BY <1>1, <1>2, Sizes DEF Slots, N

-----------------------------------------------------------------------------
(* The flight of stairs in a ring *)

Stair(p, b, i) == p[(b + i) % N].y

\* No two of the first n platforms are too close to each other.
Spaced(p, b, n) == \A i, j \in 0..(n - 1) :
    i <= j => (j - i) * MIN_PLATFORM_Y_DISTANCE <= Stair(p, b, j) - Stair(p, b, i)

\* Each is in reach of the one before it.
InReach(p, b, n) == \A i \in 0..(n - 2) : Stair(p, b, i + 1) - Stair(p, b, i) <= MaxGap

\* The flight in the slots from b to e, whose last platform is at last, in an
\* arena that begins at top.
GoodFlight(p, b, e, last, top) ==
    LET n == (e - b) % N
    IN /\ n >= 1
       /\ Stair(p, b, n - 1) = last
       /\ Spaced(p, b, n)
       /\ InReach(p, b, n)
       /\ Stair(p, b, 0) + PLATFORM_HEIGHT >= top
       /\ last <= top + ARENA_HEIGHT

FlightOK ==
    /\ GoodFlight(platforms, platform_begin, platform_end, last_platform_y, arena_y)
    /\ arena_y + ARENA_HEIGHT - last_platform_y < MAX_PLATFORM_Y_DISTANCE

Buffer == [Slots -> [x : Nat, y : Nat]]

RingTyped ==
    /\ arena_y \in Nat
    /\ platforms \in Buffer
    /\ platform_begin \in Slots /\ platform_end \in Slots
    /\ last_platform_y \in Nat

RingInv ==
    /\ RingTyped
    /\ pc \in {"reset", "update", "input", "check", "exit", "loop"}
    /\ pc # "reset" => FlightOK

\* The first k platforms of a flight leave, the next one stays, and the top of
\* the arena moves to t.
LEMMA FlightDrop ==
    ASSUME NEW p \in Buffer, NEW b \in Slots, NEW e \in Slots, NEW last \in Nat,
           NEW top \in Nat, NEW t \in Nat, t >= top,
           GoodFlight(p, b, e, last, top),
           NEW k \in 0..(((e - b) % N) - 1),
           Stair(p, b, k) + PLATFORM_HEIGHT >= t
    PROVE  GoodFlight(p, (b + k) % N, e, last, t)
  <1> DEFINE n == (e - b) % N
             c == (b + k) % N
             m == (e - c) % N
  <1>1. n \in Nat /\ n >= 1 /\ k \in 0..(n - 1)
    BY WrapDown, Sizes DEF Slots, N
  <1>2. /\ c \in Slots
        /\ m = n - k
        /\ \A i \in 0..(n - k - 1) : (c + i) % N = (b + (k + i)) % N
    BY RingDrop, Zenon
  <1>3. /\ Stair(p, b, n - 1) = last
        /\ Spaced(p, b, n)
        /\ InReach(p, b, n)
        /\ last <= top + ARENA_HEIGHT
    BY DEF GoodFlight
  <1> HIDE DEF n, c, m
  <1>4. \A i \in 0..(m - 1) : Stair(p, c, i) = Stair(p, b, k + i)
    BY <1>2 DEF Stair
  <1>5. m >= 1
    BY <1>1, <1>2
  <1>6. Stair(p, c, m - 1) = last
    <2>1. m - 1 \in 0..(m - 1) /\ k + (m - 1) = n - 1
      BY <1>1, <1>2, <1>5
    <2> QED
      BY <2>1, <1>3, <1>4
  <1>7. Spaced(p, c, m)
    <2> SUFFICES ASSUME NEW i \in 0..(m - 1), NEW j \in 0..(m - 1), i <= j
                 PROVE  (j - i) * MIN_PLATFORM_Y_DISTANCE <= Stair(p, c, j) - Stair(p, c, i)
      BY DEF Spaced
    <2>1. /\ k + i \in 0..(n - 1) /\ k + j \in 0..(n - 1)
          /\ k + i <= k + j /\ (k + j) - (k + i) = j - i
      BY <1>1, <1>2
    <2>2. ((k + j) - (k + i)) * MIN_PLATFORM_Y_DISTANCE
            <= Stair(p, b, k + j) - Stair(p, b, k + i)
      BY <2>1, <1>3, Zenon DEF Spaced
    <2> QED
      BY <2>1, <2>2, <1>4
  <1>8. InReach(p, c, m)
    <2> SUFFICES ASSUME NEW i \in 0..(m - 2)
                 PROVE  Stair(p, c, i + 1) - Stair(p, c, i) <= MaxGap
      BY DEF InReach
    <2>1. /\ k + i \in 0..(n - 2) /\ k + (i + 1) = (k + i) + 1
          /\ i \in 0..(m - 1) /\ i + 1 \in 0..(m - 1)
      BY <1>1, <1>2
    <2>2. Stair(p, b, (k + i) + 1) - Stair(p, b, k + i) <= MaxGap
      BY <2>1, <1>3, Zenon DEF InReach
    <2> QED
      BY <2>1, <2>2, <1>4
  <1>9. Stair(p, c, 0) + PLATFORM_HEIGHT >= t
    <2>1. 0 \in 0..(m - 1) /\ k + 0 = k
      BY <1>1, <1>5, <1>2
    <2> QED
      BY <2>1, <1>4
  <1>10. last <= t + ARENA_HEIGHT
    BY <1>3, Sizes
  <1> QED
    BY <1>5, <1>6, <1>7, <1>8, <1>9, <1>10 DEF GoodFlight, m, c

\* A flight whose last platform is not near the bottom of the arena leaves a
\* slot free.
LEMMA FlightShort ==
    ASSUME NEW p \in Buffer, NEW b \in Slots, NEW e \in Slots, NEW last \in Nat,
           NEW top \in Nat,
           GoodFlight(p, b, e, last, top),
           last + MIN_PLATFORM_Y_DISTANCE <= top + ARENA_HEIGHT
    PROVE  (e + 1) % N # b
  <1> DEFINE n == (e - b) % N
             D == MIN_PLATFORM_Y_DISTANCE
             first == Stair(p, b, 0)
  <1>1. n \in Nat /\ n >= 1
    BY WrapDown, Sizes DEF Slots, N, GoodFlight
  <1>2. /\ Stair(p, b, n - 1) = last
        /\ Spaced(p, b, n)
        /\ first + PLATFORM_HEIGHT >= top
    BY DEF GoodFlight
  <1>3. first \in Nat
    <2>1. (b + 0) % N \in Slots
      BY WrapUp, Sizes DEF Slots, N
    <2> QED
      BY <2>1 DEF Buffer, Stair
  <1> HIDE DEF n, first
  <1>4. (n - 1) * D <= last - first
    <2>1. 0 \in 0..(n - 1) /\ n - 1 \in 0..(n - 1) /\ 0 <= n - 1 /\ (n - 1) - 0 = n - 1
      BY <1>1
    <2>2. ((n - 1) - 0) * D <= Stair(p, b, n - 1) - Stair(p, b, 0)
      BY <2>1, <1>2, Zenon DEF Spaced
    <2> QED
      BY <2>1, <2>2, <1>2 DEF first
  <1>5. ARENA_HEIGHT + PLATFORM_HEIGHT < (N - 1) * D
    BY FlightAssumption DEF N
  <1>6. (N - 1) * D = (N - 2) * D + 1 * D
    <2>1. (N - 2) + 1 = N - 1 /\ N - 2 \in Int /\ D \in Int
      BY Sizes
    <2> QED
      BY <2>1, Distribute
  <1>7. D \in Nat \ {0} /\ 1 * D = D /\ (n - 1) * D \in Int /\ (N - 2) * D \in Int
    BY Sizes, <1>1
  <1> DEFINE a == (n - 1) * D
             z == (N - 2) * D
  <1>8. a < z
    <2>1. a <= last - first /\ ARENA_HEIGHT + PLATFORM_HEIGHT < z + D
      BY <1>4, <1>5, <1>6, <1>7
    <2>2. a \in Int /\ z \in Int
      BY <1>7
    <2> HIDE DEF a, z
    <2> QED
      BY <2>1, <2>2, <1>2, <1>3, Sizes
  <1>9. n - 1 < N - 2
    BY <1>1, <1>7, <1>8, CancelFactor, Sizes
  <1> QED
    BY <1>1, <1>9, RingNotFull, Sizes DEF n

\* A platform comes to the bottom of the arena, in reach of the last one.
LEMMA FlightAppend ==
    ASSUME NEW p \in Buffer, NEW b \in Slots, NEW e \in Slots, NEW last \in Nat,
           NEW top \in Nat, NEW y \in Nat, NEW q \in Buffer,
           y <= top + ARENA_HEIGHT,
           q[e].y = y, \A i \in Slots : i # e => q[i] = p[i],
           GoodFlight(p, b, e, last, top),
           last + MIN_PLATFORM_Y_DISTANCE <= y,
           y - last <= MaxGap
    PROVE  /\ GoodFlight(q, b, (e + 1) % N, y, top)
           /\ (e + 1) % N \in Slots
           /\ (((e + 1) % N) - b) % N = ((e - b) % N) + 1
           /\ \A i \in 0..(((e - b) % N) - 1) : Stair(q, b, i) = Stair(p, b, i)
           /\ Stair(q, b, (e - b) % N) = y
  <1> DEFINE n == (e - b) % N
             D == MIN_PLATFORM_Y_DISTANCE
             f == (e + 1) % N
  <1>1. n \in Nat /\ n >= 1 /\ n < N
    BY WrapDown, Sizes DEF Slots, N, GoodFlight
  <1>2. /\ Stair(p, b, n - 1) = last
        /\ Spaced(p, b, n)
        /\ InReach(p, b, n)
        /\ Stair(p, b, 0) + PLATFORM_HEIGHT >= top
    BY DEF GoodFlight
  <1>3. f # b
    <2>1. last + D <= top + ARENA_HEIGHT
      BY Sizes
    <2> QED
      BY <2>1, FlightShort, Zenon
  <1>4. /\ f \in Slots
        /\ (f - b) % N = n + 1
        /\ (b + n) % N = e
        /\ \A i \in 0..(n - 1) : (b + i) % N # e
    BY <1>3, RingAppend, Zenon
  <1>5. y \in Nat /\ y - last <= MaxGap /\ D <= y - last /\ D \in Nat /\ MaxGap \in Int
    BY Sizes DEF MaxGap
  <1> HIDE DEF n, f
  <1>7. \A i \in 0..(n - 1) : (b + i) % N \in Slots /\ Stair(p, b, i) \in Nat
    <2> TAKE i \in 0..(n - 1)
    <2>1. i \in Slots
      BY <1>1, Sizes DEF Slots, N
    <2>2. (b + i) % N \in Slots
      BY <2>1, WrapUp, Sizes DEF Slots, N
    <2> QED
      BY <2>2 DEF Stair, Buffer
  <1>8. \A i \in 0..(n - 1) : Stair(q, b, i) = Stair(p, b, i)
    BY <1>4, <1>7 DEF Stair, Buffer
  <1>9. Stair(q, b, n) = y
    BY <1>4 DEF Stair, Buffer
  <1>10. Spaced(q, b, n + 1)
    <2> SUFFICES ASSUME NEW i \in 0..n, NEW j \in 0..n, i <= j
                 PROVE  (j - i) * D <= Stair(q, b, j) - Stair(q, b, i)
      BY <1>1 DEF Spaced
    <2>1. CASE j < n
      <3>1. i \in 0..(n - 1) /\ j \in 0..(n - 1)
        BY <2>1, <1>1
      <3> QED
        BY <3>1, <1>2, <1>8, Zenon DEF Spaced
    <2>2. CASE i = n
      <3>1. j = n /\ (j - i) * D = 0
        BY <2>2, <1>1, <1>5
      <3> QED
        BY <3>1, <2>2, <1>5, <1>9
    <2>3. CASE j = n /\ i < n
      <3>1. i \in 0..(n - 1) /\ n - 1 \in 0..(n - 1) /\ i <= n - 1
        BY <2>3, <1>1
      <3>2. ((n - 1) - i) * D <= last - Stair(p, b, i)
        BY <3>1, <1>2, Zenon DEF Spaced
      <3>3. (j - i) * D = ((n - 1) - i) * D + 1 * D
        <4> DEFINE h == (n - 1) - i
        <4>1. h + 1 = j - i /\ h \in Int /\ 1 \in Int /\ D \in Int
          BY <2>3, <1>1, <1>5
        <4> HIDE DEF h
        <4>2. (h + 1) * D = h * D + 1 * D
          BY <4>1, Distribute, Zenon
        <4>3. (j - i) * D = h * D + 1 * D
          BY <4>1, <4>2, Zenon
        <4> QED
          BY <4>3, Zenon DEF h
      <3>4. 1 * D = D /\ ((n - 1) - i) * D \in Int
        BY <1>1, <1>5
      <3> DEFINE g == ((n - 1) - i) * D
      <3>5. g \in Int /\ g <= last - Stair(p, b, i) /\ (j - i) * D = g + D
        BY <3>2, <3>3, <3>4
      <3> HIDE DEF g
      <3> QED
        BY <3>1, <3>5, <2>3, <1>5, <1>7, <1>8, <1>9
    <2> QED
      BY <2>1, <2>2, <2>3, <1>1
  <1>11. InReach(q, b, n + 1)
    <2> SUFFICES ASSUME NEW i \in 0..(n - 1)
                 PROVE  Stair(q, b, i + 1) - Stair(q, b, i) <= MaxGap
      BY <1>1 DEF InReach
    <2>1. CASE i < n - 1
      <3>1. i \in 0..(n - 2) /\ i + 1 \in 0..(n - 1)
        BY <2>1, <1>1
      <3> QED
        BY <3>1, <1>2, <1>8 DEF InReach
    <2>2. CASE i = n - 1
      <3>1. i + 1 = n
        BY <2>2, <1>1
      <3> QED
        BY <3>1, <2>2, <1>2, <1>5, <1>8, <1>9
    <2> QED
      BY <2>1, <2>2, <1>1
  <1>12. Stair(q, b, 0) + PLATFORM_HEIGHT >= top
    BY <1>1, <1>2, <1>8
  <1>13. GoodFlight(q, b, f, y, top)
    <2>1. n + 1 >= 1 /\ (n + 1) - 1 = n /\ y <= top + ARENA_HEIGHT
      BY <1>1, <1>5, Sizes
    <2> QED
      BY <2>1, <1>4, <1>9, <1>10, <1>11, <1>12 DEF GoodFlight
  <1> QED
    BY <1>4, <1>8, <1>9, <1>13 DEF n, f

-----------------------------------------------------------------------------
(* The heights of the stairs, as a sequence *)

StairsOf(p, b, e) == [i \in 1..((e - b) % N) |-> Stair(p, b, i - 1)]

\* The sequence of the refinement mapping is read from the slots in use.
LEMMA HeightsAreStairs ==
    /\ Heights = StairsOf(platforms, platform_begin, platform_end)
    /\ Heights' = StairsOf(platforms', platform_begin', platform_end')
  BY DEF Heights, StairsOf, Stair, Live, InUse, Slot, N

\* The number of slots in use, and where they are.
LEMMA SlotsWrap ==
    ASSUME NEW b \in Slots, NEW e \in Slots
    PROVE  /\ (e - b) % N \in Slots
           /\ \A i \in 0..(((e - b) % N) - 1) : (b + i) % N \in Slots
  <1>1. (e - b) % N \in Slots
    BY WrapDown, Sizes DEF Slots, N
  <1> DEFINE n == (e - b) % N
  <1> HIDE DEF n
  <1>2. ASSUME NEW i \in 0..(n - 1) PROVE (b + i) % N \in Slots
    <2>1. i \in Slots
      BY <1>1, Sizes DEF Slots, N, n
    <2> QED
      BY <2>1, WrapUp, Sizes DEF Slots, N
  <1> QED
    BY <1>1, <1>2 DEF n

\* A flight in the ring, read as a sequence: its length, its end and its gaps.
LEMMA StairsOfFlight ==
    ASSUME NEW p \in Buffer, NEW b \in Slots, NEW e \in Slots, NEW last, NEW top,
           GoodFlight(p, b, e, last, top)
    PROVE  LET s == StairsOf(p, b, e)
               n == (e - b) % N
           IN /\ n \in Nat /\ n >= 1
              /\ s \in Seq(Nat) /\ Len(s) = n
              /\ s[n] = last
              /\ \A i \in 1..(n - 1) :
                   s[i + 1] - s[i] \in MIN_PLATFORM_Y_DISTANCE..MaxGap
  <1> DEFINE s == StairsOf(p, b, e)
             n == (e - b) % N
  <1>1. n \in Nat /\ n >= 1
    BY SlotsWrap, Sizes DEF Slots, N, GoodFlight
  <1>2. /\ Stair(p, b, n - 1) = last
        /\ Spaced(p, b, n)
        /\ InReach(p, b, n)
    BY DEF GoodFlight
  <1>3. \A i \in 0..(n - 1) : Stair(p, b, i) \in Nat
    BY SlotsWrap DEF Stair, Buffer
  <1>4. s = [i \in 1..n |-> Stair(p, b, i - 1)]
    BY DEF StairsOf
  <1> HIDE DEF n, s
  <1>5. s \in [1..n -> Nat]
    <2>1. \A i \in 1..n : i - 1 \in 0..(n - 1)
      BY <1>1
    <2> QED
      BY <2>1, <1>3, <1>4, Zenon
  <1>6. s \in Seq(Nat) /\ Len(s) = n
    BY <1>1, <1>5
  <1>7. s[n] = last
    BY <1>1, <1>2, <1>4
  <1>8. ASSUME NEW i \in 1..(n - 1)
        PROVE  s[i + 1] - s[i] \in MIN_PLATFORM_Y_DISTANCE..MaxGap
    <2>1. /\ i - 1 \in 0..(n - 2) /\ (i - 1) + 1 = i
          /\ i - 1 \in 0..(n - 1) /\ i \in 0..(n - 1) /\ i - 1 <= i
          /\ i \in 1..n /\ i + 1 \in 1..n /\ (i + 1) - 1 = i
          /\ i - (i - 1) = 1
      BY <1>1
    <2>2. s[i + 1] = Stair(p, b, i) /\ s[i] = Stair(p, b, i - 1)
      BY <2>1, <1>4
    <2>3. Stair(p, b, i) - Stair(p, b, i - 1) <= MaxGap
      BY <2>1, <1>2, Zenon DEF InReach
    <2>4. (i - (i - 1)) * MIN_PLATFORM_Y_DISTANCE <= Stair(p, b, i) - Stair(p, b, i - 1)
      BY <2>1, <1>2, Zenon DEF Spaced
    <2>5. MIN_PLATFORM_Y_DISTANCE <= Stair(p, b, i) - Stair(p, b, i - 1)
      BY <2>1, <2>4, Sizes
    <2>6. Stair(p, b, i) \in Nat /\ Stair(p, b, i - 1) \in Nat
      BY <2>1, <1>3
    <2> QED
      BY <2>2, <2>3, <2>5, <2>6, Sizes DEF MaxGap
  <1> QED
    BY <1>1, <1>6, <1>7, <1>8 DEF n, s

-----------------------------------------------------------------------------
(* A new game *)

\* How many platforms reset_game adds below the first one.
LEMMA OthersFit ==
    /\ Others \in Nat /\ Others >= 1
    /\ Others + 1 < N /\ Others + 1 <= ARENA_HEIGHT
    /\ ResetY(Others) < ARENA_HEIGHT - PLATFORM_HEIGHT
    /\ ResetY(Others) + MIN_PLATFORM_Y_DISTANCE >= ARENA_HEIGHT - PLATFORM_HEIGHT
  <1> DEFINE D == MIN_PLATFORM_Y_DISTANCE
             a == ARENA_HEIGHT - PLATFORM_HEIGHT - 1 - FirstY
             m == a \div D
             w == m * D
             v == (m + 1) * D
  <1>1. D \in Nat \ {0} /\ 1 * D = D
    BY Sizes
  <1>2. a \in Nat /\ a >= D
    BY FlightAssumption, <1>1, Sizes DEF ResetY
  <1>3. m = Others
    BY DEF Others
  <1>4. m \in Nat /\ w <= a /\ a < v
    BY <1>1, <1>2, QuotientBounds
  <1>5. w \in Int /\ v = w + D
    BY <1>1, <1>4, Distribute
  <1>6. m <= w
    BY <1>1, <1>4, FactorGrows
  <1>7. m >= 1
    BY <1>1, <1>2, <1>4
  <1>8. m < N - 1
    <2>1. w < (N - 1) * D
      <3> DEFINE u == (N - 1) * D
      <3>1. u \in Int /\ ARENA_HEIGHT + PLATFORM_HEIGHT < u
        BY FlightAssumption, Sizes, <1>1 DEF N
      <3> HIDE DEF u, w, m
      <3>2. w < u
        BY <3>1, <1>2, <1>4, <1>5, Sizes
      <3> QED
        BY <3>2 DEF u
    <2> QED
      BY <2>1, <1>1, <1>4, CancelFactor, Sizes
  <1>9. ResetY(Others) = FirstY + w
    BY <1>3 DEF ResetY
  <1> HIDE DEF m, w, v
  <1>10. w <= ARENA_HEIGHT - PLATFORM_HEIGHT - 1 - FirstY
    BY <1>4
  <1>11. ARENA_HEIGHT - PLATFORM_HEIGHT - 1 - FirstY < w + D
    BY <1>4, <1>5
  <1> QED
    BY <1>1, <1>3, <1>4, <1>5, <1>6, <1>7, <1>8, <1>9, <1>10, <1>11, Sizes

\* reset_game sets up a flight, the last stair of which is near the bottom.
LEMMA ResetKeeps ==
    ASSUME RingTyped, ResetGame
    PROVE  RingInv' /\ FlightOK'
  <1> DEFINE D == MIN_PLATFORM_Y_DISTANCE
             p == platforms'
             e == platform_end'
  <1>1. /\ arena_y' = 0 /\ platform_begin' = 0
        /\ e = (Others + 1) % N
        /\ last_platform_y' = ResetY(Others)
        /\ pc' = "update"
    BY OthersFit DEF ResetGame, ResetLast, N
  <1>2. D \in Nat /\ 0 \in Slots /\ Others + 1 \in Slots /\ Others \in Slots
    BY OthersFit, Sizes DEF Slots, N
  <1>3. e = Others + 1
    BY <1>1, <1>2, OthersFit, Sizes, WrapUp DEF Slots, N
  <1>4. (e - 0) % N = Others + 1
    BY <1>2, <1>3, OthersFit, WrapDown
  <1>5. \A i \in Nat : ResetY(i) \in Nat
    BY Sizes DEF ResetY
  <1>6. ResetY(0) = FirstY
    BY Sizes DEF ResetY
  <1>7. p \in Buffer /\ \A i \in 0..Others : p[i].y = ResetY(i)
    <2>1. PICK xs \in [1..Others -> PlatformX] :
            p = [i \in Slots |->
                  IF i = 0 THEN [x |-> (ARENA_WIDTH - PLATFORM_WIDTH) \div 2, y |-> FirstY]
                  ELSE IF i <= Others THEN [x |-> xs[i], y |-> ResetY(i)]
                  ELSE platforms[i]]
      BY DEF ResetGame
    <2>2. (ARENA_WIDTH - PLATFORM_WIDTH) \div 2 \in Nat
      BY Sizes
    <2>3. \A i \in 1..Others : xs[i] \in Nat
      BY Sizes
    <2>4. platforms \in Buffer
      BY DEF RingTyped
    <2>5. ASSUME NEW i \in Slots PROVE p[i] \in [x : Nat, y : Nat]
      <3>1. i \in Nat /\ (i # 0 /\ i <= Others => i \in 1..Others)
        BY OthersFit, Sizes DEF Slots, N
      <3> QED
        BY <3>1, <2>1, <2>2, <2>3, <2>4, <1>5, Sizes DEF Buffer
    <2>6. p \in Buffer
      BY <2>1, <2>5, Zenon DEF Buffer
    <2>7. ASSUME NEW i \in 0..Others PROVE p[i].y = ResetY(i)
      <3>1. i \in Slots /\ i <= Others
        BY OthersFit, Sizes DEF Slots, N
      <3> QED
        BY <3>1, <2>1, <1>6
    <2> QED
      BY <2>6, <2>7
  <1>8. \A i \in 0..Others : Stair(p, 0, i) = ResetY(i)
    <2> TAKE i \in 0..Others
    <2>1. i \in Slots /\ i < N
      BY OthersFit, Sizes DEF Slots, N
    <2>2. (0 + i) % N = i
      BY <1>2, <2>1, WrapUp
    <2> QED
      BY <2>2, <1>7 DEF Stair
  <1> HIDE DEF p, e
  <1>9. Spaced(p, 0, Others + 1)
    <2> SUFFICES ASSUME NEW i \in 0..Others, NEW j \in 0..Others, i <= j
                 PROVE  (j - i) * D <= Stair(p, 0, j) - Stair(p, 0, i)
      BY OthersFit DEF Spaced
    <2> DEFINE h == j - i
               r == i * D
               t == h * D
    <2>1. h \in Nat /\ h + i = j /\ i \in Nat
      OBVIOUS
    <2> HIDE DEF h
    <2>2. (h + i) * D = t + r
      BY <2>1, <1>2, Distribute
    <2>3. r \in Int /\ t \in Int
      BY <2>1, <1>2
    <2>4. ResetY(i) = FirstY + r
      BY DEF ResetY
    <2>5. ResetY(j) = FirstY + (t + r)
      BY <2>1, <2>2 DEF ResetY
    <2> HIDE DEF r, t
    <2>6. t <= Stair(p, 0, j) - Stair(p, 0, i)
      BY <2>3, <2>4, <2>5, <1>8, Sizes
    <2> QED
      BY <2>6 DEF t, h
  <1>10. InReach(p, 0, Others + 1)
    <2> SUFFICES ASSUME NEW i \in 0..(Others - 1)
                 PROVE  Stair(p, 0, i + 1) - Stair(p, 0, i) <= MaxGap
      BY OthersFit DEF InReach
    <2>1. i \in 0..Others /\ i + 1 \in 0..Others
      BY OthersFit
    <2>2. ResetY(i + 1) = ResetY(i) + D
      <3>1. (i + 1) * D = i * D + 1 * D /\ 1 * D = D /\ i * D \in Int
        BY <1>2, Distribute
      <3> QED
        BY <3>1, Sizes DEF ResetY
    <2>3. D <= MaxGap
      BY FlightAssumption, Sizes DEF MaxGap
    <2>4. ResetY(i) \in Nat /\ MaxGap \in Int
      BY <1>5, Sizes DEF MaxGap
    <2> QED
      BY <2>1, <2>2, <2>3, <2>4, <1>2, <1>8
  <1>11. GoodFlight(p, 0, e, ResetY(Others), 0)
    <2>1. Others + 1 >= 1 /\ (Others + 1) - 1 = Others /\ Others \in 0..Others /\ 0 \in 0..Others
      BY OthersFit
    <2>2. Stair(p, 0, Others) = ResetY(Others) /\ Stair(p, 0, 0) + PLATFORM_HEIGHT >= 0
      BY <2>1, <1>6, <1>8, Sizes
    <2>3. ResetY(Others) <= 0 + ARENA_HEIGHT
      BY OthersFit, Sizes, <1>5
    <2> QED
      BY <2>1, <2>2, <2>3, <1>4, <1>9, <1>10 DEF GoodFlight
  <1>12. 0 + ARENA_HEIGHT - ResetY(Others) < MAX_PLATFORM_Y_DISTANCE
    BY OthersFit, FlightAssumption, Sizes, <1>5
  <1>13. FlightOK'
    BY <1>1, <1>11, <1>12 DEF FlightOK, p, e
  <1>14. RingTyped'
    BY <1>1, <1>2, <1>3, <1>5, <1>7, OthersFit DEF RingTyped, p, e
  <1> QED
    BY <1>1, <1>13, <1>14 DEF RingInv

\* Such a flight is what the abstract game begins with.
LEMMA ResetRestarts ==
    ASSUME RingInv', FlightOK', arena_y' = 0
    PROVE  Flight!Restart
  <1> DEFINE n == (platform_end' - platform_begin') % N
             p == platforms'
             b == platform_begin'
             e == platform_end'
             s == StairsOf(p, b, e)
             last == last_platform_y'
  <1>1. /\ p \in Buffer /\ b \in Slots /\ e \in Slots /\ last \in Nat
        /\ GoodFlight(p, b, e, last, 0)
    BY DEF RingInv, RingTyped, FlightOK
  <1>2. ARENA_HEIGHT - last < MAX_PLATFORM_Y_DISTANCE
    <2>1. 0 + ARENA_HEIGHT - last < MAX_PLATFORM_Y_DISTANCE
      BY DEF FlightOK
    <2>2. last \in Int
      BY <1>1
    <2> HIDE DEF last
    <2> QED
      BY <2>1, <2>2, Sizes
  <1>3. Heights' = s
    BY HeightsAreStairs
  <1> HIDE DEF p, b, e, last
  <1>4. /\ n = (e - b) % N /\ n \in Nat /\ n >= 1
        /\ s \in Seq(Nat) /\ Len(s) = n
        /\ s[n] = last
        /\ \A i \in 1..(n - 1) : s[i + 1] - s[i] \in MIN_PLATFORM_Y_DISTANCE..MaxGap
    BY <1>1, StairsOfFlight DEF b, e
  <1>5. ASSUME NEW i \in 1..n PROVE s[i] \in 0..ARENA_HEIGHT
    <2>1. i - 1 \in 0..(n - 1) /\ n - 1 \in 0..(n - 1) /\ i - 1 <= n - 1
      BY <1>4
    <2> DEFINE h == (n - 1) - (i - 1)
    <2>2. h * MIN_PLATFORM_Y_DISTANCE <= Stair(p, b, n - 1) - Stair(p, b, i - 1)
      BY <2>1, <1>1, <1>4, Zenon DEF GoodFlight, Spaced
    <2>3. h \in Nat
      BY <2>1, <1>4
    <2>4. s[i] = Stair(p, b, i - 1) /\ s[i] \in Nat
      BY <1>4 DEF StairsOf
    <2>5. Stair(p, b, n - 1) = last /\ last <= 0 + ARENA_HEIGHT
      BY <1>1, <1>4 DEF GoodFlight
    <2> HIDE DEF h
    <2>6. h <= h * MIN_PLATFORM_Y_DISTANCE /\ h * MIN_PLATFORM_Y_DISTANCE \in Nat
      BY <2>3, FactorGrows, Sizes
    <2> QED
      BY <2>2, <2>3, <2>4, <2>5, <2>6, <1>1, Sizes
  <1>6. s \in Seq(0..ARENA_HEIGHT) /\ s # <<>>
    <2>1. s = [i \in 1..n |-> Stair(p, b, i - 1)]
      BY <1>4 DEF StairsOf
    <2> DEFINE X == 0..ARENA_HEIGHT
    <2> HIDE DEF s, n
    <2>2. s \in [1..n -> X]
      BY <2>1, <1>5
    <2> HIDE DEF X
    <2>3. s \in Seq(X)
      BY <2>2, <1>4
    <2>4. s # <<>>
      BY <1>4
    <2> QED
      BY <2>3, <2>4 DEF X
  <1>7. Flight!Gaps(s)
    BY <1>4 DEF Flight!Gaps
  <1>8. ARENA_HEIGHT - s[Len(s)] < MaxGap
    BY <1>1, <1>2, <1>4, Sizes DEF MaxGap
  <1> QED
    BY <1>3, <1>6, <1>7, <1>8 DEF Flight!Restart

-----------------------------------------------------------------------------
(* A frame *)

\* Platforms that leave the ring leave the front of the sequence.
LEMMA StairsDrop ==
    ASSUME NEW p \in Buffer, NEW b \in Slots, NEW e \in Slots,
           NEW k \in 0..(((e - b) % N) - 1)
    PROVE  StairsOf(p, (b + k) % N, e)
             = SubSeq(StairsOf(p, b, e), k + 1, Len(StairsOf(p, b, e)))
  <1> DEFINE n == (e - b) % N
             c == (b + k) % N
             s == StairsOf(p, b, e)
             m == (e - c) % N
  <1>1. n \in Nat /\ k \in 0..(n - 1)
    BY SlotsWrap, Sizes DEF Slots, N
  <1>2. /\ c \in Slots
        /\ m = n - k
        /\ \A i \in 0..(n - k - 1) : (c + i) % N = (b + (k + i)) % N
    BY RingDrop, Zenon
  <1>3. \A i \in 0..(n - 1) : Stair(p, b, i) \in Nat
    BY SlotsWrap DEF Stair, Buffer
  <1>4. s = [i \in 1..n |-> Stair(p, b, i - 1)]
    BY DEF StairsOf
  <1>5. StairsOf(p, c, e) = [i \in 1..m |-> Stair(p, c, i - 1)]
    BY DEF StairsOf
  <1> HIDE DEF n, c, s, m
  <1>6. s \in Seq(Nat) /\ Len(s) = n
    BY <1>1, <1>3, <1>4
  <1>7. SubSeq(s, k + 1, n) = [i \in 1..m |-> s[(k + 1) + i - 1]]
    BY <1>1, <1>2, <1>6
  <1>8. \A i \in 1..m : Stair(p, c, i - 1) = s[(k + 1) + i - 1]
    <2> TAKE i \in 1..m
    <2>1. /\ i - 1 \in 0..(n - k - 1)
          /\ k + (i - 1) = ((k + 1) + i - 1) - 1
          /\ (k + 1) + i - 1 \in 1..n
      BY <1>1, <1>2
    <2>2. Stair(p, c, i - 1) = Stair(p, b, k + (i - 1))
      BY <2>1, <1>2 DEF Stair
    <2> QED
      BY <2>1, <2>2, <1>4
  <1> QED
    BY <1>5, <1>6, <1>7, <1>8 DEF s, c

\* A platform that comes to the ring comes to the end of the sequence.
LEMMA StairsAppend ==
    ASSUME NEW p \in Buffer, NEW q \in Buffer, NEW b \in Slots, NEW e \in Slots,
           NEW f \in Slots, NEW y \in Nat,
           (f - b) % N = ((e - b) % N) + 1,
           \A i \in 0..(((e - b) % N) - 1) : Stair(q, b, i) = Stair(p, b, i),
           Stair(q, b, (e - b) % N) = y
    PROVE  StairsOf(q, b, f) = Append(StairsOf(p, b, e), y)
  <1> DEFINE n == (e - b) % N
             s == StairsOf(p, b, e)
  <1>1. n \in Nat
    BY SlotsWrap, Sizes DEF Slots, N
  <1>2. \A i \in 0..(n - 1) : Stair(p, b, i) \in Nat
    BY SlotsWrap DEF Stair, Buffer
  <1>3. s = [i \in 1..n |-> Stair(p, b, i - 1)]
    BY DEF StairsOf
  <1>4. StairsOf(q, b, f) = [i \in 1..(n + 1) |-> Stair(q, b, i - 1)]
    BY DEF StairsOf
  <1>5. /\ \A i \in 0..(n - 1) : Stair(q, b, i) = Stair(p, b, i)
        /\ Stair(q, b, n) = y
    OBVIOUS
  <1> HIDE DEF n, s
  <1>6. s \in Seq(Nat) /\ Len(s) = n
    BY <1>1, <1>2, <1>3
  <1>7. /\ Append(s, y) \in Seq(Nat) /\ Len(Append(s, y)) = n + 1
        /\ \A i \in 1..(n + 1) : Append(s, y)[i] = IF i = n + 1 THEN y ELSE s[i]
    BY <1>1, <1>6
  <1>8. ASSUME NEW i \in 1..(n + 1)
        PROVE  Stair(q, b, i - 1) = IF i = n + 1 THEN y ELSE s[i]
    <2>1. CASE i = n + 1
      <3>1. i - 1 = n
        BY <2>1, <1>1
      <3> QED
        BY <2>1, <3>1, <1>5
    <2>2. CASE i # n + 1
      <3>1. i \in 1..n /\ i - 1 \in 0..(n - 1)
        BY <2>2, <1>1
      <3> QED
        BY <2>2, <3>1, <1>3, <1>5
    <2> QED
      BY <2>1, <2>2
  <1> DEFINE z == StairsOf(q, b, f)
  <1>9. \A i \in 1..(n + 1) : Stair(q, b, i - 1) \in Nat
    BY <1>1, <1>3, <1>6, <1>8, SMTT(30)
  <1>10. z \in Seq(Nat) /\ Len(z) = n + 1
    BY <1>1, <1>4, <1>9
  <1>11. \A i \in 1..(n + 1) : z[i] = Append(s, y)[i]
    BY <1>4, <1>7, <1>8
  <1> HIDE DEF z
  <1> QED
    BY <1>7, <1>10, <1>11, SeqEqual DEF s, z

\* update_objects: which platforms leave.
LEMMA RemovalStops ==
    ASSUME RingTyped, FlightOK
    PROVE  LET t == arena_y + ArenaSpeed
               k == Min(Kept(t))
           IN /\ t \in Nat /\ Kept(t) # {}
              /\ k \in 0..(InUse - 1)
              /\ Stair(platforms, platform_begin, k) + PLATFORM_HEIGHT >= t
              /\ \A i \in 0..(k - 1) :
                   Stair(platforms, platform_begin, i) + PLATFORM_HEIGHT < t
              /\ ~Out(Live[InUse], t) /\ InUse \in Nat /\ InUse >= 1
  <1> DEFINE t == arena_y + ArenaSpeed
             p == platforms
             b == platform_begin
             e == platform_end
             n == InUse
             K == Kept(t)
             k == Min(K)
  <1>1. /\ p \in Buffer /\ b \in Slots /\ e \in Slots
        /\ arena_y \in Nat /\ last_platform_y \in Nat /\ t \in Nat
    BY Sizes DEF RingTyped
  <1>2. n = (e - b) % N /\ n \in Nat /\ n >= 1 /\ n < N
    BY <1>1, SlotsWrap, Sizes DEF InUse, N, FlightOK, GoodFlight, Slots
  <1>3. Stair(p, b, n - 1) = last_platform_y
    BY <1>2 DEF FlightOK, GoodFlight
  <1>4. last_platform_y + PLATFORM_HEIGHT >= t
    <2>1. arena_y + ARENA_HEIGHT - last_platform_y < MAX_PLATFORM_Y_DISTANCE
      BY DEF FlightOK
    <2> QED
      BY <2>1, <1>1, FlightAssumption, Sizes
  <1>5. \A i \in Slots : i \in K <=> ~(Stair(p, b, i) + PLATFORM_HEIGHT < t)
    BY DEF Kept, Out, Slot, Stair, N
  <1>6. K \subseteq Slots /\ Slots \subseteq Nat
    BY DEF Kept, Slots
  <1> HIDE DEF K, t, n
  <1>7. n - 1 \in K
    <2>1. n - 1 \in Slots
      BY <1>2, Sizes DEF Slots, N
    <2>2. ~(last_platform_y + PLATFORM_HEIGHT < t)
      BY <1>1, <1>4, Sizes
    <2> QED
      BY <2>1, <2>2, <1>3, <1>5
  <1>8. k \in K /\ \A i \in K : k <= i
    BY <1>6, <1>7, MinExists
  <1> HIDE DEF k
  <1>9. k \in Slots /\ k \in Nat /\ k \in 0..(n - 1)
    <2>1. k \in Slots /\ k \in Nat /\ k <= n - 1
      BY <1>6, <1>7, <1>8
    <2> QED
      BY <2>1, <1>2
  <1>10. \A i \in Slots : (b + i) % N \in Slots /\ Stair(p, b, i) \in Nat
    BY <1>1, WrapUp, Sizes DEF Slots, N, Stair, Buffer
  <1>11. Stair(p, b, k) + PLATFORM_HEIGHT >= t
    BY <1>1, <1>5, <1>8, <1>9, <1>10, Sizes
  <1>12. ASSUME NEW i \in 0..(k - 1)
         PROVE  Stair(p, b, i) + PLATFORM_HEIGHT < t
    <2>1. i \in Slots /\ i < k /\ i \in Nat
      BY <1>9, Sizes DEF Slots, N
    <2>2. i \notin K
      BY <2>1, <1>8, <1>9
    <2> QED
      BY <2>1, <2>2, <1>5
  <1>13. ~Out(Live[n], t)
    <2>1. n \in 1..n
      BY <1>2
    <2>2. Live[n].y = Stair(p, b, n - 1)
      BY <2>1 DEF Live, Slot, Stair, N, n
    <2>3. ~(last_platform_y + PLATFORM_HEIGHT < t)
      BY <1>1, <1>4, Sizes
    <2> QED
      BY <2>2, <2>3, <1>3 DEF Out
  <1> QED
    BY <1>1, <1>2, <1>7, <1>9, <1>11, <1>12, <1>13 DEF K, t, n, k

\* update_objects keeps the flight, and scrolls it as the abstract game does.
LEMMA UpdateKeeps ==
    ASSUME RingTyped, FlightOK, UpdateObjects
    PROVE  RingInv' /\ FlightOK' /\ Flight!Scroll
  <1> DEFINE t == arena_y + ArenaSpeed
             p == platforms
             b == platform_begin
             e == platform_end
             last == last_platform_y
             n == (e - b) % N
             k == Min(Kept(t))
             c == (b + k) % N
             y == t + ARENA_HEIGHT
             s == StairsOf(p, b, e)
             left == StairsOf(p, c, e)
  <1>1. /\ p \in Buffer /\ b \in Slots /\ e \in Slots
        /\ arena_y \in Nat /\ last \in Nat
    BY DEF RingTyped
  <1>2. /\ GoodFlight(p, b, e, last, arena_y)
        /\ arena_y + ARENA_HEIGHT - last < MAX_PLATFORM_Y_DISTANCE
    BY DEF FlightOK
  <1>3. /\ t \in Nat /\ Kept(t) # {}
        /\ k \in 0..(n - 1)
        /\ Stair(p, b, k) + PLATFORM_HEIGHT >= t
        /\ \A i \in 0..(k - 1) : Stair(p, b, i) + PLATFORM_HEIGHT < t
    BY RemovalStops DEF InUse, N
  <1>4. /\ arena_y' = t /\ platform_begin' = c
        /\ pc' \in {"loop", "input"}
        /\ \/ /\ MayGenerate(c, y)
              /\ \E x \in PlatformX : Generate(x, y)
           \/ /\ ~MustGenerate(c, y)
              /\ UNCHANGED <<platforms, platform_end, last_platform_y>>
    BY <1>3 DEF UpdateObjects, Slot, N
  <1>5. t >= arena_y /\ y \in Nat /\ y - last <= MaxGap /\ t = arena_y + ArenaSpeed
    BY <1>1, <1>2, Sizes DEF MaxGap
  <1> HIDE DEF t, k
  <1>6. c \in Slots /\ GoodFlight(p, c, e, last, t)
    <2>1. c \in Slots
      BY <1>1, <1>3, RingDrop
    <2>2. GoodFlight(p, c, e, last, t)
      BY <1>1, <1>2, <1>3, <1>5, FlightDrop, Zenon
    <2> QED
      BY <2>1, <2>2
  <1>7. /\ n \in Nat /\ n >= 1
        /\ s \in Seq(Nat) /\ Len(s) = n
    BY <1>1, <1>2, StairsOfFlight
  <1>8. left = SubSeq(s, k + 1, Len(s))
    BY <1>1, <1>3, StairsDrop, Zenon
  <1>9. \A i \in 1..k : s[i] + PLATFORM_HEIGHT < t
    <2> TAKE i \in 1..k
    <2>1. i \in 1..n /\ i - 1 \in 0..(k - 1)
      BY <1>3, <1>7
    <2>2. s[i] = Stair(p, b, i - 1)
      BY <2>1 DEF StairsOf
    <2> QED
      BY <2>1, <2>2, <1>3
  <1>10. left \in Seq(Nat) /\ Len(left) >= 1 /\ left[1] + PLATFORM_HEIGHT >= t
    <2> DEFINE m == (e - c) % N
    <2>1. left \in Seq(Nat) /\ Len(left) = m /\ m \in Nat /\ m >= 1
      BY <1>1, <1>6, StairsOfFlight
    <2>2. Stair(p, c, 0) + PLATFORM_HEIGHT >= t
      BY <1>6 DEF GoodFlight
    <2>3. left[1] = Stair(p, c, 0)
      <3>1. 1 \in 1..m /\ 1 - 1 = 0
        BY <2>1
      <3> QED
        BY <3>1 DEF StairsOf
    <2> QED
      BY <2>1, <2>2, <2>3
  <1> DEFINE p2 == platforms'
             e2 == platform_end'
             last2 == last_platform_y'
  <1>11. /\ p2 \in Buffer /\ e2 \in Slots /\ last2 \in Nat
         /\ GoodFlight(p2, c, e2, last2, t)
         /\ y - last2 < MAX_PLATFORM_Y_DISTANCE
         /\ StairsOf(p2, c, e2) \in {left, Append(left, y)}
    <2>1. CASE /\ MayGenerate(c, y)
               /\ \E x \in PlatformX : Generate(x, y)
      <3>1. PICK x \in PlatformX : Generate(x, y)
        BY <2>1
      <3> DEFINE q == [p EXCEPT ![e] = [x |-> x, y |-> y]]
                 f == (e + 1) % N
                 m == (e - c) % N
      <3>2. x \in Nat
        BY Sizes
      <3>3. last + MIN_PLATFORM_Y_DISTANCE <= y
        BY <2>1, <1>1, <1>5, Sizes DEF MayGenerate
      <3>4. p2 = q /\ e2 = f /\ last2 = y
        BY <3>1, <3>3, <1>1, <1>5, Sizes DEF Generate, N
      <3>5. /\ q \in Buffer
            /\ GoodFlight(q, c, f, y, t)
            /\ f \in Slots
            /\ (f - c) % N = m + 1
            /\ \A i \in 0..(m - 1) : Stair(q, c, i) = Stair(p, c, i)
            /\ Stair(q, c, m) = y
        <4>1. y <= t + ARENA_HEIGHT /\ t \in Nat
          BY <1>3, Sizes
        <4> HIDE DEF c, p, e, last, y
        <4>2. q \in Buffer /\ q[e].y = y /\ \A i \in Slots : i # e => q[i] = p[i]
          BY <3>2, <1>1, <1>5 DEF Buffer
        <4> HIDE DEF q
        <4> QED
          BY <4>1, <4>2, <3>3, <1>1, <1>5, <1>6, FlightAppend
      <3> HIDE DEF q, f, y
      <3>6. StairsOf(q, c, f) = Append(left, y)
        BY <3>5, <1>1, <1>5, <1>6, StairsAppend
      <3>7. y - y < MAX_PLATFORM_Y_DISTANCE
        BY <1>5, Sizes
      <3> QED
        BY <3>4, <3>5, <3>6, <3>7, <1>5
    <2>2. CASE /\ ~MustGenerate(c, y)
               /\ UNCHANGED <<platforms, platform_end, last_platform_y>>
      <3>1. p2 = p /\ e2 = e /\ last2 = last
        BY <2>2
      <3>2. y - last < MAX_PLATFORM_Y_DISTANCE
        <4> SUFFICES ASSUME y - last >= MAX_PLATFORM_Y_DISTANCE
                     PROVE  FALSE
          BY <1>1, <1>5, Sizes
        <4>1. /\ y - last >= MIN_PLATFORM_Y_DISTANCE
              /\ last + MIN_PLATFORM_Y_DISTANCE <= y
          BY <1>1, <1>5, FlightAssumption, Sizes
        <4>2. (e + 1) % N # c
          BY <4>1, <1>1, <1>3, <1>6, FlightShort
        <4> QED
          BY <4>1, <4>2, <2>2 DEF MustGenerate, MayGenerate, Full, N
      <3> QED
        BY <3>1, <3>2, <1>1, <1>6
    <2> QED
      BY <2>1, <2>2, <1>4
  <1>12. FlightOK'
    <2>1. GoodFlight(platforms', platform_begin', platform_end', last_platform_y', arena_y')
      BY <1>4, <1>11, Zenon
    <2>2. arena_y' + ARENA_HEIGHT - last_platform_y' < MAX_PLATFORM_Y_DISTANCE
      <3>1. y - last2 < MAX_PLATFORM_Y_DISTANCE /\ last2 \in Int
        BY <1>11
      <3>2. y = t + ARENA_HEIGHT /\ t \in Int /\ arena_y' = t
        BY <1>3, <1>4
      <3> HIDE DEF y, last2
      <3>3. t + ARENA_HEIGHT - last2 < MAX_PLATFORM_Y_DISTANCE
        BY <3>1, <3>2, Sizes
      <3> QED
        BY <3>2, <3>3 DEF last2
    <2> QED
      BY <2>1, <2>2 DEF FlightOK
  <1>13. RingInv'
    BY <1>3, <1>4, <1>6, <1>11, <1>12 DEF RingInv, RingTyped
  <1>14. Heights = s /\ Heights' = StairsOf(p2, c, e2)
    BY <1>4, HeightsAreStairs
  <1>15. Flight!Gaps(Heights')
    <2> HIDE DEF p2, e2, last2
    <2> DEFINE h == StairsOf(p2, c, e2)
               m == (e2 - c) % N
    <2>1. /\ Len(h) = m
          /\ \A i \in 1..(m - 1) : h[i + 1] - h[i] \in MIN_PLATFORM_Y_DISTANCE..MaxGap
      BY <1>6, <1>11, StairsOfFlight
    <2> HIDE DEF h
    <2>2. Heights' = h
      BY <1>14 DEF h
    <2> QED
      BY <2>1, <2>2 DEF Flight!Gaps
  <1>16. Flight!Scroll
    <2> HIDE DEF p2, e2, last2, s, left, y
    <2>1. k \in 0..(Len(s) - 1)
      BY <1>3, <1>7
    <2>2. /\ arena_y' = arena_y + ArenaSpeed
          /\ y = arena_y' + ARENA_HEIGHT
      BY <1>4, <1>5 DEF y
    <2>3. /\ \A i \in 1..k : s[i] + PLATFORM_HEIGHT < arena_y'
          /\ left[1] + PLATFORM_HEIGHT >= arena_y'
          /\ Heights' \in {left, Append(left, arena_y' + ARENA_HEIGHT)}
      BY <1>4, <1>9, <1>10, <1>11, <1>14, <2>2
    <2> QED
      BY <2>1, <2>2, <2>3, <1>8, <1>14, <1>15 DEF Flight!Scroll
  <1> QED
    BY <1>12, <1>13, <1>16

-----------------------------------------------------------------------------
(* The invariant *)

\* The buffers that are all zeroes hold no platform.
LEMMA InitKeeps ==
    Init => RingInv /\ Flight!Init
  <1> SUFFICES ASSUME Init PROVE RingInv /\ Flight!Init
    OBVIOUS
  <1>1. 0 \in Slots
    BY Sizes DEF Slots, N
  <1>2. RingInv
    BY <1>1 DEF Init, RingInv, RingTyped, Buffer
  <1>3. Flight!Init
    <2>1. platform_end - platform_begin = 0 /\ arena_y = 0
      BY DEF Init
    <2>2. 0 % N = 0
      BY Sizes
    <2>3. InUse = 0
      BY <2>1, <2>2 DEF InUse, N
    <2>4. Heights = <<>>
      BY <2>3 DEF Heights
    <2> QED
      BY <2>1, <2>4 DEF Flight!Init
  <1> QED
    BY <1>2, <1>3

\* What a step of the main loop that touches neither the arena nor the ring does.
LEMMA QuietKeeps ==
    ASSUME RingInv, UNCHANGED Game,
           pc' \in {"reset", "update", "input", "check", "exit", "loop"},
           pc = "reset" => pc' = "reset"
    PROVE  RingInv' /\ UNCHANGED <<arena_y, Heights>>
  <1>1. /\ arena_y' = arena_y /\ platforms' = platforms
        /\ platform_begin' = platform_begin /\ platform_end' = platform_end
        /\ last_platform_y' = last_platform_y
    BY DEF Game
  <1>2. RingTyped'
    BY <1>1 DEF RingInv, RingTyped
  <1>3. FlightOK => FlightOK'
    BY <1>1 DEF FlightOK
  <1>4. Heights' = Heights
    BY <1>1, HeightsAreStairs
  <1> QED
    BY <1>1, <1>2, <1>3, <1>4 DEF RingInv

\* Every step of the main loop keeps the invariant, and is a step of the
\* abstract game or changes nothing of it.
LEMMA StepKeeps ==
    ASSUME RingInv, [Next]_vars
    PROVE  RingInv' /\ [Flight!Next]_<<arena_y, Heights>>
  <1>1. CASE ResetGame
    <2>1. RingTyped /\ arena_y' = 0
      BY <1>1 DEF RingInv, ResetGame
    <2>2. RingInv' /\ FlightOK'
      BY <1>1, <2>1, ResetKeeps
    <2>3. Flight!Restart
      BY <2>1, <2>2, ResetRestarts
    <2> QED
      BY <2>2, <2>3 DEF Flight!Next
  <1>2. CASE UpdateObjects
    <2>1. RingTyped /\ FlightOK
      BY <1>2 DEF RingInv, UpdateObjects
    <2> QED
      BY <1>2, <2>1, UpdateKeeps DEF Flight!Next
  <1>3. CASE HandleInput
    BY <1>3, QuietKeeps DEF HandleInput
  <1>4. CASE CheckGameover
    <2>1. UNCHANGED Game /\ pc = "check" /\ pc' \in {"reset", "update"}
      BY <1>4 DEF CheckGameover
    <2> QED
      BY <2>1, QuietKeeps
  <1>5. CASE UNCHANGED vars
    <2>1. UNCHANGED Game /\ pc' = pc
      BY <1>5 DEF vars, Game
    <2> QED
      BY <2>1, QuietKeeps DEF RingInv
  <1> QED
    BY <1>1, <1>2, <1>3, <1>4, <1>5 DEF Next

\* The ring of platforms is always a flight of stairs, from one gap to the next,
\* and platform_generate never finds it full (its assertion never fails).
THEOREM RingHolds == Spec => []RingInv
  <1>1. Init => RingInv
    BY InitKeeps
  <1>2. RingInv /\ [Next]_vars => RingInv'
    BY StepKeeps
  <1> QED
    BY <1>1, <1>2, PTL DEF Spec

\* update_objects removes the platforms at the beginning of the ring without a
\* test of its end: whenever it does, one of the platforms in the ring stays.
THEOREM RemovalStaysInTheRing == Spec => []NeverRunsOut
  <1>1. RingInv => NeverRunsOut
    <2> SUFFICES ASSUME RingInv, pc = "update"
                 PROVE  \E i \in 1..InUse : ~Out(Live[i], arena_y + ArenaSpeed)
      BY DEF NeverRunsOut
    <2>1. RingTyped /\ FlightOK
      BY DEF RingInv
    <2>2. /\ ~Out(Live[InUse], arena_y + ArenaSpeed)
          /\ InUse \in Nat /\ InUse >= 1
      BY <2>1, RemovalStops
    <2>3. InUse \in 1..InUse
      BY <2>2
    <2> QED
      BY <2>2, <2>3
  <1> QED
    BY <1>1, RingHolds, PTL

\* The ring buffer of the game implements the endless flight of stairs: every
\* stair below the one before it, at a distance between the two limits, exactly
\* those above the arena removed and new ones only at its bottom.
THEOREM FlightImplemented == Spec => ImplementsStairs
  <1>1. Init => Flight!Init
    BY InitKeeps
  <1>2. RingInv /\ [Next]_vars => [Flight!Next]_<<arena_y, Heights>>
    BY StepKeeps
  <1> QED
    BY <1>1, <1>2, RingHolds, PTL DEF Spec, ImplementsStairs, Flight!Spec

-----------------------------------------------------------------------------
(* The ball *)

Platform == [x : Nat, y : Nat]
Ball == [x : Int, y : Int, dx : {-BallSpeedX, 0, BallSpeedX}, dy : {0, BallSpeedY}]

\* The speeds and the ball are not zero.
LEMMA Speeds ==
    /\ BallSpeedX \in Nat /\ BallSpeedX > 0 /\ BallSpeedY \in Nat /\ BallSpeedY > 0
    /\ BALL_RADIUS > 0
  BY SizeAssumption

LEMMA ReversedFields ==
    ASSUME NEW b \in Ball, NEW k \in Nat, NEW r, r = Reversed(b, k)
    PROVE  /\ r \in Ball /\ r.dx = b.dx /\ r.dy = b.dy
           /\ r.y = IF b.dy > 0 THEN b.y - k ELSE b.y
           /\ r.x = IF b.dx < 0 THEN b.x + k ELSE IF b.dx > 0 THEN b.x - k ELSE b.x
  <1> DEFINE y == IF b.dy > 0 THEN b.y - k ELSE b.y
             x == IF b.dx < 0 THEN b.x + k ELSE IF b.dx > 0 THEN b.x - k ELSE b.x
  <1>1. x \in Int /\ y \in Int
    BY Speeds DEF Ball
  <1>2. r = [b EXCEPT !.y = y, !.x = x]
    BY DEF Reversed
  <1> HIDE DEF x, y
  <1>3. r = [x |-> x, y |-> y, dx |-> b.dx, dy |-> b.dy]
    BY <1>2 DEF Ball
  <1>4. r \in Ball /\ r.x = x /\ r.y = y /\ r.dx = b.dx /\ r.dy = b.dy
    BY <1>1, <1>3 DEF Ball
  <1> QED
    BY <1>4 DEF x, y

\* A ball that moves has left a platform after so many turns of the loop of
\* ball_reverse_to_collision.
LEMMA LeavesThePlatform ==
    ASSUME NEW b \in Ball, b.dx # 0 \/ b.dy # 0, NEW p \in Platform, Collides(b, p)
    PROVE  \E k \in Turns : ~Collides(Reversed(b, k), p)
  <1> DEFINE D == Diameter
             K == D + PLATFORM_WIDTH + PLATFORM_HEIGHT + 1
             r == Reversed(b, K)
  <1>1. D \in Nat /\ PLATFORM_WIDTH \in Nat /\ PLATFORM_HEIGHT \in Nat
        /\ b.x \in Int /\ b.y \in Int /\ p.x \in Nat /\ p.y \in Nat
    BY Sizes DEF Ball, Platform
  <1>2. K \in Nat /\ K \in Turns
    BY <1>1 DEF Turns
  <1>3. /\ b.x + D > p.x /\ b.x <= p.x + PLATFORM_WIDTH
        /\ b.y + D > p.y /\ b.y <= p.y + PLATFORM_HEIGHT
    BY <1>1 DEF Collides
  <1>4. /\ r.y = IF b.dy > 0 THEN b.y - K ELSE b.y
        /\ r.x = IF b.dx < 0 THEN b.x + K ELSE IF b.dx > 0 THEN b.x - K ELSE b.x
    BY <1>2, ReversedFields
  <1>5. b.dy > 0 \/ b.dx > 0 \/ b.dx < 0
    BY Speeds DEF Ball
  <1>6. r.y + D <= p.y \/ r.x + D <= p.x \/ r.x > p.x + PLATFORM_WIDTH
    <2>1. CASE b.dy > 0
      <3>1. r.y = b.y - K
        BY <1>4, <2>1
      <3> QED
        BY <1>1, <1>3, <3>1
    <2>2. CASE b.dx < 0
      <3>1. r.x = b.x + K
        BY <1>4, <2>2
      <3> QED
        BY <1>1, <1>3, <3>1
    <2>3. CASE b.dx > 0
      <3>1. r.x = b.x - K
        BY <1>4, <2>3, Speeds DEF Ball
      <3> QED
        BY <1>1, <1>3, <3>1
    <2> QED
      BY <1>5, <2>1, <2>2, <2>3
  <1>7. ~Collides(r, p)
    BY <1>6 DEF Collides
  <1> HIDE DEF K
  <1> QED
    BY <1>2, <1>7

\* ball_fix_collision moves the ball and keeps its speed.
LEMMA FixCollisionType ==
    ASSUME NEW b \in Ball, b.dx # 0 \/ b.dy # 0, NEW p \in Platform,
           NEW f, f = FixCollision(b, p)
    PROVE  f \in Ball /\ f.dx = b.dx /\ f.dy = b.dy
  <1>1. CASE ~Collides(b, p)
    BY <1>1 DEF FixCollision
  <1>2. CASE Collides(b, p)
    <2> DEFINE S == {k \in Turns : ~Collides(Reversed(b, k), p)}
               m == Min(S)
               r == Reversed(b, m)
    <2>1. Turns \subseteq Nat
      BY Sizes DEF Turns
    <2>2. S # {}
      BY <1>2, LeavesThePlatform
    <2>3. S \in SUBSET Nat
      BY <2>1
    <2> HIDE DEF S
    <2>4. m \in S
      BY <2>2, <2>3, MinExists
    <2>5. m \in Nat
      BY <2>3, <2>4
    <2>6. ReverseToCollision(b, p) = r
      BY DEF ReverseToCollision, S
    <2> HIDE DEF m
    <2>7. r \in Ball
      BY <2>5, ReversedFields
    <2> HIDE DEF r
    <2>8. r.x \in Int /\ r.y \in Int
      BY <2>7 DEF Ball
    <2>9. f = [b EXCEPT !.x = r.x] \/ f = [b EXCEPT !.y = r.y]
      BY <1>2, <2>6 DEF FixCollision
    <2> QED
      BY <2>8, <2>9 DEF Ball
  <1> QED
    BY <1>1, <1>2

\* The loop over the platforms: what every turn of it makes of what the turn
\* before has left.
LEMMA FoldKeeps ==
    ASSUME NEW n \in Nat, NEW seq, DOMAIN seq = 1..n, NEW M, NEW base \in M[0],
           \A i \in 1..n : \A b \in M[i - 1] : FixCollision(b, seq[i]) \in M[i]
    PROVE  FoldLeft(FixCollision, base, seq) \in M[n]
  <1> DEFINE Turn(f, s) == IF s = {} THEN base
                           ELSE FixCollision(f[s \ {Max(s)}], seq[Max(s)])
             Loop(m, f) == f = [s \in SUBSET (1..m) |-> Turn(f, s)]
             it == CHOOSE f : Loop(n, f)
  <1>1. FoldLeft(FixCollision, base, seq) = it[1..n]
    BY DEF FoldLeft, MapThenFoldSet
  <1>2. \A m \in Nat : \A s \in SUBSET (1..(m + 1)) : m + 1 \in s => Max(s) = m + 1
    <2> TAKE m \in Nat
    <2> TAKE s \in SUBSET (1..(m + 1))
    <2> HAVE m + 1 \in s
    <2>1. \A y \in s : y \in Int /\ m + 1 >= y
      OBVIOUS
    <2>2. \A x \in s : (\A y \in s : x >= y) => x = m + 1
      BY <2>1
    <2>3. Max(s) \in s /\ \A y \in s : Max(s) >= y
      BY <2>1, Zenon DEF Max
    <2> QED
      BY <2>2, <2>3, Zenon
  <1>3. \E f : Loop(n, f)
    <2> DEFINE S == {m \in Nat : \E f : Loop(m, f)}
    <2>1. 0 \in S
      <3> DEFINE g == [s \in SUBSET (1..0) |-> base]
      <3>1. SUBSET (1..0) = {{}}
        OBVIOUS
      <3>2. \A s \in SUBSET (1..0) : Turn(g, s) = base
        BY <3>1
      <3>3. Loop(0, g)
        BY <3>2
      <3> QED
        BY <3>3
    <2>2. ASSUME NEW m \in Nat, m \in S PROVE m + 1 \in S
      <3>1. PICK f : Loop(m, f)
        BY <2>2
      <3> DEFINE g == [s \in SUBSET (1..(m + 1)) |->
                        IF m + 1 \in s THEN FixCollision(f[s \ {m + 1}], seq[m + 1]) ELSE f[s]]
      <3>2. \A s \in SUBSET (1..m) : g[s] = f[s]
        <4> TAKE s \in SUBSET (1..m)
        <4>1. s \in SUBSET (1..(m + 1)) /\ m + 1 \notin s
          OBVIOUS
        <4> QED
          BY <4>1
      <3>3. ASSUME NEW s \in SUBSET (1..(m + 1)) PROVE g[s] = Turn(g, s)
        <4>1. CASE m + 1 \in s
          <5>1. s \ {m + 1} \in SUBSET (1..m)
            OBVIOUS
          <5>2. g[s] = FixCollision(f[s \ {m + 1}], seq[m + 1])
            BY <4>1
          <5>3. g[s \ {m + 1}] = f[s \ {m + 1}]
            BY <3>2, <5>1
          <5>4. Max(s) = m + 1 /\ s # {}
            BY <1>2, <4>1
          <5> HIDE DEF g
          <5> QED
            BY <5>2, <5>3, <5>4, Zenon
        <4>2. CASE m + 1 \notin s
          <5>0. \A i \in 1..(m + 1) : i # m + 1 => i \in 1..m
            OBVIOUS
          <5>1. s \in SUBSET (1..m) /\ s \ {Max(s)} \in SUBSET (1..m)
            BY <4>2, <5>0, Zenon
          <5>2. g[s] = f[s] /\ g[s \ {Max(s)}] = f[s \ {Max(s)}]
            BY <3>2, <5>1
          <5> HIDE DEF g
          <5>3. f[s] = Turn(f, s)
            BY <3>1, <5>1
          <5> QED
            BY <5>2, <5>3, Zenon
        <4> QED
          BY <4>1, <4>2
      <3>4. Loop(m + 1, g)
        <4> DEFINE h == [s \in SUBSET (1..(m + 1)) |-> Turn(g, s)]
        <4>1. \A s \in SUBSET (1..(m + 1)) : g[s] = h[s]
          BY <3>3, Zenon
        <4> QED
          BY <4>1, Zenon
      <3> HIDE DEF Loop, g
      <3> QED
        BY <3>4
    <2> HIDE DEF S
    <2>3. n \in S
      BY <2>1, <2>2, NatSetInduction
    <2> QED
      BY <2>3 DEF S
  <1>4. Loop(n, it)
    BY <1>3, Zenon
  <1> HIDE DEF it
  <1>5. \A s \in SUBSET (1..n) : it[s] = Turn(it, s)
    BY <1>4
  <1> DEFINE S == {m \in Nat : m <= n => it[1..m] \in M[m]}
  <1>6. 0 \in S
    <2>1. 1..0 = {} /\ {} \in SUBSET (1..n)
      OBVIOUS
    <2>2. it[{}] = base
      BY <1>5, <2>1
    <2> QED
      BY <2>1, <2>2
  <1>7. ASSUME NEW m \in Nat, m \in S PROVE m + 1 \in S
    <2> SUFFICES ASSUME m + 1 <= n PROVE it[1..(m + 1)] \in M[m + 1]
      OBVIOUS
    <2>1. it[1..m] \in M[m]
      BY <1>7
    <2>2. /\ 1..(m + 1) \in SUBSET (1..n) /\ 1..(m + 1) # {} /\ m + 1 \in 1..(m + 1)
          /\ (1..(m + 1)) \ {m + 1} = 1..m /\ m + 1 \in 1..n /\ (m + 1) - 1 = m
          /\ 1..(m + 1) \in SUBSET (1..(m + 1))
      <3>1. \A i \in 1..(m + 1) : i \in 1..n /\ (i # m + 1 => i \in 1..m)
        OBVIOUS
      <3>2. \A i \in 1..m : i \in 1..(m + 1) /\ i # m + 1
        OBVIOUS
      <3>3. m + 1 \in 1..(m + 1) /\ (m + 1) - 1 = m
        OBVIOUS
      <3>4. (1..(m + 1)) \ {m + 1} = 1..m
        BY <3>1, <3>2, Zenon
      <3> QED
        BY <3>1, <3>3, <3>4, Zenon
    <2>3. Max(1..(m + 1)) = m + 1
      BY <1>2, <2>2, Zenon
    <2>4. it[1..(m + 1)] = FixCollision(it[1..m], seq[m + 1])
      BY <1>5, <2>2, <2>3, Zenon
    <2>5. \A b \in M[m] : FixCollision(b, seq[m + 1]) \in M[m + 1]
      BY <2>2, Zenon
    <2> QED
      BY <2>1, <2>4, <2>5, Zenon
  <1> HIDE DEF S
  <1>8. n \in S
    BY <1>6, <1>7, NatSetInduction
  <1> QED
    BY <1>1, <1>8 DEF S

\* No turn does anything.
LEMMA FoldStays ==
    ASSUME NEW n \in Nat, NEW seq, DOMAIN seq = 1..n, NEW b,
           \A i \in 1..n : FixCollision(b, seq[i]) = b
    PROVE  FoldLeft(FixCollision, b, seq) = b
  <1> DEFINE M == [m \in 0..n |-> {b}]
  <1>1. \A m \in 0..n : M[m] = {b}
    OBVIOUS
  <1>2. 0 \in 0..n /\ n \in 0..n /\ \A i \in 1..n : i \in 0..n /\ i - 1 \in 0..n
    OBVIOUS
  <1> HIDE DEF M
  <1>3. b \in M[0] /\ \A i \in 1..n : \A c \in M[i - 1] : FixCollision(c, seq[i]) \in M[i]
    BY <1>1, <1>2
  <1>4. FoldLeft(FixCollision, b, seq) \in M[n]
    BY <1>3, FoldKeeps
  <1> QED
    BY <1>1, <1>2, <1>4

\* The platforms in use.
LEMMA LivePlatforms ==
    ASSUME RingTyped
    PROVE  /\ InUse \in Nat /\ DOMAIN Live = 1..InUse
           /\ \A i \in 1..InUse : Live[i] \in Platform
           /\ Range(Live) = {Live[i] : i \in 1..InUse}
  <1>1. platform_begin \in Int /\ platform_end \in Int /\ platforms \in Buffer
        /\ N \in Nat /\ N > 0
    BY Sizes DEF RingTyped, Slots, N
  <1>2. InUse \in Nat
    BY <1>1 DEF InUse, N
  <1>3. \A i \in 1..InUse : Slot(i - 1) \in Slots
    BY <1>1, <1>2 DEF Slot, Slots, N
  <1>4. DOMAIN Live = 1..InUse /\ \A i \in 1..InUse : Live[i] = platforms[Slot(i - 1)]
    BY DEF Live
  <1>5. \A i \in 1..InUse : Live[i] \in Platform
    BY <1>1, <1>3, <1>4 DEF Buffer, Platform
  <1>6. Range(Live) = {Live[i] : i \in 1..InUse}
    BY <1>4 DEF Range
  <1> QED
    BY <1>2, <1>4, <1>5, <1>6

\* A ball at rest is where reset_game put it, above all platforms.
AtStart ==
    /\ ball.dx = 0 /\ ball.y = ARENA_HEIGHT \div 3
    /\ \A i \in 1..InUse : Live[i].y >= FirstY

BallInv ==
    /\ ball \in Ball
    /\ pc \in {"input", "check", "exit"} => ball.dy # 0
    /\ pc = "update" /\ ball.dy = 0 => AtStart
    /\ pc # "loop"

\* A frame moves the ball and keeps its speed.
LEMMA MovedBallFields ==
    ASSUME ball \in Ball
    PROVE  /\ MovedBall \in Ball /\ MovedBall.dx = ball.dx /\ MovedBall.dy = ball.dy
           /\ MovedBall.y = ball.y + ball.dy
  <1> DEFINE x0 == ball.x + ball.dx
             x == IF x0 < 0 THEN 0
                  ELSE IF x0 + Diameter >= ARENA_WIDTH THEN ARENA_WIDTH - Diameter ELSE x0
             y == ball.y + ball.dy
  <1>1. x \in Int /\ y \in Int
    BY Speeds, Sizes DEF Ball
  <1>2. MovedBall = [ball EXCEPT !.x = x, !.y = y]
    BY DEF MovedBall
  <1> HIDE DEF x, y
  <1>3. MovedBall = [x |-> x, y |-> y, dx |-> ball.dx, dy |-> ball.dy]
    BY <1>2 DEF Ball
  <1> QED
    BY <1>1, <1>3 DEF Ball, y

\* reset_game.
LEMMA ResetPlacesBall ==
    ASSUME RingTyped, ResetGame
    PROVE  BallInv'
  <1>1. /\ platform_begin' = 0 /\ platform_end' = (Others + 1) % N /\ pc' = "update"
    BY OthersFit DEF ResetGame, N
  <1>2. ball' = [x |-> ARENA_WIDTH \div 2 - BALL_RADIUS, y |-> ARENA_HEIGHT \div 3, dx |-> 0, dy |-> 0]
    BY DEF ResetGame
  <1>3. ARENA_WIDTH \div 2 - BALL_RADIUS \in Int /\ ARENA_HEIGHT \div 3 \in Int
    BY Sizes
  <1>4. ball' \in Ball /\ ball'.dx = 0 /\ ball'.y = ARENA_HEIGHT \div 3
    BY <1>2, <1>3 DEF Ball
  <1>5. Others + 1 \in Nat /\ Others + 1 < N /\ Others \in Nat /\ N \in Nat /\ N > 0
    BY OthersFit, Sizes
  <1>6. (Others + 1) % N = Others + 1
    BY <1>5, WrapUp, Sizes DEF N
  <1>7. InUse' = Others + 1
    BY <1>1, <1>5, <1>6 DEF InUse, N
  <1>8. ASSUME NEW i \in 1..(Others + 1) PROVE Live'[i].y >= FirstY
    <2> DEFINE j == i - 1
    <2>1. j \in 0..Others /\ j \in Nat /\ j < N /\ j \in Slots
      BY <1>5 DEF Slots, N
    <2>2. Slot(j)' = j
      <3>1. (0 + j) % N = j
        BY <1>5, <2>1
      <3> QED
        BY <1>1, <3>1 DEF Slot, N
    <2>3. Live'[i] = platforms'[j]
      BY <1>7, <2>2 DEF Live
    <2> HIDE DEF j
    <2>4. platforms'[j].y = IF j = 0 THEN FirstY ELSE ResetY(j)
      BY <2>1 DEF ResetGame
    <2>5. j * MIN_PLATFORM_Y_DISTANCE \in Nat
      BY <2>1, Sizes
    <2>6. ResetY(j) >= FirstY
      BY <2>5, Sizes DEF ResetY
    <2> QED
      BY <2>3, <2>4, <2>6, Sizes
  <1>9. AtStart'
    BY <1>4, <1>7, <1>8 DEF AtStart
  <1> QED
    BY <1>1, <1>4, <1>9 DEF BallInv

\* A ball at rest hits no platform.
LEMMA RestingBall ==
    ASSUME RingTyped, BallInv, pc = "update", ball.dy = 0
    PROVE  /\ FoldLeft(FixCollision, MovedBall, Live) = MovedBall
           /\ \A i \in 1..InUse : ~Collides(MovedBall, Live[i])
  <1> DEFINE b == MovedBall
  <1>1. b \in Ball /\ b.dx = ball.dx /\ b.dy = ball.dy /\ b.y = ball.y + ball.dy /\ ball \in Ball
    BY MovedBallFields DEF BallInv
  <1>2. /\ InUse \in Nat /\ DOMAIN Live = 1..InUse
        /\ \A i \in 1..InUse : Live[i] \in Platform
    BY LivePlatforms
  <1>3. AtStart
    BY DEF BallInv
  <1> HIDE DEF b
  <1>4. ASSUME NEW i \in 1..InUse PROVE ~Collides(b, Live[i])
    <2>1. b.y = ARENA_HEIGHT \div 3 /\ b.y \in Int /\ ARENA_HEIGHT \div 3 \in Int
      BY <1>1, <1>3, Sizes DEF AtStart, Ball
    <2>2. b.y + Diameter = FirstY
      BY <2>1 DEF FirstY
    <2>3. FirstY <= Live[i].y
      BY <1>2, <1>3, Sizes DEF AtStart, Platform
    <2> QED
      BY <2>2, <2>3 DEF Collides
  <1>5. \A i \in 1..InUse : FixCollision(b, Live[i]) = b
    BY <1>4 DEF FixCollision
  <1>6. FoldLeft(FixCollision, b, Live) = b
    BY <1>2, <1>5, FoldStays
  <1> QED
    BY <1>4, <1>6 DEF b

\* update_objects.
LEMMA UpdateMovesBall ==
    ASSUME RingTyped, FlightOK, BallInv, UpdateObjects
    PROVE  BallInv'
  <1> DEFINE b == MovedBall
             f == FoldLeft(FixCollision, b, Live)
             M == {c \in Ball : c.dx = b.dx /\ c.dy = b.dy}
  <1>1. /\ b \in Ball /\ b.dx = ball.dx /\ b.dy = ball.dy /\ b.y = ball.y + ball.dy
        /\ ball \in Ball
    BY MovedBallFields DEF BallInv
  <1>2. /\ InUse \in Nat /\ DOMAIN Live = 1..InUse
        /\ \A i \in 1..InUse : Live[i] \in Platform
        /\ Range(Live) = {Live[i] : i \in 1..InUse}
    BY LivePlatforms
  <1>3. arena_y' = arena_y + ArenaSpeed
    BY DEF UpdateObjects
  <1>4. Kept(arena_y') # {}
    BY <1>3, RemovalStops
  <1> HIDE DEF b
  <1>5. f \in Ball /\ ~Immovable(b)
    <2>1. CASE b.dx = 0 /\ b.dy = 0
      <3>1. pc = "update" /\ ball.dy = 0
        BY <1>1, <2>1 DEF UpdateObjects
      <3>2. f = b /\ \A i \in 1..InUse : ~Collides(b, Live[i])
        BY <3>1, RestingBall DEF b
      <3>3. ~Immovable(b)
        BY <1>2, <3>2 DEF Immovable
      <3> QED
        BY <1>1, <3>2, <3>3
    <2>2. CASE b.dx # 0 \/ b.dy # 0
      <3>1. b \in M
        BY <1>1
      <3>2. ASSUME NEW c \in M, NEW i \in 1..InUse PROVE FixCollision(c, Live[i]) \in M
        <4>1. c \in Ball /\ c.dx = b.dx /\ c.dy = b.dy /\ Live[i] \in Platform
          BY <1>2
        <4>2. FixCollision(c, Live[i]) \in Ball
              /\ FixCollision(c, Live[i]).dx = c.dx /\ FixCollision(c, Live[i]).dy = c.dy
          BY <2>2, <4>1, FixCollisionType
        <4> QED
          BY <4>1, <4>2
      <3> HIDE DEF M
      <3>3. \A c \in M : \A i \in 1..InUse : FixCollision(c, Live[i]) \in M
        BY <3>2
      <3> DEFINE Ms == [m \in 0..InUse |-> M]
      <3>5. /\ b \in Ms[0] /\ Ms[InUse] = M
            /\ \A i \in 1..InUse : \A c \in Ms[i - 1] : FixCollision(c, Live[i]) \in Ms[i]
        <4>1. \A m \in 0..InUse : Ms[m] = M
          OBVIOUS
        <4>2. 0 \in 0..InUse /\ InUse \in 0..InUse
              /\ \A i \in 1..InUse : i \in 0..InUse /\ i - 1 \in 0..InUse
          BY <1>2
        <4> HIDE DEF Ms
        <4> QED
          BY <3>1, <3>3, <4>1, <4>2
      <3> HIDE DEF Ms
      <3>4. f \in M
        BY <1>2, <3>5, FoldKeeps
      <3> QED
        BY <2>2, <3>4 DEF M, Immovable
    <2> QED
      BY <2>1, <2>2
  <1>6. ball' = [f EXCEPT !.dy = BallSpeedY]
    BY DEF UpdateObjects, b
  <1> HIDE DEF f
  <1>7. ball' \in Ball /\ ball'.dy # 0
    <2>1. ball' = [x |-> f.x, y |-> f.y, dx |-> f.dx, dy |-> BallSpeedY]
      BY <1>5, <1>6 DEF Ball
    <2> QED
      BY <1>5, <2>1, Speeds DEF Ball
  <1>8. pc' = "input"
    BY <1>4, <1>5 DEF UpdateObjects, b
  <1> QED
    BY <1>7, <1>8 DEF BallInv

\* The greater and the smaller of two numbers.
LEMMA MaxMinOfTwo ==
    ASSUME NEW a \in Int, NEW c \in Int
    PROVE  /\ Max({a, c}) = IF a >= c THEN a ELSE c
           /\ Min({a, c}) = IF a <= c THEN a ELSE c
  <1>1. PICK m \in {a, c} : (\A y \in {a, c} : m >= y) /\ m = IF a >= c THEN a ELSE c
    OBVIOUS
  <1>2. Max({a, c}) \in {a, c} /\ \A y \in {a, c} : Max({a, c}) >= y
    BY <1>1, Zenon DEF Max
  <1>3. PICK n \in {a, c} : (\A y \in {a, c} : n <= y) /\ n = IF a <= c THEN a ELSE c
    OBVIOUS
  <1>4. Min({a, c}) \in {a, c} /\ \A y \in {a, c} : Min({a, c}) <= y
    BY <1>3, Zenon DEF Min
  <1> QED
    BY <1>2, <1>4

\* handle_input changes the speed only; a ball that moves to the left stops, or moves on.
LEMMA InputTurns ==
    ASSUME ball \in Ball, HandleInput
    PROVE  /\ ball' \in Ball
           /\ ball'.x = ball.x /\ ball'.y = ball.y /\ ball'.dy = ball.dy
           /\ ball.dx < 0 => ball'.dx <= 0
  <1> DEFINE l == Max({ball.dx - BallSpeedX, -BallSpeedX})
             r == Min({ball.dx + BallSpeedX, BallSpeedX})
  <1>2. /\ ball.dx \in {-BallSpeedX, 0, BallSpeedX} /\ BallSpeedX \in Nat /\ BallSpeedX > 0
        /\ ball.dx \in Int /\ -BallSpeedX \in Int
        /\ ball.dx - BallSpeedX \in Int /\ ball.dx + BallSpeedX \in Int
    BY Speeds DEF Ball
  <1>3. /\ l = IF ball.dx - BallSpeedX >= -BallSpeedX THEN ball.dx - BallSpeedX ELSE -BallSpeedX
        /\ r = IF ball.dx + BallSpeedX <= BallSpeedX THEN ball.dx + BallSpeedX ELSE BallSpeedX
    <2> DEFINE a == ball.dx - BallSpeedX
               c == -BallSpeedX
               d == ball.dx + BallSpeedX
    <2>1. a \in Int /\ c \in Int /\ d \in Int /\ BallSpeedX \in Int
      BY <1>2
    <2>2. l = Max({a, c}) /\ r = Min({d, BallSpeedX})
      OBVIOUS
    <2> HIDE DEF a, c, d, l, r
    <2>3. Max({a, c}) = IF a >= c THEN a ELSE c
      BY <2>1, MaxMinOfTwo, Zenon
    <2>4. Min({d, BallSpeedX}) = IF d <= BallSpeedX THEN d ELSE BallSpeedX
      BY <2>1, MaxMinOfTwo, Zenon
    <2> QED
      BY <2>2, <2>3, <2>4, Zenon DEF a, c, d
  <1> HIDE DEF l, r
  <1>4. l \in {-BallSpeedX, 0, BallSpeedX} /\ r \in {-BallSpeedX, 0, BallSpeedX}
    BY <1>2, <1>3
  <1>5. ball' = [ball EXCEPT !.dx = l] \/ ball' = [ball EXCEPT !.dx = r] \/ ball' = ball
    BY DEF HandleInput, l, r
  <1>6. /\ ball' \in Ball
        /\ ball'.x = ball.x /\ ball'.y = ball.y /\ ball'.dy = ball.dy
        /\ ball'.dx \in {l, r, ball.dx}
    BY <1>4, <1>5 DEF Ball
  <1>7. ball.dx < 0 => l <= 0 /\ r <= 0
    BY <1>2, <1>3
  <1> QED
    BY <1>2, <1>4, <1>6, <1>7

\* handle_input.
LEMMA InputKeepsBall ==
    ASSUME BallInv, HandleInput
    PROVE  BallInv'
  <1>1. ball \in Ball /\ ball.dy # 0 /\ pc' \in {"check", "exit"}
    BY DEF BallInv, HandleInput
  <1>2. ball' \in Ball /\ ball'.dy = ball.dy
    BY <1>1, InputTurns
  <1> QED
    BY <1>1, <1>2 DEF BallInv

\* The invariant of the moving ball.
LEMMA BallInvHolds == Spec => []BallInv
  <1>1. Init => BallInv
    BY Speeds DEF Init, BallInv, Ball
  <1>2. RingInv /\ BallInv /\ [Next]_vars => BallInv'
    <2> SUFFICES ASSUME RingInv, BallInv, [Next]_vars PROVE BallInv'
      OBVIOUS
    <2>1. CASE ResetGame
      BY <2>1, ResetPlacesBall DEF RingInv
    <2>2. CASE UpdateObjects
      <3>1. RingTyped /\ FlightOK
        BY <2>2 DEF RingInv, UpdateObjects
      <3> QED
        BY <2>2, <3>1, UpdateMovesBall
    <2>3. CASE HandleInput
      BY <2>3, InputKeepsBall
    <2>4. CASE CheckGameover
      BY <2>4 DEF CheckGameover, BallInv
    <2>5. CASE UNCHANGED vars
      <3>1. ball' = ball /\ pc' = pc
        BY <2>5 DEF vars
      <3>2. InUse' = InUse /\ Live' = Live
        BY <2>5, Zenon DEF vars, InUse, Live, Slot
      <3>3. AtStart => AtStart'
        BY <3>1, <3>2 DEF AtStart
      <3> QED
        BY <3>1, <3>3 DEF BallInv
    <2> QED
      BY <2>1, <2>2, <2>3, <2>4, <2>5 DEF Next
  <1> QED
    BY <1>1, <1>2, RingHolds, PTL DEF Spec

\* Every variable of the game keeps its type.
THEOREM TypeCorrect == Spec => []TypeOK
  <1>1. RingInv /\ BallInv => TypeOK
    BY DEF RingInv, RingTyped, BallInv, TypeOK, Ball, Buffer
  <1> QED
    BY <1>1, RingHolds, BallInvHolds, PTL

\* No loop of update_objects and of ball_reverse_to_collision runs for ever
\* and no assertion fails, in any game.
THEOREM GameIsNeverStuck == Spec => []NeverStuck
  <1>1. RingInv /\ BallInv => NeverStuck
    BY DEF RingInv, BallInv, NeverStuck
  <1> QED
    BY <1>1, RingHolds, BallInvHolds, PTL

-----------------------------------------------------------------------------
(* Where the ball is *)

\* The turns of ball_reverse_to_collision after which a ball that hit a platform is
\* above it, and beside it.
TurnsUp(b, p) == b.y + Diameter - p.y
TurnsAside(b, p) == IF b.dx < 0 THEN p.x + PLATFORM_WIDTH + 1 - b.x
                    ELSE b.x + Diameter - p.x

FirstTurn(b, p) == IF b.dx = 0 \/ TurnsUp(b, p) <= TurnsAside(b, p)
                   THEN TurnsUp(b, p) ELSE TurnsAside(b, p)

\* The ball f in place of a ball b that hit the platform p: to the right of it, to the
\* left of it, left alone by its right edge, or on top.
Pushed(b, p, f) ==
    /\ f \in Ball /\ f.dx = b.dx /\ f.dy = b.dy
    /\ \/ /\ b.dx < 0 /\ f.y = b.y
          /\ f.x \in {p.x + PLATFORM_WIDTH, p.x + PLATFORM_WIDTH + 1}
          /\ f.x - b.x <= TurnsUp(b, p)
       \/ /\ b.dx > 0 /\ f.y = b.y
          /\ f.x = p.x - Diameter
          /\ b.x - f.x <= TurnsUp(b, p)
       \/ /\ b.dx = 0 /\ f.y = b.y /\ f.x = b.x
          /\ b.x = p.x + PLATFORM_WIDTH
       \/ /\ f.x = b.x /\ f.y = p.y - Diameter
          /\ b.dx < 0 => b.x + TurnsUp(b, p) < p.x + PLATFORM_WIDTH
          /\ b.dx > 0 => TurnsUp(b, p) < b.x + Diameter - p.x
          /\ b.dx = 0 => b.x < p.x + PLATFORM_WIDTH

\* The numbers in a collision.
LEMMA HitFields ==
    ASSUME NEW b \in Ball, NEW p \in Platform
    PROVE  /\ Diameter \in Nat /\ Diameter > 0
           /\ PLATFORM_WIDTH \in Nat /\ PLATFORM_WIDTH > 0
           /\ PLATFORM_HEIGHT \in Nat /\ PLATFORM_HEIGHT > 0
           /\ b.x \in Int /\ b.y \in Int /\ b.dx \in Int /\ b.dy \in Int
           /\ p.x \in Nat /\ p.y \in Nat
  <1>1. Diameter \in Nat /\ Diameter > 0
    BY SizeAssumption DEF Diameter
  <1>2. b.x \in Int /\ b.y \in Int /\ b.dx \in {-BallSpeedX, 0, BallSpeedX} /\ b.dy \in {0, BallSpeedY}
    BY DEF Ball
  <1>3. b.dx \in Int /\ b.dy \in Int
    BY <1>2, Speeds
  <1>4. p.x \in Nat /\ p.y \in Nat
    BY DEF Platform
  <1> QED
    BY <1>1, <1>2, <1>3, <1>4, SizeAssumption

\* Where ball_reverse_to_collision stops.
LEMMA ReverseStops ==
    ASSUME NEW b \in Ball, b.dy > 0, NEW p \in Platform, Collides(b, p)
    PROVE  /\ FirstTurn(b, p) \in Nat
           /\ ReverseToCollision(b, p) = Reversed(b, FirstTurn(b, p))
  <1> DEFINE D == Diameter
             S == {k \in Turns : ~Collides(Reversed(b, k), p)}
             m == FirstTurn(b, p)
  <1>1. D \in Nat /\ D > 0 /\ PLATFORM_WIDTH \in Nat /\ PLATFORM_HEIGHT \in Nat
        /\ b.x \in Int /\ b.y \in Int /\ b.dx \in Int /\ p.x \in Nat /\ p.y \in Nat
    BY HitFields
  <1>2. /\ b.x + D > p.x /\ b.x <= p.x + PLATFORM_WIDTH
        /\ b.y + D > p.y /\ b.y <= p.y + PLATFORM_HEIGHT
    BY <1>1 DEF Collides
  <1>3. m \in Turns /\ m \in Nat
    BY <1>1, <1>2 DEF FirstTurn, TurnsUp, TurnsAside, Turns
  <1>4. Turns \subseteq Nat
    BY Sizes DEF Turns
  <1>5. ASSUME NEW k \in Nat, NEW r, r = Reversed(b, k)
        PROVE  Collides(r, p)
               <=> /\ k < b.y + D - p.y
                   /\ b.dx < 0 => k < p.x + PLATFORM_WIDTH + 1 - b.x
                   /\ b.dx > 0 => k < b.x + D - p.x
    <2>1. /\ r.y = b.y - k
          /\ r.x = IF b.dx < 0 THEN b.x + k ELSE IF b.dx > 0 THEN b.x - k ELSE b.x
      BY <1>5, ReversedFields, Zenon
    <2>2. Collides(r, p) <=> /\ r.x + D > p.x /\ r.x <= p.x + PLATFORM_WIDTH
                             /\ r.y + D > p.y /\ r.y <= p.y + PLATFORM_HEIGHT
      BY <1>1, <2>1 DEF Collides
    <2>3. CASE b.dx < 0
      BY <1>1, <1>2, <2>1, <2>2, <2>3
    <2>4. CASE b.dx > 0
      BY <1>1, <1>2, <2>1, <2>2, <2>4
    <2>5. CASE b.dx = 0
      BY <1>1, <1>2, <2>1, <2>2, <2>5
    <2> QED
      BY <1>1, <2>3, <2>4, <2>5
  <1> DEFINE P(k) == /\ k < b.y + D - p.y
                     /\ b.dx < 0 => k < p.x + PLATFORM_WIDTH + 1 - b.x
                     /\ b.dx > 0 => k < b.x + D - p.x
  <1>6. ~P(m) /\ \A k \in Nat : ~P(k) => m <= k
    BY <1>1, <1>2, <1>3 DEF FirstTurn, TurnsUp, TurnsAside
  <1>7. \A k \in Nat : Collides(Reversed(b, k), p) <=> P(k)
    BY <1>5
  <1> HIDE DEF P, m
  <1>8. m \in S /\ \A k \in S : m <= k
    BY <1>3, <1>4, <1>6, <1>7
  <1>9. S \in SUBSET Nat /\ S # {}
    BY <1>4, <1>8
  <1> HIDE DEF S
  <1>10. Min(S) \in S /\ \A k \in S : Min(S) <= k
    BY <1>9, MinExists
  <1>11. Min(S) = m
    <2>1. Min(S) \in Nat /\ Min(S) <= m /\ m <= Min(S)
      BY <1>8, <1>9, <1>10
    <2> QED
      BY <1>3, <2>1
  <1>12. ReverseToCollision(b, p) = Reversed(b, m)
    BY <1>11 DEF ReverseToCollision, S
  <1> QED
    BY <1>3, <1>12 DEF m

\* What ball_fix_collision does with a ball that falls.
LEMMA FixPushes ==
    ASSUME NEW b \in Ball, b.dy > 0, NEW p \in Platform, Collides(b, p)
    PROVE  Pushed(b, p, FixCollision(b, p))
  <1> DEFINE D == Diameter
             R == p.x + PLATFORM_WIDTH
             u == TurnsUp(b, p)
             k == FirstTurn(b, p)
             r == Reversed(b, k)
             f == FixCollision(b, p)
  <1>1. D \in Nat /\ D > 0 /\ PLATFORM_WIDTH \in Nat /\ PLATFORM_WIDTH > 0 /\ PLATFORM_HEIGHT \in Nat
        /\ b.x \in Int /\ b.y \in Int /\ b.dx \in Int /\ p.x \in Nat /\ p.y \in Nat
    BY HitFields
  <1>2. /\ b.x + D > p.x /\ b.x <= R
        /\ b.y + D > p.y /\ b.y <= p.y + PLATFORM_HEIGHT
    BY <1>1 DEF Collides
  <1>3. k \in Nat /\ ReverseToCollision(b, p) = r
    BY ReverseStops
  <1>4. /\ r \in Ball /\ r.y = b.y - k
        /\ r.x = IF b.dx < 0 THEN b.x + k ELSE IF b.dx > 0 THEN b.x - k ELSE b.x
    BY <1>3, ReversedFields
  <1> DEFINE beside == r.x + D <= p.x \/ r.x >= R
  <1>5. f = IF beside THEN [b EXCEPT !.x = r.x] ELSE [b EXCEPT !.y = r.y]
    BY <1>3, Zenon DEF FixCollision
  <1> HIDE DEF r, k
  <1>6. r.x \in Int /\ r.y \in Int
    BY <1>4 DEF Ball
  <1>7. /\ f \in Ball /\ f.dx = b.dx /\ f.dy = b.dy
        /\ beside => f.x = r.x /\ f.y = b.y
        /\ ~beside => f.x = b.x /\ f.y = r.y
    <2>1. CASE beside
      BY <1>5, <1>6, <2>1 DEF Ball
    <2>2. CASE ~beside
      BY <1>5, <1>6, <2>2 DEF Ball
    <2> QED
      BY <2>1, <2>2
  <1>8. u \in Int /\ u > 0 /\ b.y - u = p.y - D
    BY <1>1, <1>2 DEF TurnsUp
  <1> HIDE DEF u
  <1>9. CASE b.dx < 0
    <2>0. ~(b.dx > 0) /\ b.dx # 0
      BY <1>1, <1>9
    <2>1. /\ k <= u /\ k <= R + 1 - b.x /\ (k = u \/ k = R + 1 - b.x)
          /\ r.x = b.x + k
      BY <1>1, <1>4, <1>8, <1>9 DEF k, FirstTurn, TurnsAside, u
    <2>2. CASE beside
      <3>1. f.x = b.x + k /\ f.y = b.y /\ f.x >= R /\ f.x <= R + 1
        BY <1>1, <1>2, <1>3, <1>7, <2>1, <2>2
      <3>2. f.x \in {R, R + 1} /\ f.x - b.x <= u
        BY <1>1, <1>3, <1>8, <2>1, <3>1
      <3> QED
        BY <1>7, <1>9, <3>1, <3>2, Zenon DEF Pushed, u
    <2>3. CASE ~beside
      <3>1. k = u /\ b.x + u < R
        BY <1>1, <1>2, <1>3, <1>6, <1>8, <2>1, <2>3
      <3>2. f.x = b.x /\ f.y = p.y - D
        BY <1>4, <1>7, <1>8, <2>3, <3>1
      <3> QED
        BY <1>7, <2>0, <3>1, <3>2, Zenon DEF Pushed, u
    <2> QED
      BY <2>2, <2>3
  <1>10. CASE b.dx > 0
    <2>0. ~(b.dx < 0) /\ b.dx # 0
      BY <1>1, <1>10
    <2>1. /\ k <= u /\ k <= b.x + D - p.x /\ (k = u \/ k = b.x + D - p.x)
          /\ r.x = b.x - k
      BY <1>1, <1>4, <1>8, <1>10 DEF k, FirstTurn, TurnsAside, u
    <2>2. k > 0
      BY <1>1, <1>2, <1>8, <2>1
    <2>3. CASE beside
      <3>1. f.x = b.x - k /\ f.y = b.y /\ f.x = p.x - D
        BY <1>1, <1>2, <1>3, <1>7, <2>1, <2>2, <2>3
      <3>2. b.x - f.x <= u
        BY <1>1, <1>3, <1>8, <2>1, <3>1
      <3> QED
        BY <1>7, <1>10, <3>1, <3>2, Zenon DEF Pushed, u
    <2>4. CASE ~beside
      <3>1. k = u /\ u < b.x + D - p.x
        BY <1>1, <1>2, <1>3, <1>6, <1>8, <2>1, <2>4
      <3>2. f.x = b.x /\ f.y = p.y - D
        BY <1>4, <1>7, <1>8, <2>4, <3>1
      <3> QED
        BY <1>7, <2>0, <3>1, <3>2, Zenon DEF Pushed, u
    <2> QED
      BY <2>3, <2>4
  <1>11. CASE b.dx = 0
    <2>0. ~(b.dx < 0) /\ ~(b.dx > 0)
      BY <1>1, <1>11
    <2>1. k = u /\ r.x = b.x
      BY <1>1, <1>4, <1>11 DEF k, FirstTurn, u
    <2>2. CASE beside
      <3>1. f.x = b.x /\ f.y = b.y /\ b.x = R
        BY <1>1, <1>2, <1>7, <2>1, <2>2
      <3> QED
        BY <1>7, <1>11, <3>1, Zenon DEF Pushed
    <2>3. CASE ~beside
      <3>1. b.x < R /\ f.x = b.x /\ f.y = p.y - D
        BY <1>1, <1>4, <1>7, <1>8, <2>1, <2>3
      <3> QED
        BY <1>7, <2>0, <3>1, Zenon DEF Pushed
    <2> QED
      BY <2>2, <2>3
  <1>12. b.dx < 0 \/ b.dx > 0 \/ b.dx = 0
    BY <1>1
  <1> QED
    BY <1>9, <1>10, <1>11, <1>12

\* A ball that was put aside or on top of a platform is not in it.
LEMMA PushedIsOut ==
    ASSUME NEW b \in Ball, NEW p \in Platform, NEW f \in Ball, Pushed(b, p, f)
    PROVE  ~Overlaps(f, p)
  <1>1. /\ Diameter \in Nat /\ PLATFORM_WIDTH \in Nat /\ PLATFORM_WIDTH > 0
        /\ p.x \in Nat /\ p.y \in Nat /\ f.x \in Int /\ f.y \in Int /\ b.x \in Int
    BY HitFields
  <1>2. \/ f.x \in {p.x + PLATFORM_WIDTH, p.x + PLATFORM_WIDTH + 1}
        \/ f.x = p.x - Diameter
        \/ f.x = p.x + PLATFORM_WIDTH
        \/ f.y = p.y - Diameter
    BY Zenon DEF Pushed
  <1> QED
    BY <1>1, <1>2 DEF Overlaps

Apart(p, q) == \/ p.y + MIN_PLATFORM_Y_DISTANCE <= q.y
               \/ q.y + MIN_PLATFORM_Y_DISTANCE <= p.y

\* A ball that hits a platform hits no other one, neither there nor on top.
LEMMA HitsOnlyOne ==
    ASSUME NEW b \in Ball, NEW p \in Platform, NEW q \in Platform, NEW f \in Ball,
           Collides(b, p), Apart(p, q), f.y \in {b.y, p.y - Diameter}
    PROVE  ~Collides(f, q)
  <1>1. /\ Diameter \in Nat /\ PLATFORM_WIDTH \in Nat /\ PLATFORM_HEIGHT \in Nat
        /\ p.y \in Nat /\ q.y \in Nat /\ f.y \in Int /\ b.y \in Int
    BY HitFields
  <1>2. b.y + Diameter > p.y /\ b.y <= p.y + PLATFORM_HEIGHT
    BY <1>1 DEF Collides
  <1>3. /\ Diameter + PLATFORM_HEIGHT + BallSpeedY <= MIN_PLATFORM_Y_DISTANCE
        /\ BallSpeedY \in Nat /\ BallSpeedY > 0 /\ MIN_PLATFORM_Y_DISTANCE \in Nat
    BY BallAssumption, SizeAssumption
  <1>4. f.y + Diameter <= q.y \/ f.y > q.y + PLATFORM_HEIGHT
    <2>1. CASE p.y + MIN_PLATFORM_Y_DISTANCE <= q.y
      BY <1>1, <1>2, <1>3, <2>1
    <2>2. CASE q.y + MIN_PLATFORM_Y_DISTANCE <= p.y
      BY <1>1, <1>2, <1>3, <2>2
    <2> QED
      BY <2>1, <2>2 DEF Apart
  <1> QED
    BY <1>4 DEF Collides

\* The platforms in use are a minimal distance apart.
LEMMA LiveApart ==
    ASSUME RingTyped, FlightOK, NEW i \in 1..InUse, NEW j \in 1..InUse, i # j
    PROVE  Apart(Live[i], Live[j])
  <1>1. InUse \in Nat
    BY LivePlatforms
  <1>2. Spaced(platforms, platform_begin, InUse)
    BY Zenon DEF FlightOK, GoodFlight, InUse, N
  <1>3. ASSUME NEW k \in 1..InUse, NEW m \in 1..InUse, k < m
        PROVE  Live[k].y + MIN_PLATFORM_Y_DISTANCE <= Live[m].y
    <2>1. /\ k - 1 \in 0..(InUse - 1) /\ m - 1 \in 0..(InUse - 1) /\ k - 1 <= m - 1
          /\ (m - 1) - (k - 1) = m - k /\ m - k \in Nat /\ m - k >= 1
      BY <1>1, <1>3
    <2> DEFINE a == Stair(platforms, platform_begin, k - 1)
               c == Stair(platforms, platform_begin, m - 1)
    <2>2. (m - k) * MIN_PLATFORM_Y_DISTANCE <= c - a
      BY <1>2, <2>1 DEF Spaced
    <2>3. MIN_PLATFORM_Y_DISTANCE <= (m - k) * MIN_PLATFORM_Y_DISTANCE
      BY <2>1, Sizes, FactorGrows
    <2>4. Live[k].y = a /\ Live[m].y = c
      BY Zenon DEF Live, Slot, Stair, N
    <2>5. Live[k].y \in Nat /\ Live[m].y \in Nat
      BY LivePlatforms DEF Platform
    <2>6. (m - k) * MIN_PLATFORM_Y_DISTANCE \in Int /\ MIN_PLATFORM_Y_DISTANCE \in Nat
      BY <2>1, Sizes
    <2> HIDE DEF a, c
    <2> QED
      BY <2>2, <2>3, <2>4, <2>5, <2>6
  <1>4. i < j \/ j < i
    BY <1>1
  <1> QED
    BY <1>3, <1>4 DEF Apart

\* The loop of update_objects over the platforms: a ball that falls hits one of
\* them at most, and is in none afterwards.
LEMMA FallingBall ==
    ASSUME RingTyped, FlightOK, NEW b \in Ball, b.dy > 0,
           NEW f, f = FoldLeft(FixCollision, b, Live)
    PROVE  /\ f \in Ball
           /\ \/ f = b
              \/ \E j \in 1..InUse : /\ Collides(b, Live[j]) /\ Pushed(b, Live[j], f)
                                     /\ \A i \in 1..InUse : i # j => Apart(Live[j], Live[i])
           /\ \A i \in 1..InUse : ~Overlaps(f, Live[i])
  <1>1. /\ InUse \in Nat /\ DOMAIN Live = 1..InUse
        /\ \A i \in 1..InUse : Live[i] \in Platform
    BY LivePlatforms
  <1>2. ASSUME NEW c \in Ball, NEW q \in Platform, ~Collides(c, q)
        PROVE  FixCollision(c, q) = c /\ ~Overlaps(c, q)
    <2>1. FixCollision(c, q) = c
      BY <1>2, Zenon DEF FixCollision
    <2>2. /\ Diameter \in Nat /\ PLATFORM_WIDTH \in Nat /\ PLATFORM_HEIGHT \in Nat
          /\ q.x \in Nat /\ q.y \in Nat /\ c.x \in Int /\ c.y \in Int
      BY HitFields
    <2>3. ~Overlaps(c, q)
      BY <1>2, <2>2 DEF Collides, Overlaps
    <2> QED
      BY <2>1, <2>3
  <1>3. CASE \A i \in 1..InUse : ~Collides(b, Live[i])
    <2>1. \A i \in 1..InUse : FixCollision(b, Live[i]) = b /\ ~Overlaps(b, Live[i])
      BY <1>1, <1>2, <1>3, Zenon
    <2>2. f = b
      BY <1>1, <2>1, FoldStays, Zenon
    <2> QED
      BY <2>1, <2>2, Zenon
  <1>4. ASSUME NEW j \in 1..InUse, Collides(b, Live[j])
        PROVE  /\ f \in Ball /\ Pushed(b, Live[j], f)
               /\ \A i \in 1..InUse : i # j => Apart(Live[j], Live[i])
               /\ \A i \in 1..InUse : ~Overlaps(f, Live[i])
    <2> DEFINE g == FixCollision(b, Live[j])
               M == [m \in 0..InUse |-> IF m < j THEN {b} ELSE {g}]
    <2>1. Pushed(b, Live[j], g)
      BY <1>1, <1>4, FixPushes, Zenon
    <2> HIDE DEF g
    <2>2. g \in Ball /\ g.y \in {b.y, Live[j].y - Diameter}
      BY <2>1 DEF Pushed
    <2>3. \A i \in 1..InUse : i # j => Apart(Live[j], Live[i])
      BY LiveApart
    <2>4. ASSUME NEW i \in 1..InUse, i # j
          PROVE  ~Collides(b, Live[i]) /\ ~Collides(g, Live[i])
      <3>1. Apart(Live[j], Live[i]) /\ Live[i] \in Platform /\ Live[j] \in Platform
        BY <1>1, <2>3, <2>4
      <3>2. b.y \in {b.y, Live[j].y - Diameter}
        OBVIOUS
      <3> QED
        BY <1>4, <2>2, <3>1, <3>2, HitsOnlyOne, Zenon
    <2>5. \A i \in 1..InUse : i # j => FixCollision(b, Live[i]) = b /\ FixCollision(g, Live[i]) = g
                                        /\ ~Overlaps(g, Live[i])
      BY <1>1, <1>2, <2>2, <2>4, Zenon
    <2>6. /\ M[0] = {b} /\ M[InUse] = {g}
          /\ \A i \in 1..InUse : \/ i < j /\ M[i - 1] = {b} /\ M[i] = {b}
                                 \/ i = j /\ M[i - 1] = {b} /\ M[i] = {g}
                                 \/ i > j /\ M[i - 1] = {g} /\ M[i] = {g}
      BY <1>1
    <2> HIDE DEF M
    <2>7. \A i \in 1..InUse : \A c \in M[i - 1] : FixCollision(c, Live[i]) \in M[i]
      <3> TAKE i \in 1..InUse
      <3>1. CASE i = j
        BY <1>1, <2>6, <3>1 DEF g
      <3>2. CASE i # j
        BY <1>1, <2>5, <2>6, <3>2
      <3> QED
        BY <3>1, <3>2
    <2>8. f \in M[InUse]
      BY <1>1, <2>6, <2>7, FoldKeeps
    <2>9. f = g
      BY <2>6, <2>8
    <2>10. ~Overlaps(g, Live[j])
      BY <1>1, <2>1, <2>2, PushedIsOut, Zenon
    <2> QED
      BY <2>1, <2>2, <2>3, <2>5, <2>9, <2>10, Zenon
  <1> QED
    BY <1>3, <1>4, Zenon

\* A platform that leaves a gap exactly as wide as the ball at the right wall, at
\* the height of the ball.
Beside(b, q) ==
    /\ q.x + PLATFORM_WIDTH = ARENA_WIDTH - Diameter
    /\ b.y <= q.y + PLATFORM_HEIGHT /\ q.y < b.y + Diameter

\* The ball is in the arena, or one pixel in the right wall.
InWalls(b) ==
    \/ b.x \in 0..(ARENA_WIDTH - Diameter)
    \/ /\ b.x = ARENA_WIDTH - Diameter + 1
       /\ b.dx <= 0

\* Numbers of the game.
LEMMA Measures ==
    /\ Diameter \in Nat /\ Diameter > 0 /\ ARENA_WIDTH \in Nat
    /\ PLATFORM_WIDTH \in Nat /\ PLATFORM_WIDTH > 0
    /\ PLATFORM_HEIGHT \in Nat /\ PLATFORM_HEIGHT > 0
    /\ BallSpeedX \in Nat /\ BallSpeedX > 0 /\ BallSpeedY = BallSpeedX
    /\ MIN_PLATFORM_Y_DISTANCE \in Nat
    /\ 2 * Diameter + PLATFORM_WIDTH <= ARENA_WIDTH
    /\ Diameter + BallSpeedX <= ARENA_WIDTH
    /\ Diameter + PLATFORM_HEIGHT + BallSpeedX <= MIN_PLATFORM_Y_DISTANCE
  <1>1. Diameter \in Nat /\ Diameter > 0
    BY SizeAssumption DEF Diameter
  <1> QED
    BY <1>1, SizeAssumption, BallAssumption

\* How far a ball moves in a frame.
LEMMA MovedBallPlace ==
    ASSUME ball \in Ball, InWalls(ball), NEW b, b = MovedBall
    PROVE  /\ b.x \in 0..(ARENA_WIDTH - Diameter)
           /\ b.y = ball.y + ball.dy
           /\ ball.dx < 0 => /\ ball.dx = -BallSpeedX
                             /\ b.x <= ball.x
                             /\ b.x + BallSpeedX >= ball.x
                             /\ b.x = 0 \/ b.x + BallSpeedX = ball.x
           /\ ball.dx = 0 => b.x = ball.x \/ (b.x = ARENA_WIDTH - Diameter /\ ball.x = b.x + 1)
           /\ ball.dx > 0 => /\ ball.dx = BallSpeedX
                             /\ ball.x <= b.x
                             /\ b.x <= ball.x + BallSpeedX
                             /\ b.x = ARENA_WIDTH - Diameter \/ b.x = ball.x + BallSpeedX
  <1> DEFINE x0 == ball.x + ball.dx
             x == IF x0 < 0 THEN 0
                  ELSE IF x0 + Diameter >= ARENA_WIDTH THEN ARENA_WIDTH - Diameter ELSE x0
             y == ball.y + ball.dy
  <1>1. /\ ball.x \in Int /\ ball.y \in Int /\ ball.dx \in {-BallSpeedX, 0, BallSpeedX}
        /\ ball.x \in 0..(ARENA_WIDTH - Diameter + 1)
        /\ ball.x = ARENA_WIDTH - Diameter + 1 => ball.dx <= 0
    <2>1. ball.x \in Int /\ ball.y \in Int /\ ball.dx \in {-BallSpeedX, 0, BallSpeedX}
      BY DEF Ball
    <2> QED
      BY <2>1, Measures DEF InWalls
  <1>2. b = [ball EXCEPT !.x = x, !.y = y]
    BY DEF MovedBall
  <1> HIDE DEF x, y
  <1>3. b = [x |-> x, y |-> y, dx |-> ball.dx, dy |-> ball.dy]
    BY <1>2 DEF Ball
  <1>4. b.x = x /\ b.y = ball.y + ball.dy
    BY <1>3 DEF y
  <1>5. CASE ball.dx = -BallSpeedX
    BY <1>1, <1>4, <1>5, Measures DEF x
  <1>6. CASE ball.dx = 0
    BY <1>1, <1>4, <1>6, Measures DEF x
  <1>7. CASE ball.dx = BallSpeedX
    BY <1>1, <1>4, <1>7, Measures DEF x
  <1> QED
    BY <1>1, <1>5, <1>6, <1>7

\* The ball that is in the wall because of the platform q hits no other platform whose
\* edge is one pixel further right.
LEMMA NoneBehind ==
    ASSUME ball \in Ball, NEW b \in Ball, b.y = ball.y + BallSpeedX,
           NEW p \in Platform, NEW q \in Platform, Beside(ball, q),
           Collides(b, p), Apart(p, q)
    PROVE  FALSE
  <1>1. b.y + Diameter > p.y /\ b.y <= p.y + PLATFORM_HEIGHT
    BY HitFields DEF Collides
  <1>2. ball.y <= q.y + PLATFORM_HEIGHT /\ q.y < ball.y + Diameter
    BY DEF Beside
  <1>3. p.y \in Nat /\ q.y \in Nat /\ ball.y \in Int /\ b.y \in Int
    BY HitFields
  <1>4. CASE p.y + MIN_PLATFORM_Y_DISTANCE <= q.y
    BY <1>1, <1>2, <1>3, <1>4, Measures
  <1>5. CASE q.y + MIN_PLATFORM_Y_DISTANCE <= p.y
    BY <1>1, <1>2, <1>3, <1>5, Measures
  <1> QED
    BY <1>4, <1>5 DEF Apart

PutOnTopOf(f, p) ==
    /\ ball.y + Diameter > p.y
    /\ f.y + Diameter <= p.y

\* Where ball_fix_collision puts a ball that was beside the platform or above it: in
\* the arena, or one pixel in the right wall; on top only if it was above or wedged.
LEMMA PushedPlace ==
    ASSUME ball \in Ball, ball.dy = BallSpeedY, InWalls(ball),
           NEW b \in Ball, b = MovedBall,
           NEW p \in Platform, ~Overlaps(ball, p), Collides(b, p),
           ball.x = ARENA_WIDTH - Diameter + 1
             => p.x + PLATFORM_WIDTH # ARENA_WIDTH - Diameter + 1,
           NEW f \in Ball, Pushed(b, p, f)
    PROVE  /\ \/ f.x \in 0..(ARENA_WIDTH - Diameter)
              \/ f.x = ARENA_WIDTH - Diameter + 1 /\ f.dx < 0 /\ Beside(f, p)
           /\ PutOnTopOf(f, p) => Wedged(p)
  <1> DEFINE D == Diameter
             W == ARENA_WIDTH
             V == BallSpeedX
             PW == PLATFORM_WIDTH
             PH == PLATFORM_HEIGHT
             R == p.x + PW
             u == TurnsUp(b, p)
             x == ball.x
             y == ball.y
  <1>1. /\ D \in Nat /\ D > 0 /\ W \in Nat /\ V \in Nat /\ V > 0 /\ PW \in Nat /\ PW > 0
        /\ PH \in Nat /\ 2 * D + PW <= W /\ D + V <= W
    BY Measures
  <1>2. /\ p.x \in Nat /\ p.y \in Nat /\ x \in Int /\ y \in Int /\ b.x \in Int /\ b.y \in Int
        /\ f.x \in Int /\ f.y \in Int /\ ball.dx \in Int
    BY HitFields
  <1>3. /\ b.x + D > p.x /\ b.x <= R
        /\ b.y + D > p.y /\ b.y <= p.y + PH
    BY <1>1, <1>2 DEF Collides
  <1>4. b.dx = ball.dx /\ b.dy = ball.dy
    BY MovedBallFields
  <1>5. /\ b.x \in 0..(W - D) /\ b.y = y + V
        /\ ball.dx < 0 => /\ b.x <= x /\ b.x + V >= x
                          /\ b.x = 0 \/ b.x + V = x
        /\ ball.dx = 0 => b.x = x \/ (b.x = W - D /\ x = b.x + 1)
        /\ ball.dx > 0 => /\ x <= b.x /\ b.x <= x + V
                          /\ b.x = W - D \/ b.x = x + V
    BY MovedBallPlace, Measures
  <1>6. /\ x \in 0..(W - D + 1)
        /\ x = W - D + 1 => ball.dx <= 0 /\ R # W - D + 1
    BY <1>1, <1>2 DEF InWalls
  <1>7. x >= R \/ x + D <= p.x \/ y + D <= p.y
    BY <1>1, <1>2, <1>3, <1>5 DEF Overlaps
  <1>8. u = b.y + D - p.y /\ u \in Int /\ u > 0
    BY <1>1, <1>2, <1>3 DEF TurnsUp
  <1>9. /\ f.dx = ball.dx
        /\ \/ /\ ball.dx < 0 /\ f.y = b.y
              /\ f.x \in {R, R + 1}
              /\ f.x - b.x <= u
           \/ /\ ball.dx > 0 /\ f.y = b.y
              /\ f.x = p.x - D
              /\ b.x - f.x <= u
           \/ /\ ball.dx = 0 /\ f.y = b.y /\ f.x = b.x
              /\ b.x = R
           \/ /\ f.x = b.x /\ f.y = p.y - D
              /\ ball.dx < 0 => b.x + u < R
              /\ ball.dx > 0 => u < b.x + D - p.x
              /\ ball.dx = 0 => b.x < R
    BY <1>4 DEF Pushed
  <1> HIDE DEF u, x, y, R, D, W, V, PW, PH
  <1>10. R = p.x + PW
    BY DEF R
  <1>11. CASE /\ ball.dx < 0 /\ f.y = b.y
              /\ f.x \in {R, R + 1}
              /\ f.x - b.x <= u
    <2>1. R <= x \/ R <= V
      <3>1. CASE x >= R
        BY <1>1, <1>2, <1>10, <3>1
      <3>2. CASE x + D <= p.x
        BY <1>1, <1>2, <1>3, <1>5, <1>11, <3>2
      <3>3. CASE y + D <= p.y
        <4>1. u <= V
          BY <1>1, <1>2, <1>5, <1>8, <3>3
        <4>2. R <= b.x + V
          BY <1>1, <1>2, <1>8, <1>10, <1>11, <4>1
        <4> QED
          BY <1>1, <1>2, <1>5, <1>10, <1>11, <4>2
      <3> QED
        BY <1>7, <3>1, <3>2, <3>3
    <2>2. R <= W - D
      BY <1>1, <1>2, <1>6, <1>10, <2>1
    <2>3. f.x \in 0..(W - D) \/ (f.x = W - D + 1 /\ R = W - D)
      BY <1>1, <1>2, <1>10, <1>11, <2>2
    <2>4. f.y <= p.y + PH /\ p.y < f.y + D
      BY <1>1, <1>2, <1>3, <1>11
    <2>5. R = W - D => Beside(f, p)
      BY <2>4 DEF Beside, R, W, D, PW, PH
    <2>6. ~PutOnTopOf(f, p)
      BY <1>1, <1>2, <2>4 DEF PutOnTopOf, D
    <2> QED
      BY <1>9, <1>11, <2>3, <2>5, <2>6 DEF W, D
  <1>12. CASE /\ ball.dx > 0 /\ f.y = b.y
              /\ f.x = p.x - D
              /\ b.x - f.x <= u
    <2>1. p.x >= D
      <3>1. CASE x >= R
        <4>1. x = b.x /\ x = R /\ b.x = W - D
          BY <1>1, <1>2, <1>3, <1>5, <1>10, <1>12, <3>1
        <4>2. D + D + PW <= W
          BY <1>1
        <4>3. p.x + PW = W - D
          BY <1>10, <4>1, Zenon
        <4> QED
          BY <1>1, <1>2, <4>2, <4>3
      <3>2. CASE x + D <= p.x
        BY <1>1, <1>2, <1>6, <3>2
      <3>3. CASE y + D <= p.y
        <4>1. u <= V
          BY <1>1, <1>2, <1>5, <1>8, <3>3
        <4>2. b.x + D - p.x <= V
          BY <1>1, <1>2, <1>8, <1>12, <4>1
        <4> QED
          BY <1>1, <1>2, <1>5, <1>6, <1>12, <4>2
      <3> QED
        BY <1>7, <3>1, <3>2, <3>3
    <2>2. f.x \in 0..(W - D)
      BY <1>1, <1>2, <1>3, <1>5, <1>12, <2>1
    <2>3. ~PutOnTopOf(f, p)
      BY <1>1, <1>2, <1>3, <1>12 DEF PutOnTopOf, D
    <2> QED
      BY <2>2, <2>3 DEF W, D
  <1>13. CASE ball.dx = 0 /\ f.y = b.y /\ f.x = b.x /\ b.x = R
    <2>1. f.x \in 0..(W - D)
      BY <1>5, <1>13
    <2>2. ~PutOnTopOf(f, p)
      BY <1>1, <1>2, <1>3, <1>13 DEF PutOnTopOf, D
    <2> QED
      BY <2>1, <2>2 DEF W, D
  <1>14. CASE /\ f.x = b.x /\ f.y = p.y - D
              /\ ball.dx < 0 => b.x + u < R
              /\ ball.dx > 0 => u < b.x + D - p.x
              /\ ball.dx = 0 => b.x < R
    <2>1. f.x \in 0..(W - D)
      BY <1>5, <1>14
    <2>2. ASSUME PutOnTopOf(f, p)
          PROVE  ball.dx > 0 /\ x = W - D /\ x = R
      <3>1. y + D > p.y
        BY <2>2 DEF PutOnTopOf, y, D
      <3>2. u > V
        BY <1>1, <1>2, <1>5, <1>8, <3>1
      <3>3. CASE x >= R
        <4>1. ~(ball.dx < 0)
          BY <1>1, <1>2, <1>5, <1>8, <1>10, <1>14, <3>2, <3>3
        <4>2. ball.dx # 0
          BY <1>1, <1>2, <1>5, <1>6, <1>10, <1>14, <3>3
        <4>3. ball.dx > 0
          BY <1>2, <4>1, <4>2
        <4> QED
          BY <1>1, <1>2, <1>3, <1>5, <1>10, <3>3, <4>3
      <3>4. CASE x + D <= p.x
        <4>1. ball.dx > 0
          BY <1>1, <1>2, <1>3, <1>5, <3>4
        <4> QED
          BY <1>1, <1>2, <1>5, <1>8, <1>14, <3>2, <3>4, <4>1
      <3> QED
        BY <1>1, <1>2, <1>7, <3>1, <3>3, <3>4
    <2>3. PutOnTopOf(f, p) => Wedged(p)
      BY <2>2 DEF Wedged, x, W, D, R, PW
    <2> QED
      BY <2>1, <2>3 DEF W, D
  <1> QED
    BY <1>9, <1>11, <1>12, <1>13, <1>14

\* update_objects takes platforms that are out from the ring, and puts one at most into it,
\* at the bottom of the arena.
LEMMA UpdateTurnsTheRing ==
    ASSUME RingTyped, FlightOK, UpdateObjects
    PROVE  /\ \A i \in 1..InUse' : \/ \E j \in 1..InUse : Live'[i] = Live[j]
                                   \/ Live'[i].y = arena_y' + ARENA_HEIGHT
           /\ \A j \in 1..InUse :
                ~Out(Live[j], arena_y') => \E i \in 1..InUse' : Live'[i] = Live[j]
  <1> DEFINE t == arena_y + ArenaSpeed
             p == platforms
             b == platform_begin
             e == platform_end
             n == InUse
             k == Min(Kept(t))
             c == (b + k) % N
             m == (e - c) % N
  <1>1. p \in Buffer /\ b \in Slots /\ e \in Slots
    BY DEF RingTyped
  <1>2. /\ t \in Nat /\ Kept(t) # {} /\ k \in 0..(n - 1) /\ n \in Nat /\ n = (e - b) % N
        /\ \A i \in 0..(k - 1) : Stair(p, b, i) + PLATFORM_HEIGHT < t
    <2>1. n = (e - b) % N
      BY DEF InUse, N
    <2> QED
      BY <2>1, RemovalStops
  <1>3. /\ arena_y' = t /\ platform_begin' = c
        /\ \/ /\ MayGenerate(c, t + ARENA_HEIGHT)
              /\ \E x \in PlatformX : Generate(x, t + ARENA_HEIGHT)
           \/ UNCHANGED <<platforms, platform_end, last_platform_y>>
    BY <1>2 DEF UpdateObjects, Slot, N
  <1> HIDE DEF t, k
  <1>4. /\ c \in Slots /\ m = n - k
        /\ \A i \in 0..(n - k - 1) : (c + i) % N = (b + (k + i)) % N
    <2>1. k \in 0..(((e - b) % N) - 1) /\ n = (e - b) % N
      BY <1>2
    <2> HIDE DEF n
    <2>2. /\ c \in Slots
          /\ m = ((e - b) % N) - k
          /\ \A i \in 0..(((e - b) % N) - k - 1) : (c + i) % N = (b + (k + i)) % N
      BY <1>1, <2>1, RingDrop, ZenonT(30)
    <2> QED
      BY <2>1, <2>2, Zenon
  <1>5. k \in Nat /\ m \in Nat
    BY <1>2, <1>4
  <1>6. /\ \A i \in 1..n : Live[i] = p[(b + (i - 1)) % N]
        /\ InUse' = (platform_end' - c) % N
        /\ \A i \in 1..InUse' : Live'[i] = platforms'[(c + (i - 1)) % N]
    BY <1>3, Zenon DEF Live, Slot, InUse, N
  <1> HIDE DEF c, m, n
  <1>7. \A i \in 1..m : k + i \in 1..n /\ Live[k + i] = p[(c + (i - 1)) % N]
    <2> TAKE i \in 1..m
    <2>1. i - 1 \in 0..(n - k - 1) /\ k + i \in 1..n /\ (k + i) - 1 = k + (i - 1)
      BY <1>2, <1>4, <1>5
    <2> QED
      BY <1>4, <1>6, <2>1
  <1>8. /\ InUse' \in {m, m + 1}
        /\ \A i \in 1..m : Live'[i] = Live[k + i]
        /\ InUse' = m + 1 => Live'[m + 1].y = t + ARENA_HEIGHT
    <2>1. CASE /\ MayGenerate(c, t + ARENA_HEIGHT)
               /\ \E x \in PlatformX : Generate(x, t + ARENA_HEIGHT)
      <3>1. (e + 1) % N # c
        BY <2>1 DEF MayGenerate, Full, N
      <3>2. /\ (((e + 1) % N) - c) % N = m + 1
            /\ (c + m) % N = e
            /\ \A i \in 0..(m - 1) : (c + i) % N # e
        BY <1>1, <1>4, <3>1, RingAppend, Zenon DEF m
      <3>3. PICK x \in PlatformX : Generate(x, t + ARENA_HEIGHT)
        BY <2>1
      <3>4. /\ platforms' = [p EXCEPT ![e] = [x |-> x, y |-> t + ARENA_HEIGHT]]
            /\ platform_end' = (e + 1) % N
        BY <3>3 DEF Generate, N
      <3>5. InUse' = m + 1
        BY <1>6, <3>2, <3>4, Zenon
      <3>6. \A i \in 1..m : Live'[i] = Live[k + i]
        <4> TAKE i \in 1..m
        <4>1. i - 1 \in 0..(m - 1) /\ i \in 1..InUse'
          BY <1>5, <3>5
        <4>2. (c + (i - 1)) % N # e
          BY <3>2, <4>1, Zenon
        <4> DEFINE s == (c + (i - 1)) % N
        <4>3. s \in Slots
          <5>1. i - 1 \in Slots
            BY <1>1, <1>2, <1>4, <1>5, <4>1, SlotsWrap, Sizes DEF Slots, N
          <5> QED
            BY <1>4, <5>1, WrapUp, Sizes DEF Slots, N
        <4> HIDE DEF s
        <4>4. platforms'[s] = p[s]
          BY <1>1, <3>4, <4>2, <4>3 DEF Buffer, s
        <4> QED
          BY <1>6, <1>7, <4>1, <4>4, Zenon DEF s
      <3>7. Live'[m + 1].y = t + ARENA_HEIGHT
        <4>1. m + 1 \in 1..InUse' /\ (m + 1) - 1 = m
          BY <1>5, <3>5
        <4>2. Live'[m + 1] = platforms'[e]
          BY <1>6, <3>2, <4>1
        <4> QED
          BY <1>1, <3>4, <4>2 DEF Buffer
      <3> QED
        BY <3>5, <3>6, <3>7
    <2>2. CASE UNCHANGED <<platforms, platform_end, last_platform_y>>
      <3>1. platforms' = p /\ platform_end' = e
        BY <2>2
      <3>2. InUse' = m
        BY <1>6, <3>1 DEF m
      <3>3. m # m + 1
        BY <1>5
      <3> QED
        BY <1>6, <1>7, <3>1, <3>2, <3>3
    <2> QED
      BY <1>3, <2>1, <2>2
  <1>9. ASSUME NEW i \in 1..InUse'
        PROVE  \/ \E j \in 1..InUse : Live'[i] = Live[j]
               \/ Live'[i].y = arena_y' + ARENA_HEIGHT
    <2>1. i \in 1..m \/ (i = m + 1 /\ InUse' = m + 1)
      BY <1>5, <1>8
    <2>2. CASE i \in 1..m
      BY <1>7, <1>8, <2>2 DEF n
    <2>3. CASE i = m + 1 /\ InUse' = m + 1
      BY <1>3, <1>8, <2>3
    <2> QED
      BY <2>1, <2>2, <2>3
  <1>10. ASSUME NEW j \in 1..n, ~Out(Live[j], arena_y')
         PROVE  \E i \in 1..InUse' : Live'[i] = Live[j]
    <2>1. ~(j <= k)
      <3> SUFFICES ASSUME j <= k PROVE FALSE
        OBVIOUS
      <3>1. j - 1 \in 0..(k - 1)
        BY <1>5
      <3>2. Stair(p, b, j - 1) + PLATFORM_HEIGHT < t
        BY <1>2, <3>1
      <3>3. Live[j].y = Stair(p, b, j - 1)
        BY <1>6 DEF Stair
      <3> QED
        BY <1>3, <1>10, <3>2, <3>3 DEF Out
    <2>2. j - k \in 1..m /\ k + (j - k) = j /\ j - k \in 1..InUse'
      BY <1>2, <1>4, <1>5, <1>8, <2>1
    <2> QED
      BY <1>8, <2>2
  <1> QED
    BY <1>9, <1>10 DEF n

\* Where the ball is: in no platform, but for one that is yet to come; in the arena or
\* one pixel in its right wall, which it then leaves, since it does not move to the right.
BallPlace ==
    /\ InWalls(ball)
    /\ ball.x = ARENA_WIDTH - Diameter + 1 =>
         /\ pc = "input" => ball.dx < 0
         /\ ball.y >= arena_y => \E i \in 1..InUse : Beside(ball, Live[i])

FreeInv == pc \in {"update", "input", "check"} =>
    /\ BallPlace
    /\ \A i \in 1..InUse : \/ ~Overlaps(ball, Live[i])
                           \/ pc # "update" /\ Live[i].y >= arena_y + ARENA_HEIGHT
    /\ pc = "update" => ball.y >= arena_y /\ ball.y + Diameter <= arena_y + ARENA_HEIGHT

\* The platforms in use after a step.
LEMMA LivePlatformsNext == RingTyped' => \A i \in 1..InUse' : Live'[i] \in Platform
  <1>1. RingTyped => \A i \in 1..InUse : Live[i] \in Platform
    BY LivePlatforms
  <1>2. (RingTyped => \A i \in 1..InUse : Live[i] \in Platform)'
    BY <1>1, PTL
  <1> QED
    BY <1>2

\* reset_game.
LEMMA ResetFreesBall ==
    ASSUME RingTyped, ResetGame
    PROVE  FreeInv'
  <1>1. BallInv' /\ arena_y' = 0
    BY ResetPlacesBall DEF ResetGame
  <1>2. /\ ball' = [x  |-> ARENA_WIDTH \div 2 - BALL_RADIUS, y |-> ARENA_HEIGHT \div 3,
                    dx |-> 0, dy |-> 0]
        /\ pc' = "update"
    <2>1. pc' = "update"
      BY OthersFit DEF ResetGame, N
    <2> QED
      BY <2>1 DEF ResetGame
  <1>3. /\ ball'.x = ARENA_WIDTH \div 2 - BALL_RADIUS
        /\ ball'.y = ARENA_HEIGHT \div 3 /\ ball'.dx = 0 /\ ball'.dy = 0
    BY <1>2
  <1>4. AtStart'
    BY <1>1, <1>2, <1>3 DEF BallInv
  <1>5. ball'.x \in 0..(ARENA_WIDTH - Diameter)
    <2> DEFINE h == ARENA_WIDTH \div 2
    <2>1. h \in Nat /\ 2 * h <= ARENA_WIDTH /\ ARENA_WIDTH < 2 * h + 2
      BY Measures
    <2>2. BALL_RADIUS \in Nat /\ Diameter = 2 * BALL_RADIUS /\ ball'.x = h - BALL_RADIUS
      BY <1>3, SizeAssumption DEF Diameter
    <2>3. 2 * Diameter <= ARENA_WIDTH /\ ARENA_WIDTH \in Nat
      BY Measures
    <2> HIDE DEF h
    <2> QED
      BY <2>1, <2>2, <2>3
  <1>6. BallPlace'
    <2>1. ball'.x # ARENA_WIDTH - Diameter + 1
      BY <1>5, Measures
    <2> QED
      BY <1>5, <2>1 DEF BallPlace, InWalls
  <1>7. ball'.y \in Nat /\ ball'.y + Diameter = FirstY
    BY <1>3, Sizes, Measures DEF FirstY
  <1>8. FirstY <= ARENA_HEIGHT
    <2>1. FirstY + MIN_PLATFORM_Y_DISTANCE < ARENA_HEIGHT - PLATFORM_HEIGHT
      BY FlightAssumption, Sizes DEF ResetY
    <2>2. FirstY \in Int /\ ARENA_HEIGHT \in Nat
      BY <1>7, Sizes, Measures
    <2> QED
      BY <2>1, <2>2, Measures
  <1>9. ASSUME NEW i \in 1..InUse'
        PROVE  ~Overlaps(ball, Live[i])'
    <2>1. Live'[i].y >= FirstY
      BY <1>4 DEF AtStart
    <2>2. ~(Live'[i].y < ball'.y + Diameter)
      <3>1. Live'[i].y \in Nat
        <4>1. RingTyped'
          BY ResetKeeps DEF RingInv
        <4>2. Live'[i] \in Platform
          BY <4>1, LivePlatformsNext
        <4> QED
          BY <4>2 DEF Platform
      <3> QED
        BY <1>7, <2>1, <3>1, Measures
    <2> QED
      BY <2>2 DEF Overlaps
  <1> QED
    BY <1>1, <1>2, <1>6, <1>7, <1>8, <1>9, Sizes DEF FreeInv

\* update_objects.
LEMMA UpdateFreesBall ==
    ASSUME RingTyped, FlightOK, BallInv, FreeInv, UpdateObjects
    PROVE  /\ FreeInv'
           /\ \A p \in Range(Live) : PutOnTop(p) => Wedged(p)
  <1> DEFINE b == MovedBall
             f == FoldLeft(FixCollision, b, Live)
             D == Diameter
             W == ARENA_WIDTH
  <1>1. ball \in Ball /\ ball.dy \in {0, BallSpeedY} /\ ball.y \in Int
    BY DEF BallInv, Ball
  <1>2. /\ InUse \in Nat /\ DOMAIN Live = 1..InUse
        /\ \A i \in 1..InUse : Live[i] \in Platform
        /\ Range(Live) = {Live[i] : i \in 1..InUse}
    BY LivePlatforms
  <1>3. /\ BallPlace /\ InWalls(ball) /\ ball.y >= arena_y
        /\ \A i \in 1..InUse : ~Overlaps(ball, Live[i])
        /\ pc = "update"
    BY DEF FreeInv, UpdateObjects, BallPlace
  <1>4. /\ b \in Ball /\ b.dx = ball.dx /\ b.dy = ball.dy
        /\ b.y = ball.y + ball.dy /\ b.x \in 0..(W - D)
    BY <1>1, <1>3, MovedBallFields, MovedBallPlace, Zenon
  <1> HIDE DEF b, f
  \* What becomes of the ball.
  <1>5. /\ f \in Ball
        /\ \A i \in 1..InUse : ~Overlaps(f, Live[i])
        /\ \/ f.x \in 0..(W - D)
           \/ /\ f.x = W - D + 1 /\ f.dx < 0
              /\ \E i \in 1..InUse : Beside(f, Live[i])
        /\ \A i \in 1..InUse : PutOnTopOf(f, Live[i]) => Wedged(Live[i])
    <2>1. ASSUME f = b
          PROVE  \A i \in 1..InUse : ~PutOnTopOf(f, Live[i])
      <3> TAKE i \in 1..InUse
      <3>1. f.y >= ball.y /\ f.y \in Int /\ Live[i].y \in Nat
        BY <1>1, <1>2, <1>4, <2>1, Speeds DEF Platform
      <3> QED
        BY <1>1, <3>1, Measures DEF PutOnTopOf
    <2>2. CASE ball.dy = 0
      <3>1. f = b /\ \A i \in 1..InUse : ~Collides(b, Live[i])
        BY <1>3, <2>2, RestingBall DEF f, b
      <3>2. ASSUME NEW i \in 1..InUse PROVE ~Overlaps(b, Live[i])
        <4>1. Live[i] \in Platform
          BY <1>2
        <4> QED
          BY <1>4, <3>1, <4>1, HitFields DEF Collides, Overlaps
      <3> QED
        BY <1>4, <2>1, <3>1, <3>2
    <2>3. CASE ball.dy = BallSpeedY
      <3>1. b.dy > 0
        BY <1>4, <2>3, Speeds
      <3>2. /\ f \in Ball
            /\ \/ f = b
               \/ \E j \in 1..InUse : /\ Collides(b, Live[j]) /\ Pushed(b, Live[j], f)
                                      /\ \A i \in 1..InUse : i # j => Apart(Live[j], Live[i])
            /\ \A i \in 1..InUse : ~Overlaps(f, Live[i])
        BY <1>4, <3>1, FallingBall, Zenon DEF f
      <3>3. CASE f = b
        BY <1>4, <2>1, <3>2, <3>3
      <3>4. ASSUME NEW j \in 1..InUse, Collides(b, Live[j]), Pushed(b, Live[j], f),
                   \A i \in 1..InUse : i # j => Apart(Live[j], Live[i])
            PROVE  /\ \/ f.x \in 0..(W - D)
                      \/ f.x = W - D + 1 /\ f.dx < 0 /\ Beside(f, Live[j])
                   /\ \A i \in 1..InUse : PutOnTopOf(f, Live[i]) => Wedged(Live[i])
        <4> DEFINE p == Live[j]
        <4>1. p \in Platform /\ ~Overlaps(ball, p)
          BY <1>2, <1>3
        <4>2. b.y = ball.y + BallSpeedX
          BY <1>4, <2>3, Measures
        <4>3. ball.x = W - D + 1 => p.x + PLATFORM_WIDTH # W - D + 1
          <5> SUFFICES ASSUME ball.x = W - D + 1 PROVE p.x + PLATFORM_WIDTH # W - D + 1
            OBVIOUS
          <5>1. PICK i \in 1..InUse : Beside(ball, Live[i])
            BY <1>3 DEF BallPlace
          <5>2. CASE i = j
            BY <5>1, <5>2, Measures DEF Beside
          <5>3. CASE i # j
            <6>1. Apart(p, Live[i]) /\ Live[i] \in Platform
              BY <1>2, <3>4, <5>3
            <6>2. FALSE
              BY <1>1, <1>4, <3>4, <4>1, <4>2, <5>1, <6>1, NoneBehind, Zenon
            <6> QED
              BY <6>2
          <5> QED
            BY <5>2, <5>3
        <4>4. /\ \/ f.x \in 0..(W - D)
                 \/ f.x = W - D + 1 /\ f.dx < 0 /\ Beside(f, p)
              /\ PutOnTopOf(f, p) => Wedged(p)
          BY <1>1, <1>3, <1>4, <2>3, <3>2, <3>4, <4>1, <4>3, PushedPlace, ZenonT(30) DEF b
        <4>5. ASSUME NEW i \in 1..InUse, i # j
              PROVE  ~PutOnTopOf(f, Live[i])
          <5> DEFINE q == Live[i]
          <5>1. Apart(p, q) /\ q \in Platform
            BY <1>2, <3>4, <4>5
          <5>2. f.y \in {b.y, p.y - D}
            BY <3>4, Zenon DEF Pushed
          <5>3. b.y + D > p.y /\ b.y <= p.y + PLATFORM_HEIGHT
            BY <1>4, <3>4, <4>1, HitFields DEF Collides
          <5>4. /\ p.y \in Nat /\ q.y \in Nat /\ b.y \in Int /\ ball.y \in Int
            BY <1>1, <1>4, <4>1, <5>1 DEF Platform, Ball
          <5> HIDE DEF p, q
          <5>5. p.y + MIN_PLATFORM_Y_DISTANCE <= q.y \/ q.y + MIN_PLATFORM_Y_DISTANCE <= p.y
            BY <5>1 DEF Apart
          <5>6. ~(ball.y + D > q.y /\ f.y + D <= q.y)
            <6>1. CASE f.y = b.y
              BY <4>2, <5>4, <6>1, Measures
            <6>2. CASE f.y = p.y - D
              BY <4>2, <5>3, <5>4, <5>5, <6>2, Measures
            <6> QED
              BY <5>2, <6>1, <6>2
          <5> QED
            BY <5>6 DEF PutOnTopOf, q
        <4> QED
          BY <4>4, <4>5
      <3> QED
        BY <3>2, <3>3, <3>4
    <2> QED
      BY <1>1, <2>2, <2>3
  <1>6. ball' = [f EXCEPT !.dy = BallSpeedY]
    BY DEF UpdateObjects, f, b
  <1>7. ball'.x = f.x /\ ball'.y = f.y /\ ball'.dx = f.dx
    BY <1>5, <1>6 DEF Ball
  <1>8. \A p \in Range(Live) : PutOnTop(p) => Wedged(p)
    BY <1>2, <1>5, <1>7 DEF PutOnTop, PutOnTopOf
  <1>9. \A q : Beside(ball', q) <=> Beside(f, q)
    BY <1>7 DEF Beside
  <1>10. pc' \in {"input", "loop"} /\ arena_y' = arena_y + ArenaSpeed
    BY DEF UpdateObjects
  <1>11. InWalls(ball')
    <2>1. f.dx < 0 => f.dx <= 0
      <3>1. f.dx \in {-BallSpeedX, 0, BallSpeedX}
        BY <1>5 DEF Ball
      <3> QED
        BY <3>1, Measures
    <2> QED
      BY <1>5, <1>7, <2>1 DEF InWalls
  <1>12. ASSUME ball'.x = W - D + 1
         PROVE  /\ ball'.dx < 0
                /\ ball'.y >= arena_y' => \E i \in 1..InUse' : Beside(ball', Live'[i])
    <2>1. ~(f.x \in 0..(W - D))
      BY <1>7, <1>12, Measures
    <2>2. ball'.dx < 0 /\ \E j \in 1..InUse : Beside(f, Live[j])
      BY <1>5, <1>7, <2>1
    <2>3. PICK j \in 1..InUse : Beside(f, Live[j])
      BY <2>2
    <2>4. ASSUME ball'.y >= arena_y'
          PROVE  \E i \in 1..InUse' : Beside(ball', Live'[i])
      <3>1. Live[j].y + PLATFORM_HEIGHT >= f.y /\ Live[j].y \in Nat
        BY <1>2, <2>3, <1>5, Measures DEF Beside, Platform, Ball
      <3>2. ~Out(Live[j], arena_y')
        <4>1. arena_y' \in Int /\ f.y \in Int
          BY <1>5, <1>10, Sizes DEF Ball, RingTyped
        <4> QED
          BY <1>7, <2>4, <3>1, <4>1, Measures DEF Out
      <3>3. PICK i \in 1..InUse' : Live'[i] = Live[j]
        BY <3>2, UpdateTurnsTheRing
      <3> QED
        BY <1>9, <2>3, <3>3
    <2> QED
      BY <2>2, <2>4
  <1>13. ASSUME NEW i \in 1..InUse'
         PROVE  ~Overlaps(ball, Live[i])' \/ Live'[i].y >= arena_y' + ARENA_HEIGHT
    <2>1. CASE \E j \in 1..InUse : Live'[i] = Live[j]
      <3>1. PICK j \in 1..InUse : Live'[i] = Live[j]
        BY <2>1
      <3>2. ~Overlaps(f, Live'[i])
        BY <1>5, <3>1
      <3> QED
        BY <1>7, <3>2 DEF Overlaps
    <2>2. CASE Live'[i].y = arena_y' + ARENA_HEIGHT
      <3>1. arena_y' + ARENA_HEIGHT \in Int
        BY <1>10, Sizes DEF RingTyped
      <3> QED
        BY <2>2, <3>1
    <2> QED
      BY <2>1, <2>2, UpdateTurnsTheRing
  <1>14. BallPlace'
    BY <1>11, <1>12 DEF BallPlace, InWalls, Beside
  <1>15. FreeInv'
    BY <1>10, <1>13, <1>14 DEF FreeInv
  <1> QED
    BY <1>8, <1>15

\* handle_input and check_gameover.
LEMMA QuietFreesBall ==
    ASSUME RingTyped, BallInv, FreeInv, HandleInput \/ CheckGameover \/ UNCHANGED vars
    PROVE  FreeInv'
  <1>1. InUse' = InUse /\ Live' = Live /\ arena_y' = arena_y
    <2>1. UNCHANGED Game
      BY Zenon DEF HandleInput, CheckGameover, vars, Game
    <2> QED
      BY <2>1, Zenon DEF Game, InUse, Live, Slot
  <1>2. ball \in Ball
    BY DEF BallInv
  <1>3. CASE HandleInput
    <2>1. /\ ball' \in Ball /\ ball'.x = ball.x /\ ball'.y = ball.y
          /\ ball.dx < 0 => ball'.dx <= 0
      BY <1>2, <1>3, InputTurns
    <2>2. pc = "input" /\ pc' \in {"check", "exit"}
      BY <1>3 DEF HandleInput
    <2>3. /\ BallPlace
          /\ \A i \in 1..InUse : ~Overlaps(ball, Live[i]) \/ Live[i].y >= arena_y + ARENA_HEIGHT
      BY <2>2 DEF FreeInv
    <2>4. InWalls(ball')
      BY <2>1, <2>2, <2>3, Measures DEF BallPlace, InWalls
    <2>5. BallPlace'
      BY <1>1, <2>1, <2>2, <2>3, <2>4 DEF BallPlace, Beside, InWalls
    <2>6. \A i \in 1..InUse' : ~Overlaps(ball', Live'[i]) \/ Live'[i].y >= arena_y' + ARENA_HEIGHT
      BY <1>1, <2>1, <2>3 DEF Overlaps
    <2> QED
      BY <2>2, <2>5, <2>6 DEF FreeInv, Overlaps
  <1>4. CASE CheckGameover
    <2>1. ball' = ball /\ pc = "check" /\ pc' = IF Gameover THEN "reset" ELSE "update"
      BY <1>4 DEF CheckGameover
    <2>2. /\ BallPlace
          /\ \A i \in 1..InUse : ~Overlaps(ball, Live[i]) \/ Live[i].y >= arena_y + ARENA_HEIGHT
      BY <2>1 DEF FreeInv
    <2>3. CASE Gameover
      BY <2>1, <2>3 DEF FreeInv
    <2>4. CASE ~Gameover
      <3>1. pc' = "update" /\ ball.y >= arena_y /\ ball.y + Diameter <= arena_y + ARENA_HEIGHT
        BY <1>2, <2>1, <2>4, Measures, Sizes DEF Gameover, Ball, RingTyped
      <3>2. BallPlace'
        BY <1>1, <2>1, <2>2, <3>1 DEF BallPlace, InWalls, Beside
      <3>3. ASSUME NEW i \in 1..InUse PROVE ~Overlaps(ball, Live[i])
        <4>1. CASE Live[i].y >= arena_y + ARENA_HEIGHT
          <5>1. Live[i].y \in Nat /\ ball.y \in Int /\ arena_y \in Int
            BY <1>2, LivePlatforms DEF Ball, RingTyped, Platform
          <5>2. ~(Live[i].y < ball.y + Diameter)
            BY <3>1, <4>1, <5>1, Measures, Sizes
          <5> QED
            BY <5>2 DEF Overlaps
        <4> QED
          BY <2>2, <4>1
      <3>4. \A i \in 1..InUse' : ~Overlaps(ball', Live'[i])
        BY <1>1, <2>1, <3>3
      <3> QED
        BY <1>1, <2>1, <3>1, <3>2, <3>4 DEF FreeInv, Overlaps
    <2> QED
      BY <2>3, <2>4
  <1>5. CASE UNCHANGED vars
    <2>1. ball' = ball /\ pc' = pc
      BY <1>5 DEF vars
    <2>2. BallPlace => BallPlace'
      BY <1>1, <2>1 DEF BallPlace, InWalls, Beside
    <2> QED
      BY <1>1, <2>1, <2>2 DEF FreeInv, Overlaps
  <1> QED
    BY <1>3, <1>4, <1>5

\* The invariant holds in every game.
LEMMA FreeInvHolds == Spec => []FreeInv
  <1>1. Init => FreeInv
    BY DEF Init, FreeInv
  <1>2. RingInv /\ BallInv /\ FreeInv /\ [Next]_vars => FreeInv'
    <2> SUFFICES ASSUME RingInv, BallInv, FreeInv, [Next]_vars PROVE FreeInv'
      OBVIOUS
    <2>1. RingTyped /\ (UpdateObjects => FlightOK)
      BY DEF RingInv, UpdateObjects
    <2> QED
      BY <2>1, ResetFreesBall, UpdateFreesBall, QuietFreesBall DEF Next
  <1> QED
    BY <1>1, <1>2, RingHolds, BallInvHolds, PTL DEF Spec

\* Between two frames the ball is in no platform and in the arena, but for one pixel
\* of the right wall: what ball_collide and ball_fix_collision do to it, one platform
\* after the other, leaves it free of all of them.
THEOREM BallStaysFree == Spec => []BallIsFree
  <1>1. RingInv /\ FreeInv => BallIsFree
    <2> SUFFICES ASSUME RingInv, FreeInv, pc = "update"
                 PROVE  /\ \A p \in Range(Live) : ~Overlaps(ball, p)
                        /\ ball.y >= arena_y /\ ball.y + Diameter <= arena_y + ARENA_HEIGHT
                        /\ \/ ball.x \in 0..(ARENA_WIDTH - Diameter)
                           \/ /\ ball.x = ARENA_WIDTH - Diameter + 1
                              /\ \E p \in Range(Live) :
                                   p.x + PLATFORM_WIDTH = ARENA_WIDTH - Diameter
      BY DEF BallIsFree
    <2>1. Range(Live) = {Live[i] : i \in 1..InUse}
      BY LivePlatforms DEF RingInv
    <2>2. /\ BallPlace /\ \A i \in 1..InUse : ~Overlaps(ball, Live[i])
          /\ ball.y >= arena_y /\ ball.y + Diameter <= arena_y + ARENA_HEIGHT
      BY DEF FreeInv
    <2> QED
      BY <2>1, <2>2 DEF BallPlace, InWalls, Beside
  <1> QED
    BY <1>1, RingHolds, FreeInvHolds, PTL

\* update_objects puts the ball on top of a platform only if it came from above it,
\* or was wedged between the platform and the right wall.
THEOREM OnTopFromAbove == Spec => OnTopOnlyIfWedged
  <1>1. RingInv /\ BallInv /\ FreeInv /\ [Next]_vars
          => [UpdateObjects => \A p \in Range(Live) : PutOnTop(p) => Wedged(p)]_vars
    <2> SUFFICES ASSUME RingInv, BallInv, FreeInv, UpdateObjects
                 PROVE  \A p \in Range(Live) : PutOnTop(p) => Wedged(p)
      OBVIOUS
    <2>1. RingTyped /\ FlightOK
      BY DEF RingInv, UpdateObjects
    <2> QED
      BY <2>1, UpdateFreesBall
  <1> QED
    BY <1>1, RingHolds, BallInvHolds, FreeInvHolds, PTL DEF Spec, OnTopOnlyIfWedged

=============================================================================
