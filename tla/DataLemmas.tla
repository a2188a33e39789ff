----------------------------- MODULE DataLemmas -----------------------------
(***************************************************************************)
(* Facts about numbers and sequences that several proofs need: induction   *)
(* over the naturals as a statement about sets, from the library's theorem *)
(* that every set of naturals has a least element, for the recursive       *)
(* functions of memmove and of the search; functions that a first value    *)
(* and a step define; and the operations on sequences element by element.  *)
(***************************************************************************)
EXTENDS Integers, SequencesExt, SequenceTheorems, WellFoundedInduction, TLAPS

\* A set that holds 0, and with every natural its successor, holds all.
LEMMA NatSetInduction ==
    ASSUME NEW S, 0 \in S, \A n \in Nat : n \in S => n + 1 \in S
    PROVE  Nat \subseteq S
  <1> DEFINE T == Nat \ S
             R == OpToRel(<, Nat)
  <1> SUFFICES ASSUME T # {} PROVE FALSE
    OBVIOUS
  <1>1. IsWellFoundedOn(R, Nat)
    BY NatLessThanWellFounded
  <1>2. PICK x \in T : \A y \in T : ~ (<<y, x>> \in R)
    <2>1. T \subseteq Nat
      OBVIOUS
    <2> HIDE DEF R, T
    <2> QED
      BY <1>1, <2>1, WFMin
  <1>3. \A y \in T : ~ (y < x)
    BY <1>2 DEF OpToRel
  <1>4. x # 0 /\ x \in Nat
    OBVIOUS
  <1>5. x - 1 \in Nat /\ x - 1 < x
    BY <1>4
  <1>6. x - 1 \in S
    BY <1>3, <1>5
  <1> QED
    BY <1>4, <1>5, <1>6

\* next is iterated from first.
Iterates(f, V, first, next) ==
    /\ f \in [Nat -> V]
    /\ f[0] = first
    /\ \A n \in Nat : f[n + 1] = next[n][f[n]]

\* A function is defined on the naturals by its first value and a step.
LEMMA RecursiveFunction ==
    ASSUME NEW V, NEW first \in V, NEW next \in [Nat -> [V -> V]]
    PROVE  \E f : Iterates(f, V, first, next)
  <1> DEFINE Begins(n, f) == /\ f \in [0..n -> V] /\ f[0] = first
                             /\ \A m \in 0..n - 1 : f[m + 1] = next[m][f[m]]
             S == {n \in Nat : \E f : Begins(n, f)}
  <1>1. Nat \subseteq S
    <2>1. 0 \in S
      <3>1. Begins(0, [m \in 0..0 |-> first])
        OBVIOUS
      <3> QED
        BY <3>1
    <2>2. ASSUME NEW n \in Nat, n \in S
          PROVE  n + 1 \in S
      <3>1. PICK f : Begins(n, f)
        BY <2>2
      <3> DEFINE g == [m \in 0..n + 1 |-> IF m <= n THEN f[m] ELSE next[n][f[n]]]
      <3>2. \A m \in 0..n : f[m] \in V /\ g[m] = f[m]
        BY <3>1
      <3>3. next[n][f[n]] \in V /\ g[n + 1] = next[n][f[n]]
        BY <3>2
      <3>4. g \in [0..n + 1 -> V] /\ g[0] = first
        BY <3>1, <3>2, <3>3
      <3>5. ASSUME NEW m \in 0..n
            PROVE  g[m + 1] = next[m][g[m]]
        <4>1. CASE m = n
          BY <3>2, <3>3, <4>1
        <4>2. CASE m # n
          <5>1. m \in 0..n - 1 /\ m + 1 \in 0..n
            BY <4>2
          <5>2. f[m + 1] = next[m][f[m]]
            BY <3>1, <5>1
          <5> QED
            BY <3>2, <5>1, <5>2
        <4> QED
          BY <4>1, <4>2
      <3> HIDE DEF g
      <3>6. n + 1 - 1 = n
        OBVIOUS
      <3>7. Begins(n + 1, g)
        BY <3>4, <3>5, <3>6
      <3> HIDE DEF Begins
      <3> QED
        BY <3>7
    <2> HIDE DEF S
    <2> QED
      BY <2>1, <2>2, NatSetInduction
  <1>2. ASSUME NEW n \in Nat, NEW f, NEW g, Begins(n, f), Begins(n + 1, g)
        PROVE  \A m \in 0..n : f[m] = g[m]
    <2> DEFINE T == {m \in Nat : m \in 0..n => f[m] = g[m]}
    <2>1. 0 \in T
      BY <1>2
    <2>2. ASSUME NEW m \in Nat, m \in T
          PROVE  m + 1 \in T
      <3>1. CASE m + 1 \in 0..n
        <4>1. m \in 0..n - 1 /\ m \in 0..n + 1 - 1 /\ f[m] = g[m]
          BY <2>2, <3>1
        <4>2. f[m + 1] = next[m][f[m]] /\ g[m + 1] = next[m][g[m]]
          BY <1>2, <4>1
        <4> QED
          BY <4>1, <4>2
      <3>2. CASE m + 1 \notin 0..n
        BY <3>2
      <3> QED
        BY <3>1, <3>2
    <2> HIDE DEF T
    <2>3. Nat \subseteq T
      BY <2>1, <2>2, NatSetInduction
    <2> QED
      BY <2>3 DEF T
  <1> DEFINE part(n) == CHOOSE f : Begins(n, f)
             h == [n \in Nat |-> part(n)[n]]
  <1>3. \A n \in Nat : Begins(n, part(n))
    <2> HIDE DEF Begins
    <2> QED
      BY <1>1
  <1> HIDE DEF part
  <1>4. ASSUME NEW n \in Nat
        PROVE  h[n] \in V /\ h[n + 1] = next[n][h[n]]
    <2>1. Begins(n, part(n)) /\ Begins(n + 1, part(n + 1))
      BY <1>3
    <2>2. part(n)[n] = part(n + 1)[n]
      <3> HIDE DEF Begins
      <3> QED
        BY <1>2, <2>1
    <2>3. part(n + 1)[n + 1] = next[n][part(n + 1)[n]] /\ part(n)[n] \in V
      BY <2>1
    <2> QED
      BY <2>2, <2>3
  <1>5. h[0] = first
    BY <1>3
  <1>6. h \in [Nat -> V]
    BY <1>4
  <1> HIDE DEF h
  <1> QED
    BY <1>4, <1>5, <1>6 DEF Iterates

\* A sequence is known by its elements: the operations of SequencesExt.
LEMMA InsertSeq ==
    ASSUME NEW S, NEW s \in Seq(S), NEW i \in 1..Len(s) + 1, NEW e \in S,
           NEW r \in Seq(S), Len(r) = Len(s) + 1,
           \A k \in 1..Len(r) : r[k] = IF k < i THEN s[k] ELSE IF k = i THEN e ELSE s[k - 1]
    PROVE  r = InsertAt(s, i, e)
  <1> DEFINE a == SubSeq(s, 1, i - 1)
             b == SubSeq(s, i, Len(s))
             ae == a \o <<e>>
  <1>1. Len(s) \in Nat /\ \A k \in 1..Len(s) : s[k] \in S
    BY LenProperties, ElementOfSeq
  <1>2. a \in Seq(S) /\ Len(a) = i - 1 /\ \A k \in 1..i - 1 : a[k] = s[k]
    <2>1. \A k \in 1..i - 1 : s[k] \in S
      BY <1>1
    <2>2. 1 \in Int /\ i - 1 \in Int
      BY <1>1
    <2>3. /\ a \in Seq(S) /\ Len(a) = IF 1 <= i - 1 THEN (i - 1) - 1 + 1 ELSE 0
          /\ \A k \in 1..(i - 1) - 1 + 1 : a[k] = s[1 + k - 1]
      BY <2>1, <2>2, SubSeqProperties
    <2> QED
      BY <1>1, <2>3
  <1>3. b \in Seq(S) /\ Len(b) = Len(s) - i + 1 /\ \A k \in 1..Len(s) - i + 1 : b[k] = s[i + k - 1]
    <2>1. \A k \in i..Len(s) : s[k] \in S
      BY <1>1
    <2>2. i \in Int /\ Len(s) \in Int
      BY <1>1
    <2>3. /\ b \in Seq(S) /\ Len(b) = IF i <= Len(s) THEN Len(s) - i + 1 ELSE 0
          /\ \A k \in 1..Len(s) - i + 1 : b[k] = s[i + k - 1]
      BY <2>1, <2>2, SubSeqProperties
    <2> QED
      BY <1>1, <2>3
  <1> HIDE DEF a, b
  <1>4. <<e>> \in Seq(S) /\ Len(<<e>>) = 1 /\ <<e>>[1] = e
    OBVIOUS
  <1>5. /\ ae \in Seq(S) /\ Len(ae) = i
        /\ \A k \in 1..i : ae[k] = IF k < i THEN s[k] ELSE e
    <2>1. /\ ae \in Seq(S) /\ Len(ae) = Len(a) + 1
          /\ \A k \in 1..Len(a) + 1 : ae[k] = IF k <= Len(a) THEN a[k] ELSE <<e>>[k - Len(a)]
      BY <1>2, <1>4, ConcatProperties
    <2> HIDE DEF ae
    <2>2. i \in Nat /\ i >= 1
      BY <1>1
    <2>3. ASSUME NEW k \in 1..i
          PROVE  ae[k] = IF k < i THEN s[k] ELSE e
      <3>1. CASE k < i
        BY <1>2, <2>1, <2>2, <3>1
      <3>2. CASE k = i
        BY <1>2, <1>4, <2>1, <2>2, <3>2
      <3> QED
        BY <2>2, <3>1, <3>2
    <2> QED
      BY <1>2, <2>1, <2>2, <2>3
  <1> HIDE DEF ae
  <1>6. /\ ae \o b \in Seq(S) /\ Len(ae \o b) = Len(s) + 1
        /\ \A k \in 1..Len(s) + 1 : (ae \o b)[k] = IF k <= i THEN ae[k] ELSE b[k - i]
    <2>1. /\ ae \o b \in Seq(S) /\ Len(ae \o b) = Len(ae) + Len(b)
          /\ \A k \in 1..Len(ae) + Len(b) :
               (ae \o b)[k] = IF k <= Len(ae) THEN ae[k] ELSE b[k - Len(ae)]
      BY <1>3, <1>5, ConcatProperties
    <2>2. Len(ae) = i /\ Len(b) = Len(s) - i + 1 /\ Len(ae) + Len(b) = Len(s) + 1
      BY <1>1, <1>3, <1>5
    <2> QED
      BY <2>1, <2>2
  <1>7. ASSUME NEW k \in 1..Len(r)
        PROVE  r[k] = (ae \o b)[k]
    <2>1. CASE k <= i
      BY <1>1, <1>5, <1>6, <2>1
    <2>2. CASE k > i
      <3>1. k - i \in 1..Len(s) - i + 1 /\ i + (k - i) - 1 = k - 1
        BY <1>1, <2>2
      <3>2. b[k - i] = s[k - 1]
        BY <1>3, <3>1
      <3> QED
        BY <1>1, <1>6, <2>2, <3>2
    <2>3. k <= i \/ k > i
      BY <1>1
    <2> QED
      BY <2>1, <2>2, <2>3
  <1>8. r = ae \o b
    BY <1>6, <1>7, SeqEqual
  <1> QED
    BY <1>8 DEF InsertAt, a, b, ae

LEMMA RemoveSeq ==
    ASSUME NEW S, NEW s \in Seq(S), NEW i \in 1..Len(s),
           NEW r \in Seq(S), Len(r) = Len(s) - 1,
           \A k \in 1..Len(r) : r[k] = IF k < i THEN s[k] ELSE s[k + 1]
    PROVE  r = RemoveAt(s, i)
  <1> DEFINE a == SubSeq(s, 1, i - 1)
             b == SubSeq(s, i + 1, Len(s))
  <1>1. Len(s) \in Nat /\ \A k \in 1..Len(s) : s[k] \in S
    BY LenProperties, ElementOfSeq
  <1>2. a \in Seq(S) /\ Len(a) = i - 1 /\ \A k \in 1..i - 1 : a[k] = s[k]
    <2>1. \A k \in 1..i - 1 : s[k] \in S
      BY <1>1
    <2>2. 1 \in Int /\ i - 1 \in Int
      BY <1>1
    <2>3. /\ a \in Seq(S) /\ Len(a) = IF 1 <= i - 1 THEN (i - 1) - 1 + 1 ELSE 0
          /\ \A k \in 1..(i - 1) - 1 + 1 : a[k] = s[1 + k - 1]
      BY <2>1, <2>2, SubSeqProperties
    <2> QED
      BY <1>1, <2>3
  <1>3. b \in Seq(S) /\ Len(b) = Len(s) - i /\ \A k \in 1..Len(s) - i : b[k] = s[i + k]
    <2>1. \A k \in i + 1..Len(s) : s[k] \in S
      BY <1>1
    <2>2. i + 1 \in Int /\ Len(s) \in Int
      BY <1>1
    <2>3. /\ b \in Seq(S) /\ Len(b) = IF i + 1 <= Len(s) THEN Len(s) - (i + 1) + 1 ELSE 0
          /\ \A k \in 1..Len(s) - (i + 1) + 1 : b[k] = s[i + 1 + k - 1]
      BY <2>1, <2>2, SubSeqProperties
    <2> QED
      BY <1>1, <2>3
  <1> HIDE DEF a, b
  <1>4. /\ a \o b \in Seq(S) /\ Len(a \o b) = Len(s) - 1
        /\ \A k \in 1..Len(s) - 1 : (a \o b)[k] = IF k <= i - 1 THEN a[k] ELSE b[k - (i - 1)]
    <2>1. /\ a \o b \in Seq(S) /\ Len(a \o b) = Len(a) + Len(b)
          /\ \A k \in 1..Len(a) + Len(b) :
               (a \o b)[k] = IF k <= Len(a) THEN a[k] ELSE b[k - Len(a)]
      BY <1>2, <1>3, ConcatProperties
    <2>2. Len(a) = i - 1 /\ Len(b) = Len(s) - i /\ Len(a) + Len(b) = Len(s) - 1
      BY <1>1, <1>2, <1>3
    <2> QED
      BY <2>1, <2>2
  <1>5. ASSUME NEW k \in 1..Len(r)
        PROVE  r[k] = (a \o b)[k]
    <2>1. CASE k < i
      BY <1>1, <1>2, <1>4, <2>1
    <2>2. CASE k >= i
      <3>1. k - (i - 1) \in 1..Len(s) - i /\ i + (k - (i - 1)) = k + 1
        BY <1>1, <2>2
      <3>2. b[k - (i - 1)] = s[k + 1]
        BY <1>3, <3>1
      <3> QED
        BY <1>1, <1>4, <2>2, <3>2
    <2>3. k < i \/ k >= i
      BY <1>1
    <2> QED
      BY <2>1, <2>2, <2>3
  <1>6. r = a \o b
    BY <1>4, <1>5, SeqEqual
  <1> QED
    BY <1>6 DEF RemoveAt, a, b

LEMMA FrontSeq ==
    ASSUME NEW S, NEW s \in Seq(S), s # << >>,
           NEW r \in Seq(S), Len(r) = Len(s) - 1, \A k \in 1..Len(r) : r[k] = s[k]
    PROVE  r = Front(s)
  <1>1. Len(s) \in Nat /\ \A k \in 1..Len(s) : s[k] \in S
    BY LenProperties, ElementOfSeq
  <1> DEFINE a == SubSeq(s, 1, Len(s) - 1)
  <1>2. Len(s) >= 1
    BY <1>1, EmptySeq
  <1>3. 1 \in Int /\ Len(s) - 1 \in Int /\ \A k \in 1..Len(s) - 1 : s[k] \in S
    BY <1>1
  <1>4. /\ a \in Seq(S) /\ Len(a) = IF 1 <= Len(s) - 1 THEN (Len(s) - 1) - 1 + 1 ELSE 0
        /\ \A k \in 1..(Len(s) - 1) - 1 + 1 : a[k] = s[1 + k - 1]
    BY <1>3, SubSeqProperties
  <1> HIDE DEF a
  <1>5. Len(a) = Len(s) - 1 /\ \A k \in 1..Len(s) - 1 : a[k] = s[k]
    BY <1>1, <1>2, <1>4
  <1>6. r = a
    BY <1>4, <1>5, SeqEqual
  <1> QED
    BY <1>6 DEF Front, a

\* Inserting, element by element.
LEMMA InsertAtElements ==
    ASSUME NEW S, NEW s \in Seq(S), NEW i \in 1..(Len(s) + 1), NEW x \in S
    PROVE  /\ InsertAt(s, i, x) \in Seq(S)
           /\ Len(InsertAt(s, i, x)) = Len(s) + 1
           /\ \A k \in 1..(Len(s) + 1) :
                InsertAt(s, i, x)[k] = IF k < i THEN s[k] ELSE IF k = i THEN x ELSE s[k - 1]
  <1> DEFINE W(k) == IF k < i THEN s[k] ELSE IF k = i THEN x ELSE s[k - 1]
             r == [k \in 1..(Len(s) + 1) |-> W(k)]
  <1>1. Len(s) \in Nat /\ \A k \in 1..Len(s) : s[k] \in S
    BY LenProperties, ElementOfSeq
  <1>2. \A k \in 1..(Len(s) + 1) : W(k) \in S
    BY <1>1
  <1> HIDE DEF W
  <1>3. r \in Seq(S) /\ Len(r) = Len(s) + 1 /\ \A k \in 1..(Len(s) + 1) : r[k] = W(k)
    <2>1. Len(s) + 1 \in Nat
      BY <1>1
    <2> QED
      BY <1>2, <2>1
  <1> HIDE DEF r
  <1>4. r = InsertAt(s, i, x)
    <2>1. \A k \in 1..Len(r) : r[k] = IF k < i THEN s[k] ELSE IF k = i THEN x ELSE s[k - 1]
      BY <1>3 DEF W
    <2> QED
      BY <1>3, <2>1, InsertSeq
  <1> QED
    BY <1>3, <1>4 DEF W

\* Removing, element by element.
LEMMA RemoveAtElements ==
    ASSUME NEW S, NEW s \in Seq(S), NEW i \in 1..Len(s)
    PROVE  /\ RemoveAt(s, i) \in Seq(S)
           /\ Len(RemoveAt(s, i)) = Len(s) - 1
           /\ \A k \in 1..(Len(s) - 1) :
                RemoveAt(s, i)[k] = IF k < i THEN s[k] ELSE s[k + 1]
  <1> DEFINE W(k) == IF k < i THEN s[k] ELSE s[k + 1]
             r == [k \in 1..(Len(s) - 1) |-> W(k)]
  <1>1. Len(s) \in Nat /\ \A k \in 1..Len(s) : s[k] \in S
    BY LenProperties, ElementOfSeq
  <1>2. \A k \in 1..(Len(s) - 1) : W(k) \in S
    BY <1>1
  <1> HIDE DEF W
  <1>3. r \in Seq(S) /\ Len(r) = Len(s) - 1 /\ \A k \in 1..(Len(s) - 1) : r[k] = W(k)
    <2>1. Len(s) - 1 \in Nat
      BY <1>1
    <2> QED
      BY <1>2, <2>1
  <1> HIDE DEF r
  <1>4. r = RemoveAt(s, i)
    <2>1. \A k \in 1..Len(r) : r[k] = IF k < i THEN s[k] ELSE s[k + 1]
      BY <1>3 DEF W
    <2> QED
      BY <1>3, <2>1, RemoveSeq
  <1> QED
    BY <1>3, <1>4 DEF W

=============================================================================
