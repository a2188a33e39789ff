---------------------------- MODULE KVectorProofs ----------------------------
(***************************************************************************)
(* The vectors of kvector.h in the heap of kalloc.c, for every heap, every *)
(* number of vectors and every initial capacity: THEOREMs                  *)
(* ArraysNeverOverlap and VectorsImplementSequences.                       *)
(*                                                                         *)
(* kfree gives nothing back, so every array and every font was the top of  *)
(* the heap when it was made, and a new one lies above all others          *)
(* (PlacedIsApart).  With the size of a vector never above its capacity    *)
(* that keeps the arrays apart (HeapInv).  The refinement adds what one    *)
(* operation does: memmove, which copies word after word, moves a range    *)
(* exactly in both directions (MemmoveIsExact, by induction over the       *)
(* words), so that the first size words of the array change as the         *)
(* sequence operation says, and the words of all other vectors stay.       *)
(***************************************************************************)
EXTENDS KVector, DataLemmas, SequenceTheorems, TLAPS

Word == Elem \cup {Garbage}
Heap == [0..HeapSize - 1 -> Word]

-----------------------------------------------------------------------------
(* memmove *)

\* Both directions of memmove give every destination word what its source
\* held before, however the two ranges overlap.
LEMMA MemmoveIsExact ==
    ASSUME NEW m \in Heap, NEW dst \in Nat, NEW src \in Nat, NEW n \in Nat,
           dst + n <= HeapSize, src + n <= HeapSize
    PROVE  Memmove(m, dst, src, n) =
             [a \in 0..HeapSize - 1 |-> IF a \in dst..dst + n - 1 THEN m[a - dst + src] ELSE m[a]]
  <1> DEFINE D == 0..HeapSize - 1
             word(k) == IF dst <= src THEN k - 1 ELSE n - k
             step(f, k) == IF k = 0 THEN m
                           ELSE [f[k - 1] EXCEPT ![dst + word(k)] = f[k - 1][src + word(k)]]
             done(k) == IF dst <= src THEN dst..dst + k - 1 ELSE dst + n - k..dst + n - 1
             after(k) == [a \in D |-> IF a \in done(k) THEN m[a - dst + src] ELSE m[a]]
             witness == [k \in 0..n |-> after(k)]
             copied == CHOOSE f : f = [k \in 0..n |-> step(f, k)]
  <1>0. HeapSize \in Nat
    BY KVectorAssumption
  <1>1. m = [a \in D |-> m[a]]
    BY DEF Heap
  <1>2. ASSUME NEW k \in 0..n
        PROVE  witness[k] = step(witness, k)
    <2>1. CASE k = 0
      <3>1. done(0) = {}
        OBVIOUS
      <3>2. after(0) = m
        BY <1>1, <3>1
      <3> QED
        BY <2>1, <3>2
    <2>2. CASE k # 0
      <3>1. k - 1 \in 0..n /\ witness[k] = after(k) /\ witness[k - 1] = after(k - 1)
        <4>1. k - 1 \in 0..n
          BY <2>2
        <4> HIDE DEF after
        <4> QED
          BY <4>1
      <3>2. word(k) \in 0..n - 1 /\ dst + word(k) \in D /\ src + word(k) \in D
        <4>1. CASE dst <= src
          BY <1>0, <2>2, <4>1
        <4>2. CASE ~(dst <= src)
          BY <1>0, <2>2, <4>2
        <4> QED
          BY <4>1, <4>2
      <3>3. src + word(k) \notin done(k - 1)
        BY <2>2
      <3>4. after(k - 1)[src + word(k)] = m[src + word(k)]
        BY <3>2, <3>3
      <3>5. \A a \in D : a \in done(k) <=> a \in done(k - 1) \/ a = dst + word(k)
        <4>1. CASE dst <= src
          BY <1>0, <2>2, <4>1
        <4>2. CASE ~(dst <= src)
          BY <1>0, <2>2, <4>2
        <4> QED
          BY <4>1, <4>2
      <3>6. after(k) = [after(k - 1) EXCEPT ![dst + word(k)] = m[src + word(k)]]
        <4> DEFINE ex == [after(k - 1) EXCEPT ![dst + word(k)] = m[src + word(k)]]
        <4>1. ex = [a \in D |-> IF a = dst + word(k) THEN m[src + word(k)] ELSE after(k - 1)[a]]
          OBVIOUS
        <4>2. ASSUME NEW a \in D
              PROVE  after(k)[a] = IF a = dst + word(k) THEN m[src + word(k)] ELSE after(k - 1)[a]
          <5>1. CASE a = dst + word(k)
            <6>1. word(k) \in Int
              BY <3>2
            <6>2. a \in done(k)
              BY <3>5, <5>1
            <6> HIDE DEF word, done
            <6>3. a - dst + src = src + word(k)
              BY <5>1, <6>1
            <6> QED
              BY <5>1, <6>2, <6>3
          <5>2. CASE a # dst + word(k)
            BY <3>5, <5>2
          <5> QED
            BY <5>1, <5>2
        <4> HIDE DEF word, done
        <4> QED
          BY <4>1, <4>2
      <3> QED
        BY <2>2, <3>1, <3>4, <3>6
    <2> QED
      BY <2>1, <2>2
  <1> HIDE DEF step, after
  <1>3. witness = [k \in 0..n |-> step(witness, k)]
    BY <1>2
  <1> HIDE DEF witness
  <1>4. copied = [k \in 0..n |-> step(copied, k)]
    BY <1>3
  <1> HIDE DEF copied
  <1>5. \A k \in 0..n : copied[k] = step(copied, k)
    BY <1>4
  <1> DEFINE S == {k \in Nat : k \in 0..n => copied[k] = witness[k]}
  <1>6. Nat \subseteq S
    <2>1. 0 \in S
      BY <1>2, <1>5 DEF step
    <2>2. ASSUME NEW k \in Nat, k \in S
          PROVE  k + 1 \in S
      <3> SUFFICES ASSUME k + 1 \in 0..n PROVE copied[k + 1] = witness[k + 1]
        OBVIOUS
      <3>1. k + 1 # 0 /\ (k + 1) - 1 = k /\ copied[k] = witness[k]
        BY <2>2
      <3>2. step(copied, k + 1) = step(witness, k + 1)
        BY <3>1 DEF step
      <3> QED
        BY <1>2, <1>5, <3>2
    <2> HIDE DEF S
    <2> QED
      BY <2>1, <2>2, NatSetInduction
  <1>7. copied[n] = after(n)
    <2>1. n \in S /\ n \in 0..n
      BY <1>6
    <2>2. copied[n] = witness[n]
      BY <2>1
    <2> QED
      BY <2>1, <2>2 DEF witness
  <1>8. done(n) = dst..dst + n - 1
    OBVIOUS
  <1>9. Memmove(m, dst, src, n) = copied[n]
    BY DEF Memmove, copied, step
  <1> QED
    BY <1>7, <1>8, <1>9 DEF after

-----------------------------------------------------------------------------
(* The layout of the heap *)

Apart(a, n, b, m) == a + n <= b \/ b + m <= a

InHeap ==
    /\ \A v \in Vec : IF Live(v)
                      THEN /\ 1 <= vec[v].cap
                           /\ vec[v].size <= vec[v].cap
                           /\ vec[v].arr + vec[v].cap <= top
                      ELSE vec[v] = NoVector
    /\ \A f \in 1..3 : fonts[f] # Null => fonts[f] + FontSize <= top

VectorsApart ==
    \A v, w \in Vec : v # w /\ Live(v) /\ Live(w) =>
        Apart(vec[v].arr, vec[v].cap, vec[w].arr, vec[w].cap)

GlyphsApart ==
    \A f \in 1..3 : fonts[f] # Null =>
        /\ \A v \in Vec : Live(v) => Apart(vec[v].arr, vec[v].cap, fonts[f], FontSize)
        /\ \A g \in 1..3 : g # f /\ fonts[g] # Null => Apart(fonts[f], FontSize, fonts[g], FontSize)

\* The inductive invariant.
HeapInv == TypeOK /\ InHeap /\ VectorsApart /\ GlyphsApart

LEMMA ConstantFacts ==
    /\ HeapSize \in Nat /\ InitCap \in Nat /\ InitCap >= 1 /\ FontSize \in Nat /\ FontSize >= 1
    /\ NVectors \in Nat /\ NStartup \in Nat /\ NStartup >= 1 /\ NStartup <= NVectors
    /\ 0 \in Vec /\ Null \notin Nat /\ Vec \subseteq Nat
  BY KVectorAssumption DEF Vec, Null

LEMMA VectorFacts ==
    ASSUME HeapInv, NEW v \in Vec
    PROVE  /\ vec[v] \in [arr : 0..HeapSize \cup {Null}, size : Nat, cap : Nat]
           /\ vec[v].size \in Nat /\ vec[v].cap \in Nat /\ vec[v].size <= vec[v].cap
           /\ Live(v) => /\ vec[v].arr \in 0..HeapSize
                         /\ vec[v].arr + vec[v].cap <= top /\ vec[v].cap >= 1
           /\ ~Live(v) => vec[v].size = 0
           /\ top \in 0..HeapSize /\ HeapSize \in Nat
  <1>1. vec[v] \in [arr : 0..HeapSize \cup {Null}, size : Nat, cap : Nat]
    BY DEF HeapInv, TypeOK
  <1>2. CASE Live(v)
    BY <1>1, <1>2, ConstantFacts DEF HeapInv, TypeOK, InHeap, Live
  <1>3. CASE ~Live(v)
    <2>1. vec[v] = NoVector
      BY <1>3 DEF HeapInv, InHeap
    <2> QED
      BY <1>1, <1>3, <2>1, ConstantFacts DEF NoVector, HeapInv, TypeOK
  <1> QED
    BY <1>2, <1>3

\* The layout gives the disjointness of the areas.
LEMMA LayoutIsDisjoint == HeapInv => ArraysAreDisjoint
  <1> SUFFICES ASSUME HeapInv PROVE ArraysAreDisjoint
    OBVIOUS
  <1>1. ASSUME NEW a \in Int, NEW n \in Int, NEW b \in Int, NEW m \in Int, Apart(a, n, b, m)
        PROVE  Words(a, n) \cap Words(b, m) = {}
    BY <1>1 DEF Apart, Words
  <1>2. ASSUME NEW v \in Vec, Live(v)
        PROVE  /\ Words(vec[v].arr, vec[v].cap) \subseteq 0..top - 1
               /\ vec[v].size <= vec[v].cap
               /\ vec[v].arr \in Int /\ vec[v].cap \in Int
    BY <1>2, VectorFacts DEF Words
  <1>3. ASSUME NEW v \in Vec, NEW w \in Vec, v # w, Live(v), Live(w)
        PROVE  Words(vec[v].arr, vec[v].cap) \cap Words(vec[w].arr, vec[w].cap) = {}
    <2>1. Apart(vec[v].arr, vec[v].cap, vec[w].arr, vec[w].cap)
      BY <1>3 DEF HeapInv, VectorsApart
    <2> QED
      BY <1>1, <1>2, <1>3, <2>1
  <1>4. ASSUME NEW f \in 1..3, fonts[f] # Null
        PROVE  fonts[f] \in Int /\ FontSize \in Int
    BY <1>4, ConstantFacts DEF HeapInv, TypeOK
  <1>5. ASSUME NEW v \in Vec, Live(v), NEW f \in 1..3, fonts[f] # Null
        PROVE  Words(vec[v].arr, vec[v].cap) \cap Words(fonts[f], FontSize) = {}
    <2>1. Apart(vec[v].arr, vec[v].cap, fonts[f], FontSize)
      BY <1>5 DEF HeapInv, GlyphsApart
    <2> QED
      BY <1>1, <1>2, <1>4, <1>5, <2>1
  <1>6. ASSUME NEW f \in 1..3, NEW g \in 1..3, f # g, fonts[f] # Null, fonts[g] # Null
        PROVE  Words(fonts[f], FontSize) \cap Words(fonts[g], FontSize) = {}
    <2>1. Apart(fonts[f], FontSize, fonts[g], FontSize)
      BY <1>6 DEF HeapInv, GlyphsApart
    <2> QED
      BY <1>1, <1>4, <1>6, <2>1
  <1> DEFINE areas == [v \in {w \in Vec : Live(w)} |-> Words(vec[v].arr, vec[v].cap)]
             glyphs == [f \in {g \in 1..3 : fonts[g] # Null} |-> Words(fonts[f], FontSize)]
  <1>7. /\ DOMAIN areas = {w \in Vec : Live(w)} /\ DOMAIN glyphs = {g \in 1..3 : fonts[g] # Null}
        /\ \A v \in DOMAIN areas : areas[v] = Words(vec[v].arr, vec[v].cap)
        /\ \A f \in DOMAIN glyphs : glyphs[f] = Words(fonts[f], FontSize)
    OBVIOUS
  <1>8. \A v \in DOMAIN areas : /\ areas[v] \subseteq 0..top - 1
                                /\ vec[v].size <= vec[v].cap
                                /\ \A w \in DOMAIN areas \ {v} : areas[v] \cap areas[w] = {}
                                /\ \A f \in DOMAIN glyphs : areas[v] \cap glyphs[f] = {}
    <2> HIDE DEF areas, glyphs
    <2> QED
      BY <1>2, <1>3, <1>5, <1>7
  <1>9. \A f \in DOMAIN glyphs, g \in DOMAIN glyphs : f # g => glyphs[f] \cap glyphs[g] = {}
    <2> HIDE DEF areas, glyphs
    <2> QED
      BY <1>6, <1>7
  <1> QED
    BY <1>8, <1>9 DEF ArraysAreDisjoint

-----------------------------------------------------------------------------
(* One vector changes *)

\* A vector keeps its array or moves to a new one at the end of the heap.
Places(v, r, t) ==
    /\ r \in [arr : Nat, size : Nat, cap : Nat]
    /\ r.cap >= 1 /\ r.size <= r.cap /\ r.arr + r.cap <= t
    /\ t \in top..HeapSize
    /\ (Live(v) /\ r.arr = vec[v].arr /\ r.cap = vec[v].cap) \/ r.arr >= top

LEMMA PlacedIsApart ==
    ASSUME HeapInv, NEW v \in Vec, NEW r, NEW t, Places(v, r, t),
           vec' = [vec EXCEPT ![v] = r], top' = t, mem' \in Heap,
           UNCHANGED <<fonts, lowMemory, halted>>
    PROVE  HeapInv'
  <1>1. /\ vec \in [Vec -> [arr : 0..HeapSize \cup {Null}, size : Nat, cap : Nat]]
        /\ fonts \in [1..3 -> 0..HeapSize \cup {Null}] /\ top \in 0..HeapSize
        /\ HeapSize \in Nat /\ FontSize \in Nat
    BY ConstantFacts DEF HeapInv, TypeOK
  <1>2. /\ r.arr \in Nat /\ r.cap \in Nat /\ r.size \in Nat /\ t \in Nat /\ t >= top /\ t <= HeapSize
        /\ r.cap >= 1 /\ r.size <= r.cap /\ r.arr + r.cap <= t
        /\ r = [arr |-> r.arr, size |-> r.size, cap |-> r.cap]
    BY <1>1 DEF Places
  <1>3. r \in [arr : 0..HeapSize \cup {Null}, size : Nat, cap : Nat]
    BY <1>1, <1>2
  <1>4. TypeOK'
    BY <1>1, <1>2, <1>3 DEF HeapInv, TypeOK, Heap, Word
  <1>5. vec'[v] = r /\ \A w \in Vec \ {v} : vec'[w] = vec[w]
    BY <1>1
  <1>6. (Live(v))' /\ \A w \in Vec \ {v} : (Live(w))' = Live(w)
    BY <1>2, <1>5, ConstantFacts DEF Live
  <1>7. InHeap'
    <2>1. ASSUME NEW w \in Vec
          PROVE  (IF Live(w)
                  THEN /\ 1 <= vec[w].cap
                       /\ vec[w].size <= vec[w].cap
                       /\ vec[w].arr + vec[w].cap <= top
                  ELSE vec[w] = NoVector)'
      <3>1. CASE w = v
        BY <1>2, <1>5, <1>6, <3>1
      <3>2. CASE w # v /\ Live(w)
        BY <1>1, <1>2, <1>5, <1>6, <3>2, VectorFacts
      <3>3. CASE w # v /\ ~Live(w)
        <4>1. vec[w] = NoVector
          BY <3>3 DEF HeapInv, InHeap
        <4> QED
          BY <1>5, <1>6, <3>3, <4>1 DEF NoVector
      <3> QED
        BY <3>1, <3>2, <3>3
    <2>2. ASSUME NEW f \in 1..3, fonts[f] # Null
          PROVE  fonts[f] + FontSize <= t
      BY <1>1, <1>2, <2>2 DEF HeapInv, InHeap
    <2> QED
      BY <2>1, <2>2 DEF InHeap
  <1>8. ASSUME NEW w \in Vec, w # v, Live(w)
        PROVE  Apart(r.arr, r.cap, vec[w].arr, vec[w].cap) /\ Apart(vec[w].arr, vec[w].cap, r.arr, r.cap)
    <2>1. CASE r.arr >= top
      BY <1>2, <1>8, <2>1, VectorFacts DEF Apart
    <2>2. CASE Live(v) /\ r.arr = vec[v].arr /\ r.cap = vec[v].cap
      BY <1>8, <2>2 DEF HeapInv, VectorsApart
    <2> QED
      BY <2>1, <2>2 DEF Places
  <1>9. VectorsApart'
    <2> SUFFICES ASSUME NEW w \in Vec, NEW x \in Vec, w # x, Live(w)', Live(x)'
                 PROVE  Apart(vec'[w].arr, vec'[w].cap, vec'[x].arr, vec'[x].cap)
      BY DEF VectorsApart, Apart
    <2>1. CASE w = v
      BY <1>5, <1>6, <1>8, <2>1
    <2>2. CASE x = v
      BY <1>5, <1>6, <1>8, <2>2
    <2>3. CASE w # v /\ x # v
      BY <1>5, <1>6, <2>3 DEF HeapInv, VectorsApart
    <2> QED
      BY <2>1, <2>2, <2>3
  <1>10. ASSUME NEW f \in 1..3, fonts[f] # Null
         PROVE  Apart(r.arr, r.cap, fonts[f], FontSize)
    <2>1. CASE r.arr >= top
      <3>1. fonts[f] + FontSize <= top /\ fonts[f] \in Nat
        BY <1>1, <1>10 DEF HeapInv, InHeap
      <3> QED
        BY <1>1, <1>2, <2>1, <3>1 DEF Apart
    <2>2. CASE Live(v) /\ r.arr = vec[v].arr /\ r.cap = vec[v].cap
      BY <1>10, <2>2 DEF HeapInv, GlyphsApart
    <2> QED
      BY <2>1, <2>2 DEF Places
  <1>11. GlyphsApart'
    <2>1. ASSUME NEW f \in 1..3, fonts[f] # Null, NEW w \in Vec, Live(w)'
          PROVE  Apart(vec'[w].arr, vec'[w].cap, fonts[f], FontSize)
      <3>1. CASE w = v
        BY <1>5, <1>10, <2>1, <3>1
      <3>2. CASE w # v
        BY <1>5, <1>6, <2>1, <3>2 DEF HeapInv, GlyphsApart
      <3> QED
        BY <3>1, <3>2
    <2>2. ASSUME NEW f \in 1..3, fonts[f] # Null, NEW g \in 1..3, g # f, fonts[g] # Null
          PROVE  Apart(fonts[f], FontSize, fonts[g], FontSize)
      BY <2>2 DEF HeapInv, GlyphsApart
    <2> QED
      BY <2>1, <2>2 DEF GlyphsApart, Apart
  <1> QED
    BY <1>4, <1>7, <1>9, <1>11 DEF HeapInv

-----------------------------------------------------------------------------
(* The operations *)

\* memmove as the operations use it: between two ranges of the heap.
LEMMA MemmoveFacts ==
    ASSUME NEW m \in Heap, NEW dst \in Nat, NEW src \in Nat, NEW n \in Nat,
           dst + n <= HeapSize, src + n <= HeapSize
    PROVE  /\ Memmove(m, dst, src, n) \in Heap
           /\ \A i \in 0..n - 1 : Memmove(m, dst, src, n)[dst + i] = m[src + i]
           /\ \A a \in 0..HeapSize - 1 :
                a \notin dst..dst + n - 1 => Memmove(m, dst, src, n)[a] = m[a]
  <1> DEFINE moved == [a \in 0..HeapSize - 1 |-> IF a \in dst..dst + n - 1 THEN m[a - dst + src] ELSE m[a]]
  <1>1. Memmove(m, dst, src, n) = moved
    BY MemmoveIsExact
  <1>2. ASSUME NEW a \in 0..HeapSize - 1, a \in dst..dst + n - 1
        PROVE  a - dst + src \in 0..HeapSize - 1
    BY <1>2, ConstantFacts
  <1>3. moved \in Heap
    BY <1>2 DEF Heap
  <1>4. ASSUME NEW i \in 0..n - 1
        PROVE  moved[dst + i] = m[src + i]
    <2>1. dst + i \in 0..HeapSize - 1 /\ dst + i \in dst..dst + n - 1 /\ dst + i - dst + src = src + i
      BY <1>4, ConstantFacts
    <2> QED
      BY <2>1
  <1>5. \A a \in 0..HeapSize - 1 : a \notin dst..dst + n - 1 => moved[a] = m[a]
    OBVIOUS
  <1> HIDE DEF moved
  <1> QED
    BY <1>1, <1>3, <1>4, <1>5

\* What __grow leaves: the elements are where the vector points to, and
\* there is room for one more.
LEMMA RoomFacts ==
    ASSUME HeapInv, NEW v \in Vec, Live(v), Room(v).ok
    PROVE  /\ Room(v).mem \in Heap
           /\ Room(v).v = [arr |-> Room(v).v.arr, size |-> vec[v].size, cap |-> Room(v).v.cap]
           /\ vec[v].size < Room(v).v.cap
           /\ Places(v, Room(v).v, Room(v).top)
           /\ \A i \in 0..vec[v].size - 1 : Room(v).mem[Room(v).v.arr + i] = mem[vec[v].arr + i]
           /\ \A a \in 0..HeapSize - 1 :
                a \notin Words(Room(v).v.arr, Room(v).v.cap) => Room(v).mem[a] = mem[a]
  <1> DEFINE r == vec[v]
  <1>1. /\ r = [arr |-> r.arr, size |-> r.size, cap |-> r.cap]
        /\ r.arr \in Nat /\ r.size \in Nat /\ r.cap \in Nat /\ r.cap >= 1 /\ r.size <= r.cap
        /\ r.arr + r.cap <= top /\ top \in Nat /\ top <= HeapSize /\ HeapSize \in Nat
        /\ mem \in Heap
    BY VectorFacts DEF HeapInv, TypeOK, Heap, Word
  <1>2. CASE r.size # r.cap
    <2>1. Room(v) = [v |-> r, mem |-> mem, top |-> top, ok |-> TRUE]
      BY <1>2 DEF Room
    <2> HIDE DEF r
    <2>2. Places(v, r, top)
      BY <1>1 DEF Places, r
    <2> QED
      BY <1>1, <1>2, <2>1, <2>2 DEF r
  <1>3. CASE r.size = r.cap
    <2> DEFINE new == Kalloc(top, 2 * r.cap)
               grown == [arr |-> top, size |-> r.size, cap |-> 2 * r.cap]
               copy == Memmove(mem, top, r.arr, r.size)
    <2>1. new.ptr # Null
      <3> SUFFICES ASSUME new.ptr = Null PROVE FALSE
        OBVIOUS
      <3>1. Room(v) = [v |-> r, mem |-> mem, top |-> top, ok |-> FALSE]
        BY <1>3 DEF Room
      <3> QED
        BY <3>1
    <2>2. top + 2 * r.cap <= HeapSize /\ new.ptr = top /\ new.top = top + 2 * r.cap
      BY <2>1 DEF Kalloc
    <2>3. Room(v) = [v |-> [r EXCEPT !.arr = new.ptr, !.cap = 2 * r.cap],
                     mem |-> Memmove(mem, new.ptr, r.arr, r.size), top |-> new.top, ok |-> TRUE]
      BY <1>3, <2>1 DEF Room
    <2>4. [r EXCEPT !.arr = top, !.cap = 2 * r.cap] = grown
      <3>1. r \in [arr : 0..HeapSize \cup {Null}, size : Nat, cap : Nat]
        BY VectorFacts
      <3> DEFINE double == 2 * r.cap
                 q == [r EXCEPT !.arr = top, !.cap = double]
      <3> HIDE DEF r, double
      <3>2. q \in [arr : {top}, size : {r.size}, cap : {double}]
        BY <3>1
      <3> HIDE DEF q
      <3>3. q = [arr |-> top, size |-> r.size, cap |-> double]
        BY <3>2
      <3> QED
        BY <3>3 DEF q, double
    <2>5. Room(v) = [v |-> grown, mem |-> copy, top |-> top + 2 * r.cap, ok |-> TRUE]
      BY <2>2, <2>3, <2>4
    <2>6. /\ copy \in Heap
          /\ \A i \in 0..r.size - 1 : copy[top + i] = mem[r.arr + i]
          /\ \A a \in 0..HeapSize - 1 : a \notin top..top + r.size - 1 => copy[a] = mem[a]
      <3>1. top + r.size <= HeapSize /\ r.arr + r.size <= HeapSize
        BY <1>1, <2>2
      <3> HIDE DEF r
      <3> QED
        BY <1>1, <3>1, MemmoveFacts
    <2>7. /\ grown.arr = top /\ grown.size = r.size /\ grown.cap = 2 * r.cap
          /\ Room(v).v = grown /\ Room(v).mem = copy /\ Room(v).top = top + 2 * r.cap
      BY <2>5
    <2> HIDE DEF copy, new, r
    <2>8. Places(v, grown, top + 2 * r.cap)
      BY <1>1, <1>3, <2>2 DEF Places
    <2>9. r.size < 2 * r.cap
      BY <1>1, <1>3
    <2>10. \A a \in 0..HeapSize - 1 : a \notin Words(top, 2 * r.cap) => copy[a] = mem[a]
      BY <1>1, <1>3, <2>6 DEF Words
    <2> HIDE DEF grown
    <2> QED
      BY <2>6, <2>7, <2>8, <2>9, <2>10 DEF r, grown
  <1> QED
    BY <1>2, <1>3

\* push_back and insert: the element is put between those before and those
\* after it, and no word outside of the vector's array changes.
LEMMA StoredFacts ==
    ASSUME HeapInv, NEW v \in Vec, Live(v), NEW pos \in 0..vec[v].size, NEW e \in Elem,
           Stored(v, pos, e)
    PROVE  /\ vec' = [vec EXCEPT ![v] = vec'[v]]
           /\ vec'[v].size = vec[v].size + 1
           /\ Places(v, vec'[v], top')
           /\ mem' \in Heap
           /\ UNCHANGED <<fonts, lowMemory, halted>>
           /\ \A i \in 0..vec[v].size :
                mem'[vec'[v].arr + i] = IF i < pos THEN mem[vec[v].arr + i]
                                        ELSE IF i = pos THEN e ELSE mem[vec[v].arr + i - 1]
           /\ \A a \in 0..HeapSize - 1 :
                a \notin Words(vec'[v].arr, vec'[v].cap) => mem'[a] = mem[a]
  <1> DEFINE r == vec[v]
             g == Room(v)
             arr == g.v.arr
             cap == g.v.cap
             moved == Memmove(g.mem, arr + pos + 1, arr + pos, r.size - pos)
  <1>1. /\ g.mem \in Heap
        /\ g.v = [arr |-> arr, size |-> r.size, cap |-> cap] /\ r.size < cap
        /\ Places(v, g.v, g.top)
        /\ \A i \in 0..r.size - 1 : g.mem[arr + i] = mem[r.arr + i]
        /\ \A a \in 0..HeapSize - 1 : a \notin Words(arr, cap) => g.mem[a] = mem[a]
    BY RoomFacts DEF Stored
  <1>2. /\ arr \in Nat /\ cap \in Nat /\ arr + cap <= g.top /\ g.top \in Nat /\ g.top <= HeapSize
        /\ HeapSize \in Nat /\ r.size \in Nat
        /\ arr + cap <= HeapSize
    <2>1. top \in Nat /\ HeapSize \in Nat /\ r.size \in Nat
      BY VectorFacts
    <2> QED
      BY <1>1, <2>1 DEF Places
  <1>3. /\ vec' = [vec EXCEPT ![v] = [g.v EXCEPT !.size = @ + 1]]
        /\ mem' = [Memmove(g.mem, g.v.arr + pos + 1, g.v.arr + pos, g.v.size - pos)
                      EXCEPT ![g.v.arr + pos] = e]
        /\ top' = g.top
        /\ UNCHANGED <<fonts, lowMemory, halted>>
    BY DEF Stored
  <1>4. vec'[v] = [arr |-> arr, size |-> r.size + 1, cap |-> cap]
    <2>1. vec'[v] = [g.v EXCEPT !.size = @ + 1]
      BY <1>3 DEF HeapInv, TypeOK
    <2> HIDE DEF g, r, arr, cap
    <2> QED
      BY <1>1, <2>1
  <1>5. mem' = [moved EXCEPT ![arr + pos] = e]
    BY <1>1, <1>3
  <1>6. /\ moved \in Heap
        /\ \A i \in 0..r.size - pos - 1 : moved[arr + pos + 1 + i] = g.mem[arr + pos + i]
        /\ \A a \in 0..HeapSize - 1 :
             a \notin arr + pos + 1..arr + pos + 1 + (r.size - pos) - 1 => moved[a] = g.mem[a]
    <2>1. /\ arr + pos + 1 + (r.size - pos) <= HeapSize /\ arr + pos + (r.size - pos) <= HeapSize
          /\ arr + pos + 1 \in Nat /\ arr + pos \in Nat /\ r.size - pos \in Nat
      BY <1>1, <1>2
    <2> DEFINE h == g.mem
               dst == arr + pos + 1
               src == arr + pos
               n == r.size - pos
    <2>2. /\ h \in Heap /\ dst \in Nat /\ src \in Nat /\ n \in Nat
          /\ dst + n <= HeapSize /\ src + n <= HeapSize
      BY <1>1, <2>1
    <2> HIDE DEF g, r, arr, cap, h, dst, src, n
    <2>3. /\ Memmove(h, dst, src, n) \in Heap
          /\ \A i \in 0..n - 1 : Memmove(h, dst, src, n)[dst + i] = h[src + i]
          /\ \A a \in 0..HeapSize - 1 :
               a \notin dst..dst + n - 1 => Memmove(h, dst, src, n)[a] = h[a]
      BY <2>2, MemmoveFacts, ZenonT(30)
    <2> QED
      BY <2>3 DEF h, dst, src, n
  <1> DEFINE heap == g.mem
             t == g.top
  <1>7. Places(v, vec'[v], top')
    <2>1. /\ (Live(v) /\ arr = vec[v].arr /\ cap = vec[v].cap) \/ arr >= top
          /\ t \in top..HeapSize /\ cap >= 1 /\ t = top'
      BY <1>1, <1>3 DEF Places
    <2> HIDE DEF g, arr, cap, t, r
    <2>2. vec'[v].arr = arr /\ vec'[v].cap = cap /\ vec'[v].size = r.size + 1
      BY <1>4
    <2> QED
      BY <1>1, <1>2, <1>4, <2>1, <2>2 DEF Places, t
  <1> HIDE DEF r, g, arr, cap, moved
  <1>8. mem' \in Heap /\ \A a \in 0..HeapSize - 1 : mem'[a] = IF a = arr + pos THEN e ELSE moved[a]
    BY <1>5, <1>6 DEF Heap, Word
  <1>9. ASSUME NEW i \in 0..r.size
        PROVE  mem'[arr + i] = IF i < pos THEN mem[r.arr + i]
                               ELSE IF i = pos THEN e ELSE mem[r.arr + i - 1]
    <2>1. arr + i \in 0..HeapSize - 1 /\ pos \in 0..r.size /\ i \in Nat
      BY <1>1, <1>2, <1>9 DEF r
    <2>2. CASE i < pos
      <3>1. moved[arr + i] = heap[arr + i] /\ heap[arr + i] = mem[r.arr + i] /\ arr + i # arr + pos
        BY <1>1, <1>2, <1>6, <2>1, <2>2
      <3> QED
        BY <1>8, <2>1, <2>2, <3>1
    <2>3. CASE i = pos
      BY <1>8, <2>1, <2>3
    <2>4. CASE i > pos
      <3> DEFINE j == i - pos - 1
      <3>1. j \in 0..r.size - pos - 1 /\ arr + pos + 1 + j = arr + i /\ arr + pos + j = arr + (i - 1)
            /\ i - 1 \in 0..r.size - 1 /\ r.arr + (i - 1) = r.arr + i - 1 /\ arr + i # arr + pos
        <4>1. r.arr \in Int
          BY VectorFacts DEF r
        <4> QED
          BY <1>2, <2>1, <2>4, <4>1
      <3>2. moved[arr + i] = heap[arr + pos + j]
        BY <1>6, <3>1
      <3>3. heap[arr + (i - 1)] = mem[r.arr + (i - 1)]
        BY <1>1, <3>1
      <3>4. mem'[arr + i] = mem[r.arr + i - 1]
        BY <1>8, <2>1, <3>1, <3>2, <3>3
      <3> QED
        BY <2>1, <2>4, <3>4
    <2> QED
      BY <2>1, <2>2, <2>3, <2>4
  <1>10. ASSUME NEW a \in 0..HeapSize - 1, a \notin Words(arr, cap)
         PROVE  mem'[a] = mem[a]
    <2>1. a # arr + pos /\ a \notin arr + pos + 1..arr + pos + 1 + (r.size - pos) - 1
      BY <1>1, <1>2, <1>10 DEF Words, r
    <2> QED
      BY <1>1, <1>6, <1>8, <1>10, <2>1
  <1>11. vec' = [vec EXCEPT ![v] = vec'[v]]
    BY <1>3 DEF HeapInv, TypeOK
  <1> QED
    BY <1>3, <1>4, <1>7, <1>8, <1>9, <1>10, <1>11 DEF r

LEMMA ResizeFacts ==
    ASSUME HeapInv, NEW v \in Vec, Live(v), NEW n \in 0..vec[v].size,
           vec' = [vec EXCEPT ![v].size = n]
    PROVE  /\ vec' = [vec EXCEPT ![v] = vec'[v]]
           /\ vec'[v] = [arr |-> vec[v].arr, size |-> n, cap |-> vec[v].cap]
           /\ Places(v, vec'[v], top)
  <1> DEFINE r == vec[v]
             q == [r EXCEPT !.size = n]
  <1>1. /\ r \in [arr : 0..HeapSize \cup {Null}, size : Nat, cap : Nat]
        /\ r.arr \in Nat /\ r.size \in Nat /\ r.cap \in Nat /\ r.cap >= 1 /\ r.size <= r.cap
        /\ r.arr + r.cap <= top /\ top \in Nat /\ top <= HeapSize /\ HeapSize \in Nat
    BY VectorFacts
  <1>2. vec' = [vec EXCEPT ![v] = q] /\ vec'[v] = q
    BY DEF HeapInv, TypeOK
  <1> HIDE DEF r
  <1>3. q \in [arr : {r.arr}, size : {n}, cap : {r.cap}]
    BY <1>1
  <1> HIDE DEF q
  <1>4. q = [arr |-> r.arr, size |-> n, cap |-> r.cap]
    BY <1>3
  <1>5. Places(v, q, top)
    BY <1>1, <1>4 DEF Places, r
  <1> QED
    BY <1>2, <1>4, <1>5 DEF r

\* erase: the elements behind the erased one move down.
LEMMA EraseFacts ==
    ASSUME HeapInv, NEW v \in Vec, Live(v), NEW pos \in 0..vec[v].size - 1, Erase(v, pos)
    PROVE  /\ vec' = [vec EXCEPT ![v].size = vec[v].size - 1]
           /\ mem' \in Heap
           /\ UNCHANGED <<top, fonts, lowMemory, halted>>
           /\ \A i \in 0..vec[v].size - 2 :
                mem'[vec[v].arr + i] = IF i < pos THEN mem[vec[v].arr + i]
                                       ELSE mem[vec[v].arr + i + 1]
           /\ \A a \in 0..HeapSize - 1 :
                a \notin Words(vec[v].arr, vec[v].cap) => mem'[a] = mem[a]
  <1> DEFINE arr == vec[v].arr
             size == vec[v].size
             cap == vec[v].cap
             dst == arr + pos
             src == arr + pos + 1
             n == size - pos - 1
  <1>1. /\ arr \in Nat /\ size \in Nat /\ cap \in Nat /\ size <= cap /\ arr + cap <= HeapSize
        /\ HeapSize \in Nat
    BY VectorFacts
  <1>2. mem \in Heap
    BY DEF HeapInv, TypeOK, Heap, Word
  <1>3. /\ mem' = Memmove(mem, dst, src, n)
        /\ vec' = [vec EXCEPT ![v].size = vec[v].size - 1]
        /\ UNCHANGED <<top, fonts, lowMemory, halted>>
    BY DEF Erase, Resize
  <1>4. dst \in Nat /\ src \in Nat /\ n \in Nat /\ dst + n <= HeapSize /\ src + n <= HeapSize
    BY <1>1
  <1> HIDE DEF arr, size, cap, dst, src, n
  <1>5. /\ mem' \in Heap
        /\ \A i \in 0..n - 1 : mem'[dst + i] = mem[src + i]
        /\ \A a \in 0..HeapSize - 1 : a \notin dst..dst + n - 1 => mem'[a] = mem[a]
    BY <1>2, <1>3, <1>4, MemmoveFacts
  <1>6. ASSUME NEW i \in 0..size - 2
        PROVE  mem'[arr + i] = IF i < pos THEN mem[arr + i] ELSE mem[arr + i + 1]
    <2>1. CASE i < pos
      <3>1. arr + i \in 0..HeapSize - 1 /\ arr + i \notin dst..dst + n - 1
        BY <1>1, <1>6, <2>1 DEF dst, n
      <3> QED
        BY <1>5, <2>1, <3>1
    <2>2. CASE i >= pos
      <3> DEFINE j == i - pos
      <3>1. j \in 0..n - 1 /\ dst + j = arr + i /\ src + j = arr + i + 1
        BY <1>1, <1>6, <2>2 DEF dst, src, n
      <3>2. mem'[dst + j] = mem[src + j]
        BY <1>5, <3>1
      <3> QED
        BY <2>2, <3>1, <3>2
    <2> QED
      BY <1>6, <2>1, <2>2
  <1>7. ASSUME NEW a \in 0..HeapSize - 1, a \notin Words(arr, cap)
        PROVE  mem'[a] = mem[a]
    <2>1. a \notin dst..dst + n - 1
      BY <1>1, <1>7 DEF Words, dst, n, size
    <2> QED
      BY <1>5, <2>1
  <1> QED
    BY <1>3, <1>5, <1>6, <1>7 DEF arr, size, cap

LEMMA KallocFacts ==
    ASSUME NEW t \in 0..HeapSize, NEW n \in Nat
    PROVE  /\ Kalloc(t, n).top \in t..HeapSize
           /\ Kalloc(t, n).ptr # Null => Kalloc(t, n).ptr = t /\ Kalloc(t, n).top = t + n
           /\ Kalloc(t, n).ptr \in {Null, t}
  BY ConstantFacts DEF Kalloc

\* editor_init's vectors follow one another.
LEMMA TopAfterFacts ==
    /\ TopAfter[0] = 0
    /\ \A n \in 0..NStartup : TopAfter[n] \in Nat
    /\ \A m \in 0..NStartup, n \in 0..NStartup : m < n => TopAfter[m] + InitCap <= TopAfter[n]
  <1> DEFINE D == 0..NStartup
             step(f, n) == IF n = 0 THEN 0 ELSE f[n - 1] + InitCap
             witness == [n \in D |-> n * InitCap]
             t == CHOOSE f : f = [n \in D |-> step(f, n)]
  <1>1. NStartup \in Nat /\ InitCap \in Nat
    BY ConstantFacts
  <1>2. ASSUME NEW n \in D
        PROVE  witness[n] = step(witness, n)
    <2>1. CASE n = 0
      BY <1>1, <2>1
    <2>2. CASE n # 0
      <3>1. n - 1 \in D
        BY <1>1, <2>2
      <3>2. \A a \in Int, b \in Nat : a * b = (a - 1) * b + b
        OBVIOUS
      <3>3. n * InitCap = (n - 1) * InitCap + InitCap
        BY <1>1, <3>2
      <3> QED
        BY <2>2, <3>1, <3>3
    <2> QED
      BY <2>1, <2>2
  <1> HIDE DEF step
  <1>3. witness = [n \in D |-> step(witness, n)]
    BY <1>2
  <1> HIDE DEF witness
  <1>4. t = [n \in D |-> step(t, n)]
    BY <1>3
  <1>5. TopAfter = t
    BY DEF TopAfter, step
  <1> HIDE DEF t
  <1>6. \A n \in D : TopAfter[n] = IF n = 0 THEN 0 ELSE TopAfter[n - 1] + InitCap
    BY <1>4, <1>5 DEF step
  <1> DEFINE Typed == {n \in Nat : n \in D => TopAfter[n] \in Nat}
  <1>7. Nat \subseteq Typed
    <2>1. 0 \in Typed
      BY <1>1, <1>6
    <2>2. ASSUME NEW n \in Nat, n \in Typed
          PROVE  n + 1 \in Typed
      BY <1>1, <1>6, <2>2
    <2> HIDE DEF Typed
    <2> QED
      BY <2>1, <2>2, NatSetInduction
  <1>8. \A n \in D : TopAfter[n] \in Nat
    BY <1>1, <1>7
  <1> DEFINE S == {n \in Nat : n \in D =>
                     \A m \in D : m < n => TopAfter[m] + InitCap <= TopAfter[n]}
  <1>9. Nat \subseteq S
    <2>1. 0 \in S
      BY <1>1
    <2>2. ASSUME NEW n \in Nat, n \in S
          PROVE  n + 1 \in S
      <3> SUFFICES ASSUME n + 1 \in D, NEW m \in D, m < n + 1
                   PROVE  TopAfter[m] + InitCap <= TopAfter[n + 1]
        OBVIOUS
      <3>1. n \in D /\ TopAfter[n + 1] = TopAfter[n] + InitCap
        BY <1>1, <1>6
      <3>2. TopAfter[m] \in Nat /\ TopAfter[n] \in Nat
        BY <1>8, <3>1
      <3>3. CASE m = n
        BY <1>1, <3>1, <3>2, <3>3
      <3>4. CASE m # n
        <4>1. m < n
          BY <1>1, <3>4
        <4>2. TopAfter[m] + InitCap <= TopAfter[n]
          BY <2>2, <3>1, <4>1
        <4> QED
          BY <1>1, <3>1, <3>2, <4>2
      <3> QED
        BY <3>3, <3>4
    <2> HIDE DEF S
    <2> QED
      BY <2>1, <2>2, NatSetInduction
  <1> QED
    BY <1>1, <1>6, <1>8, <1>9

\* editor_init with enough memory for its vectors: the new vectors and
\* fonts follow one another at the end of the heap.
LEMMA EditorInitFacts ==
    ASSUME HeapInv, NEW e \in Elem, EditorInit(e), ~halted'
    PROVE  /\ \A v \in Vec : vec'[v] = IF v < NStartup
                                       THEN [arr |-> top + TopAfter[v], cap |-> InitCap,
                                             size |-> IF v = 0 THEN 1 ELSE 0]
                                       ELSE NoVector
           /\ mem' = [mem EXCEPT ![top + TopAfter[0]] = e]
           /\ mem'[top] = e
           /\ UNCHANGED halted
           /\ HeapInv'
  <1> DEFINE t0 == top + TopAfter[NStartup]
             f1 == Kalloc(t0, FontSize)
             f2 == Kalloc(f1.top, FontSize)
             f3 == Kalloc(f2.top, FontSize)
  <1>1. /\ t0 <= HeapSize
        /\ vec' = [v \in Vec |->
                      IF v < NStartup
                      THEN [arr |-> top + TopAfter[v], cap |-> InitCap,
                            size |-> IF v = 0 THEN 1 ELSE 0]
                      ELSE NoVector]
        /\ mem' = [mem EXCEPT ![top + TopAfter[0]] = e]
        /\ fonts' = <<f1.ptr, f2.ptr, f3.ptr>>
        /\ lowMemory' = (lowMemory \/ f3.ptr = Null)
        /\ top' = f3.top
        /\ UNCHANGED halted
    BY DEF EditorInit, AssertFails
  <1>2. /\ top \in Nat /\ HeapSize \in Nat /\ mem \in Heap /\ lowMemory \in BOOLEAN
        /\ halted \in BOOLEAN
    BY ConstantFacts DEF HeapInv, TypeOK, Heap, Word
  <1>3. /\ TopAfter[0] = 0
        /\ TopAfter[NStartup] \in Nat /\ t0 \in Nat
        /\ \A v \in 0..NStartup : TopAfter[v] \in Nat
        /\ \A v, w \in 0..NStartup : v < w => TopAfter[v] + InitCap <= TopAfter[w]
    BY <1>2, TopAfterFacts, ConstantFacts
  <1>4. /\ f1.top \in t0..HeapSize /\ f2.top \in f1.top..HeapSize /\ f3.top \in f2.top..HeapSize
        /\ f1.ptr # Null => f1.ptr = t0 /\ f1.top = t0 + FontSize
        /\ f2.ptr # Null => f2.ptr = f1.top /\ f2.top = f1.top + FontSize
        /\ f3.ptr # Null => f3.ptr = f2.top /\ f3.top = f2.top + FontSize
        /\ f1.ptr \in {Null, t0} /\ f2.ptr \in {Null, f1.top} /\ f3.ptr \in {Null, f2.top}
    <2> HIDE DEF t0
    <2>1. t0 \in 0..HeapSize
      BY <1>1, <1>2, <1>3
    <2>2. f1.top \in 0..HeapSize /\ f1.top \in t0..HeapSize
      BY <1>2, <2>1, KallocFacts, ConstantFacts
    <2>3. f2.top \in 0..HeapSize /\ f2.top \in f1.top..HeapSize
      <3> HIDE DEF f1
      <3> QED
        BY <1>2, <2>2, KallocFacts, ConstantFacts
    <2> HIDE DEF f1, f2
    <2>4. f3.top \in f2.top..HeapSize
      BY <1>2, <2>3, KallocFacts, ConstantFacts
    <2> QED
      BY <2>1, <2>2, <2>3, <2>4, KallocFacts, ConstantFacts DEF f1, f2
  <1> HIDE DEF t0, f1, f2, f3
  <1>5. /\ FontSize \in Nat /\ FontSize >= 1 /\ InitCap \in Nat /\ InitCap >= 1
        /\ NStartup \in Nat /\ NStartup >= 1 /\ Vec \subseteq Nat /\ 0 \in Vec /\ Null \notin Nat
        /\ Null = -1
    BY ConstantFacts DEF Null
  <1>6. ASSUME NEW v \in Vec, v < NStartup
        PROVE  /\ vec'[v] = [arr |-> top + TopAfter[v], cap |-> InitCap,
                             size |-> IF v = 0 THEN 1 ELSE 0]
               /\ vec'[v].arr = top + TopAfter[v] /\ vec'[v].cap = InitCap
               /\ vec'[v].size \in {0, 1}
               /\ TopAfter[v] \in Nat /\ top + TopAfter[v] + InitCap <= t0
               /\ Live(v)'
    <2>1. v \in 0..NStartup /\ NStartup \in 0..NStartup
      BY <1>5, <1>6
    <2>2. vec'[v] = [arr |-> top + TopAfter[v], cap |-> InitCap, size |-> IF v = 0 THEN 1 ELSE 0]
      BY <1>1, <1>6
    <2>3. TopAfter[v] \in Nat /\ TopAfter[v] + InitCap <= TopAfter[NStartup]
      BY <1>3, <1>6, <2>1
    <2>4. vec'[v].arr # Null
      BY <1>2, <1>5, <2>2, <2>3
    <2> QED
      BY <1>2, <1>3, <1>5, <2>2, <2>3, <2>4 DEF t0, Live
  <1>7. ASSUME NEW v \in Vec, ~(v < NStartup)
        PROVE  vec'[v] = NoVector /\ ~Live(v)'
    BY <1>1, <1>7 DEF Live, NoVector
  <1>8. top' \in t0..HeapSize /\ f1.top \in Nat /\ f2.top \in Nat /\ f3.top \in Nat
    BY <1>1, <1>2, <1>3, <1>4
  <1>9. fonts'[1] = f1.ptr /\ fonts'[2] = f2.ptr /\ fonts'[3] = f3.ptr
    BY <1>1
  <1>10. TypeOK'
    <2>1. mem' \in Heap
      BY <1>1, <1>2 DEF Heap, Word
    <2>2. top' \in 0..HeapSize
      BY <1>2, <1>3, <1>8
    <2>3. ASSUME NEW v \in Vec
          PROVE  vec'[v] \in [arr : 0..HeapSize \cup {Null}, size : Nat, cap : Nat]
      <3>1. CASE v < NStartup
        <4>1. top + TopAfter[v] \in 0..HeapSize
          BY <1>1, <1>2, <1>3, <1>5, <1>6, <3>1
        <4> DEFINE size == IF v = 0 THEN 1 ELSE 0
        <4>2. size \in Nat /\ InitCap \in Nat
          BY <1>5
        <4>3. vec'[v] = [arr |-> top + TopAfter[v], cap |-> InitCap, size |-> size]
          BY <1>6, <3>1
        <4> HIDE DEF size
        <4> QED
          BY <4>1, <4>2, <4>3
      <3>2. CASE ~(v < NStartup)
        BY <1>7, <3>2 DEF NoVector
      <3> QED
        BY <3>1, <3>2
    <2>4. vec' \in [Vec -> [arr : 0..HeapSize \cup {Null}, size : Nat, cap : Nat]]
      <3>1. vec' = [v \in Vec |-> vec'[v]]
        BY <1>1
      <3> QED
        BY <2>3, <3>1
    <2>5. fonts' \in [1..3 -> 0..HeapSize \cup {Null}]
      <3>1. f1.ptr \in 0..HeapSize \cup {Null} /\ f2.ptr \in 0..HeapSize \cup {Null}
            /\ f3.ptr \in 0..HeapSize \cup {Null}
        BY <1>1, <1>2, <1>3, <1>4, <1>8
      <3> QED
        BY <1>1, <3>1
    <2>6. lowMemory' \in BOOLEAN /\ halted' \in BOOLEAN
      BY <1>1, <1>2
    <2> QED
      BY <2>1, <2>2, <2>4, <2>5, <2>6 DEF TypeOK, Heap, Word
  <1>11. ASSUME NEW f \in 1..3, fonts'[f] # Null
         PROVE  fonts'[f] \in Nat /\ fonts'[f] >= t0 /\ fonts'[f] + FontSize <= top'
    BY <1>1, <1>3, <1>4, <1>5, <1>8, <1>9, <1>11
  <1>12. InHeap'
    <2>1. ASSUME NEW v \in Vec
          PROVE  (IF Live(v)
                  THEN /\ 1 <= vec[v].cap
                       /\ vec[v].size <= vec[v].cap
                       /\ vec[v].arr + vec[v].cap <= top
                  ELSE vec[v] = NoVector)'
      <3>1. CASE v < NStartup
        <4>1. 1 <= InitCap /\ vec'[v].size <= InitCap /\ top + TopAfter[v] + InitCap <= top'
          <5>1. /\ top \in Nat /\ InitCap \in Nat /\ InitCap >= 1 /\ t0 \in Nat /\ top' \in t0..HeapSize
                /\ vec'[v].size \in {0, 1} /\ TopAfter[v] \in Nat /\ top + TopAfter[v] + InitCap <= t0
            BY <1>2, <1>3, <1>5, <1>6, <1>8, <3>1
          <5> QED
            BY <5>1
        <4> QED
          BY <1>6, <3>1, <4>1
      <3>2. CASE ~(v < NStartup)
        BY <1>7, <3>2 DEF NoVector
      <3> QED
        BY <3>1, <3>2
    <2> QED
      BY <1>11, <2>1 DEF InHeap
  <1>13. VectorsApart'
    <2> SUFFICES ASSUME NEW v \in Vec, NEW w \in Vec, v # w, Live(v)', Live(w)'
                 PROVE  Apart(vec'[v].arr, vec'[v].cap, vec'[w].arr, vec'[w].cap)
      BY DEF VectorsApart, Apart
    <2>1. v < NStartup /\ w < NStartup /\ v \in 0..NStartup /\ w \in 0..NStartup
      BY <1>5, <1>7
    <2>2. TopAfter[v] + InitCap <= TopAfter[w] \/ TopAfter[w] + InitCap <= TopAfter[v]
      BY <1>3, <2>1
    <2>3. /\ vec'[v].arr = top + TopAfter[v] /\ vec'[v].cap = InitCap /\ TopAfter[v] \in Nat
          /\ vec'[w].arr = top + TopAfter[w] /\ vec'[w].cap = InitCap /\ TopAfter[w] \in Nat
      BY <1>6, <2>1
    <2> QED
      BY <1>2, <1>5, <2>2, <2>3 DEF Apart
  <1>14. GlyphsApart'
    <2>1. ASSUME NEW f \in 1..3, fonts'[f] # Null, NEW v \in Vec, Live(v)'
          PROVE  Apart(vec'[v].arr, vec'[v].cap, fonts'[f], FontSize)
      <3>1. v < NStartup
        BY <1>7, <2>1
      <3>2. /\ top \in Nat /\ InitCap \in Nat /\ t0 \in Nat /\ TopAfter[v] \in Nat
            /\ vec'[v].arr = top + TopAfter[v] /\ vec'[v].cap = InitCap
            /\ top + TopAfter[v] + InitCap <= t0
            /\ fonts'[f] \in Nat /\ fonts'[f] >= t0
        BY <1>2, <1>3, <1>5, <1>6, <1>11, <2>1, <3>1
      <3> QED
        BY <3>2 DEF Apart
    <2>2. ASSUME NEW f \in 1..3, fonts'[f] # Null, NEW g \in 1..3, g # f, fonts'[g] # Null
          PROVE  Apart(fonts'[f], FontSize, fonts'[g], FontSize)
      <3>1. fonts'[1] # Null /\ fonts'[2] # Null => fonts'[1] + FontSize <= fonts'[2]
        BY <1>4, <1>9, <1>8, <1>5
      <3>2. fonts'[1] # Null /\ fonts'[3] # Null => fonts'[1] + FontSize <= fonts'[3]
        BY <1>4, <1>9, <1>8, <1>5
      <3>3. fonts'[2] # Null /\ fonts'[3] # Null => fonts'[2] + FontSize <= fonts'[3]
        BY <1>4, <1>9, <1>8, <1>5
      <3>4. (f = 1 \/ f = 2 \/ f = 3) /\ (g = 1 \/ g = 2 \/ g = 3)
        BY <2>2
      <3> QED
        BY <2>2, <3>1, <3>2, <3>3, <3>4 DEF Apart
    <2> QED
      BY <2>1, <2>2 DEF GlyphsApart, Apart
  <1>15. mem'[top] = e
    <2>1. top + TopAfter[0] = top /\ top \in 0..HeapSize - 1
      <3>1. TopAfter[0] + InitCap <= TopAfter[NStartup]
        BY <1>3, <1>5
      <3> QED
        BY <1>1, <1>2, <1>3, <1>5, <3>1 DEF t0
    <2> QED
      BY <1>1, <1>2, <2>1 DEF Heap
  <1>16. \A v \in Vec : vec'[v] = IF v < NStartup
                                  THEN [arr |-> top + TopAfter[v], cap |-> InitCap,
                                        size |-> IF v = 0 THEN 1 ELSE 0]
                                  ELSE NoVector
    BY <1>1
  <1> QED
    BY <1>1, <1>10, <1>12, <1>13, <1>14, <1>15, <1>16 DEF HeapInv

-----------------------------------------------------------------------------
(* Every step keeps the invariant *)

LEMMA HaltKept ==
    ASSUME HeapInv, AssertFails
    PROVE  HeapInv'
  BY DEF HeapInv, AssertFails, TypeOK, InHeap, VectorsApart, GlyphsApart, Apart, Live

LEMMA Line_initKept ==
    ASSUME HeapInv, NEW v \in Vec, Line_init(v)
    PROVE  HeapInv'
  <1> DEFINE a == Kalloc(top, InitCap)
             r == [arr |-> a.ptr, size |-> 0, cap |-> InitCap]
  <1>1. CASE a.ptr = Null
    BY <1>1, HaltKept DEF Line_init
  <1>2. CASE a.ptr # Null
    <2>1. /\ vec' = [vec EXCEPT ![v] = r] /\ top' = a.top
          /\ UNCHANGED <<mem, fonts, lowMemory, halted>>
      BY <1>2 DEF Line_init
    <2>2. top \in 0..HeapSize /\ HeapSize \in Nat /\ InitCap \in Nat /\ InitCap >= 1
      BY VectorFacts, ConstantFacts
    <2>3. a.ptr = top /\ a.top = top + InitCap /\ a.top \in top..HeapSize
      BY <1>2, <2>2, KallocFacts
    <2> HIDE DEF a
    <2>4. Places(v, r, a.top)
      BY <2>2, <2>3 DEF Places
    <2>5. mem' \in Heap
      BY <2>1 DEF HeapInv, TypeOK, Heap, Word
    <2> HIDE DEF r
    <2> QED
      BY <2>1, <2>4, <2>5, PlacedIsApart
  <1> QED
    BY <1>1, <1>2

LEMMA InsertKept ==
    ASSUME HeapInv, NEW v \in Vec, NEW pos \in Int, NEW e \in Elem, Insert(v, pos, e)
    PROVE  HeapInv'
  <1>1. CASE Stored(v, pos, e)
    <2>1. Live(v) /\ pos \in 0..vec[v].size
      BY DEF Insert
    <2> QED
      BY <1>1, <2>1, StoredFacts, PlacedIsApart
  <1>2. CASE AssertFails
    BY <1>2, HaltKept
  <1> QED
    BY <1>1, <1>2 DEF Insert

LEMMA ShrinkKept ==
    ASSUME HeapInv, NEW v \in Vec, Live(v), NEW n \in 0..vec[v].size, mem' \in Heap,
           vec' = [vec EXCEPT ![v].size = n], UNCHANGED <<top, fonts, lowMemory, halted>>
    PROVE  HeapInv'
  BY ResizeFacts, PlacedIsApart

LEMMA DropKept ==
    ASSUME HeapInv, NEW v \in Vec, Drop(v)
    PROVE  HeapInv'
  <1>1. /\ vec' = [vec EXCEPT ![v] = NoVector]
        /\ UNCHANGED <<mem, top, fonts, lowMemory, halted>>
    BY DEF Drop
  <1>2. /\ vec'[v] = NoVector /\ ~Live(v)'
        /\ \A w \in Vec \ {v} : vec'[w] = vec[w] /\ Live(w)' = Live(w)
    BY <1>1 DEF HeapInv, TypeOK, Live, NoVector
  <1>3. TypeOK'
    <2>1. NoVector \in [arr : 0..HeapSize \cup {Null}, size : Nat, cap : Nat]
      BY DEF NoVector
    <2> QED
      BY <1>1, <2>1 DEF HeapInv, TypeOK
  <1>4. InHeap'
    <2>1. ASSUME NEW w \in Vec
          PROVE  (IF Live(w)
                  THEN /\ 1 <= vec[w].cap
                       /\ vec[w].size <= vec[w].cap
                       /\ vec[w].arr + vec[w].cap <= top
                  ELSE vec[w] = NoVector)'
      <3>1. CASE w = v
        BY <1>2, <3>1 DEF NoVector
      <3>2. CASE w # v
        <4>1. Live(w)' = Live(w) /\ vec'[w] = vec[w] /\ top' = top
          BY <1>1, <1>2, <3>2
        <4> QED
          BY <4>1 DEF HeapInv, InHeap, NoVector
      <3> QED
        BY <3>1, <3>2
    <2> QED
      BY <1>1, <2>1 DEF HeapInv, InHeap
  <1>5. VectorsApart'
    BY <1>2 DEF HeapInv, VectorsApart, Apart
  <1>6. GlyphsApart'
    BY <1>1, <1>2 DEF HeapInv, GlyphsApart, Apart
  <1> QED
    BY <1>3, <1>4, <1>5, <1>6 DEF HeapInv

LEMMA InitOK == Init => HeapInv
  <1> SUFFICES ASSUME Init PROVE HeapInv
    OBVIOUS
  <1>1. fonts = <<Null, Null, Null>> /\ \A f \in 1..3 : fonts[f] = Null
    BY DEF Init
  <1>2. \A v \in Vec : vec[v] = NoVector /\ ~Live(v)
    BY DEF Init, Live, NoVector
  <1>3. TypeOK
    <2>1. top \in 0..HeapSize /\ fonts \in [1..3 -> 0..HeapSize \cup {Null}]
      BY <1>1, ConstantFacts DEF Init
    <2>2. vec \in [Vec -> [arr : 0..HeapSize \cup {Null}, size : Nat, cap : Nat]]
      BY DEF Init, NoVector
    <2> QED
      BY <2>1, <2>2 DEF Init, TypeOK
  <1> QED
    BY <1>1, <1>2, <1>3 DEF HeapInv, InHeap, VectorsApart, GlyphsApart

LEMMA VectorStepKept ==
    ASSUME HeapInv, NEW v \in Vec, VectorStep(v)
    PROVE  HeapInv'
  <1>1. CASE Line_init(v)
    BY <1>1, Line_initKept
  <1>2. CASE PopBack(v)
    <2>1. /\ Live(v) /\ vec[v].size - 1 \in 0..vec[v].size
          /\ vec' = [vec EXCEPT ![v].size = vec[v].size - 1]
          /\ UNCHANGED <<mem, top, fonts, lowMemory, halted>>
      BY <1>2, VectorFacts DEF PopBack, Resize
    <2> QED
      BY <2>1, ShrinkKept DEF HeapInv, TypeOK, Heap, Word
  <1>3. CASE Clear(v)
    <2>1. /\ Live(v) /\ 0 \in 0..vec[v].size
          /\ vec' = [vec EXCEPT ![v].size = 0]
          /\ UNCHANGED <<mem, top, fonts, lowMemory, halted>>
      BY <1>3, VectorFacts DEF Clear, Resize
    <2> QED
      BY <2>1, ShrinkKept DEF HeapInv, TypeOK, Heap, Word
  <1>4. CASE Drop(v)
    BY <1>4, DropKept
  <1>5. ASSUME NEW e \in Elem, PushBack(v, e)
        PROVE  HeapInv'
    <2>1. vec[v].size \in Int
      BY VectorFacts
    <2> QED
      BY <1>5, <2>1, InsertKept DEF PushBack
  <1>6. ASSUME NEW pos \in 0..HeapSize, NEW e \in Elem, Insert(v, pos, e)
        PROVE  HeapInv'
    BY <1>6, InsertKept
  <1>7. ASSUME NEW pos \in 0..HeapSize, Erase(v, pos)
        PROVE  HeapInv'
    <2>1. Live(v) /\ pos \in 0..vec[v].size - 1
      BY <1>7 DEF Erase, Resize
    <2>2. vec[v].size - 1 \in 0..vec[v].size
      BY <2>1, VectorFacts
    <2>3. /\ mem' \in Heap /\ vec' = [vec EXCEPT ![v].size = vec[v].size - 1]
          /\ UNCHANGED <<top, fonts, lowMemory, halted>>
      BY <1>7, <2>1, EraseFacts
    <2> QED
      BY <2>1, <2>2, <2>3, ShrinkKept
  <1> QED
    BY <1>1, <1>2, <1>3, <1>4, <1>5, <1>6, <1>7 DEF VectorStep

LEMMA ClearTextKept ==
    ASSUME HeapInv, ~halted, NEW e \in Elem, EditorInit(e)
    PROVE  HeapInv'
  <1>1. CASE AssertFails
    BY <1>1, HaltKept
  <1>2. CASE ~halted'
    BY <1>2, EditorInitFacts
  <1>3. AssertFails \/ ~halted'
    BY DEF EditorInit
  <1> QED
    BY <1>1, <1>2, <1>3

LEMMA Inductive == HeapInv /\ [Next]_vars => HeapInv'
  <1> SUFFICES ASSUME HeapInv, [Next]_vars PROVE HeapInv'
    OBVIOUS
  <1>1. CASE Next
    BY <1>1, VectorStepKept, ClearTextKept DEF Next, ClearText
  <1>2. CASE UNCHANGED vars
    BY <1>2 DEF vars, HeapInv, TypeOK, InHeap, VectorsApart, GlyphsApart, Apart, Live
  <1> QED
    BY <1>1, <1>2

LEMMA InvariantHolds == Spec => []HeapInv
  BY InitOK, Inductive, PTL DEF Spec

\* Every word of the heap holds an element or the garbage of the fresh heap,
\* whatever is moved by memmove, and every pointer lies in the heap.
THEOREM TypeCorrect == Spec => []TypeOK
  <1>1. HeapInv => TypeOK
    BY DEF HeapInv
  <1> QED
    BY <1>1, InvariantHolds, PTL

\* No two arrays or fonts share a word and no vector outgrows its array.
THEOREM ArraysNeverOverlap == Spec => []ArraysAreDisjoint
  BY LayoutIsDisjoint, InvariantHolds, PTL

-----------------------------------------------------------------------------
(* The refinement of VectorSpec *)

Contents == [v \in Vec |-> Content(v)]

LEMMA WordsAreSeq ==
    ASSUME NEW m \in Heap, NEW a \in Int, NEW n \in Nat, n = 0 \/ (a \in Nat /\ a + n <= HeapSize)
    PROVE  LET s == [i \in 1..n |-> m[a + i - 1]]
           IN s \in Seq(Word) /\ Len(s) = n /\ \A i \in 1..n : s[i] = m[a + i - 1]
  <1> DEFINE s == [i \in 1..n |-> m[a + i - 1]]
  <1>1. \A i \in 1..n : m[a + i - 1] \in Word
    <2> SUFFICES ASSUME NEW i \in 1..n PROVE a + i - 1 \in 0..HeapSize - 1
      BY DEF Heap
    <2> QED
      BY ConstantFacts
  <1>2. s \in [1..n -> Word]
    BY <1>1
  <1>3. s \in Seq(Word)
    BY <1>2, SeqDef
  <1>4. Len(s) = n
    <2>1. DOMAIN s = 1..n /\ DOMAIN s = 1..Len(s) /\ Len(s) \in Nat
      <3> HIDE DEF s
      <3> QED
        BY <1>2, <1>3, LenProperties
    <2> HIDE DEF s
    <2> QED
      BY <2>1
  <1> QED
    BY <1>3, <1>4

LEMMA ContentFacts ==
    ASSUME HeapInv, NEW v \in Vec
    PROVE  /\ Content(v) \in Seq(Word) /\ Len(Content(v)) = vec[v].size
           /\ \A i \in 1..vec[v].size : Content(v)[i] = mem[vec[v].arr + i - 1]
  <1>1. mem \in Heap
    BY DEF HeapInv, TypeOK, Heap, Word
  <1>2. /\ vec[v].size \in Nat /\ vec[v].arr \in Int
        /\ vec[v].size = 0 \/ (vec[v].arr \in Nat /\ vec[v].arr + vec[v].size <= HeapSize)
    <2>1. vec[v].arr \in Int
      BY VectorFacts DEF Null
    <2> QED
      BY <2>1, VectorFacts
  <1> DEFINE a == vec[v].arr
             n == vec[v].size
  <1> HIDE DEF a, n
  <1>3. LET s == [i \in 1..n |-> mem[a + i - 1]]
        IN s \in Seq(Word) /\ Len(s) = n /\ \A i \in 1..n : s[i] = mem[a + i - 1]
    BY <1>1, <1>2, WordsAreSeq DEF a, n
  <1> QED
    BY <1>3 DEF Content, a, n

LEMMA NextContentFacts ==
    ASSUME HeapInv', NEW v \in Vec
    PROVE  /\ Content(v)' \in Seq(Word) /\ Len(Content(v)') = vec'[v].size
           /\ \A i \in 1..vec'[v].size : Content(v)'[i] = mem'[vec'[v].arr + i - 1]
  <1>1. mem' \in Heap
    BY DEF HeapInv, TypeOK, Heap, Word
  <1>2. /\ vec'[v].size \in Nat /\ vec'[v].arr \in Int
        /\ vec'[v].size = 0 \/ (vec'[v].arr \in Nat /\ vec'[v].arr + vec'[v].size <= HeapSize)
    <2>1. /\ vec'[v] \in [arr : 0..HeapSize \cup {Null}, size : Nat, cap : Nat]
          /\ top' \in 0..HeapSize
      BY DEF HeapInv, TypeOK
    <2>2. CASE Live(v)'
      <3>1. vec'[v].size <= vec'[v].cap /\ vec'[v].arr + vec'[v].cap <= top'
        BY <2>2 DEF HeapInv, InHeap
      <3> QED
        BY <2>1, <2>2, <3>1, ConstantFacts DEF Live
    <2>3. CASE ~Live(v)'
      <3>1. vec'[v] = NoVector
        BY <2>3 DEF HeapInv, InHeap, NoVector
      <3> QED
        BY <3>1 DEF NoVector, Null
    <2> QED
      BY <2>2, <2>3
  <1> DEFINE a == vec'[v].arr
             n == vec'[v].size
  <1> HIDE DEF a, n
  <1>3. LET s == [i \in 1..n |-> mem'[a + i - 1]]
        IN s \in Seq(Word) /\ Len(s) = n /\ \A i \in 1..n : s[i] = mem'[a + i - 1]
    BY <1>1, <1>2, WordsAreSeq DEF a, n
  <1> QED
    BY <1>3 DEF Content, a, n

\* What changes in one vector's array changes the contents of that vector alone.
LEMMA OthersKeep ==
    ASSUME HeapInv, HeapInv', NEW v \in Vec,
           \A w \in Vec \ {v} : vec'[w] = vec[w],
           Live(v)',
           \A a \in 0..HeapSize - 1 :
              a \notin Words(vec'[v].arr, vec'[v].cap) => mem'[a] = mem[a]
    PROVE  Contents' = [Contents EXCEPT ![v] = Content(v)']
  <1>1. ASSUME NEW w \in Vec, w # v
        PROVE  Content(w)' = Content(w)
    <2>1. vec'[w] = vec[w] /\ vec[w].size \in Nat
      BY <1>1, VectorFacts
    <2>2. ASSUME NEW i \in 1..vec[w].size
          PROVE  mem'[vec[w].arr + i - 1] = mem[vec[w].arr + i - 1]
      <3>1. vec[w].size # 0 /\ Live(w) /\ Live(w)'
        BY <2>1, <2>2, VectorFacts DEF Live
      <3>2. Apart(vec'[v].arr, vec'[v].cap, vec'[w].arr, vec'[w].cap)
        BY <1>1, <3>1 DEF HeapInv, VectorsApart, Apart
      <3>3. /\ vec[w].arr \in Nat /\ vec[w].cap \in Nat /\ vec[w].size <= vec[w].cap
            /\ vec[w].arr + vec[w].cap <= HeapSize /\ HeapSize \in Nat
        BY <3>1, VectorFacts
      <3>4. vec'[v].arr \in Int /\ vec'[v].cap \in Int
        <4>1. vec'[v] \in [arr : 0..HeapSize \cup {Null}, size : Nat, cap : Nat]
          BY DEF HeapInv, TypeOK
        <4> QED
          BY <4>1 DEF Null
      <3>5. /\ vec[w].arr + i - 1 \in 0..HeapSize - 1
            /\ vec[w].arr + i - 1 \notin Words(vec'[v].arr, vec'[v].cap)
        BY <2>1, <2>2, <3>2, <3>3, <3>4 DEF Words, Apart
      <3> QED
        BY <3>5
    <2> QED
      BY <2>1, <2>2 DEF Content
  <1> QED
    BY <1>1 DEF Contents

LEMMA InsertImplements ==
    ASSUME HeapInv, HeapInv', NEW v \in Vec, NEW pos \in Int, NEW e \in Elem,
           Live(v), pos \in 0..vec[v].size, Stored(v, pos, e)
    PROVE  Abstract!Put(v)
  <1> DEFINE s == Content(v)
             r == Content(v)'
  <1>1. s \in Seq(Word) /\ Len(s) = vec[v].size /\ \A k \in 1..Len(s) : s[k] = mem[vec[v].arr + k - 1]
    BY ContentFacts
  <1>2. r \in Seq(Word) /\ Len(r) = vec'[v].size /\ \A k \in 1..Len(r) : r[k] = mem'[vec'[v].arr + k - 1]
    BY NextContentFacts
  <1>3. /\ vec'[v].size = vec[v].size + 1 /\ Places(v, vec'[v], top') /\ UNCHANGED halted
        /\ vec' = [vec EXCEPT ![v] = vec'[v]]
        /\ \A i \in 0..vec[v].size :
             mem'[vec'[v].arr + i] = IF i < pos THEN mem[vec[v].arr + i]
                                     ELSE IF i = pos THEN e ELSE mem[vec[v].arr + i - 1]
        /\ \A a \in 0..HeapSize - 1 :
             a \notin Words(vec'[v].arr, vec'[v].cap) => mem'[a] = mem[a]
    BY StoredFacts
  <1>4. vec[v].size \in Nat /\ vec[v].arr \in Nat /\ vec'[v].arr \in Nat /\ Live(v)'
    BY <1>3, VectorFacts, ConstantFacts DEF Places, Live
  <1>5. Contents' = [Contents EXCEPT ![v] = r]
    <2>1. \A w \in Vec \ {v} : vec'[w] = vec[w]
      BY <1>3 DEF HeapInv, TypeOK
    <2> QED
      BY <1>3, <1>4, <2>1, OthersKeep
  <1> HIDE DEF s, r
  <1>6. ASSUME NEW k \in 1..Len(r)
        PROVE  r[k] = IF k < pos + 1 THEN s[k] ELSE IF k = pos + 1 THEN e ELSE s[k - 1]
    <2> DEFINE i == k - 1
    <2>1. i \in 0..vec[v].size /\ vec'[v].arr + k - 1 = vec'[v].arr + i
          /\ vec[v].arr + k - 1 = vec[v].arr + i
      BY <1>2, <1>3, <1>4
    <2>2. r[k] = IF i < pos THEN mem[vec[v].arr + i]
                 ELSE IF i = pos THEN e ELSE mem[vec[v].arr + i - 1]
      BY <1>2, <1>3, <2>1
    <2>3. CASE i < pos
      <3>1. k \in 1..Len(s) /\ k < pos + 1
        BY <1>1, <1>4, <2>1, <2>3
      <3> QED
        BY <1>1, <2>1, <2>2, <2>3, <3>1
    <2>4. CASE i = pos
      BY <2>2, <2>4
    <2>5. CASE i > pos
      <3>1. k - 1 \in 1..Len(s) /\ ~(k < pos + 1) /\ k # pos + 1
            /\ vec[v].arr + (k - 1) - 1 = vec[v].arr + i - 1
        BY <1>1, <1>4, <2>1, <2>5
      <3>2. s[k - 1] = mem[vec[v].arr + (k - 1) - 1]
        BY <1>1, <3>1
      <3> QED
        BY <2>2, <2>5, <3>1, <3>2
    <2> QED
      BY <2>1, <2>3, <2>4, <2>5
  <1>7. pos + 1 \in 1..Len(s) + 1 /\ Len(r) = Len(s) + 1 /\ e \in Word
    BY <1>1, <1>2, <1>3, <1>4 DEF Word
  <1>8. r = InsertAt(s, pos + 1, e)
    BY <1>1, <1>2, <1>6, <1>7, InsertSeq
  <1>9. Contents[v] = s
    BY DEF Contents, s
  <1> QED
    BY <1>3, <1>5, <1>7, <1>8, <1>9
       DEF Abstract!Put, Abstract!Becomes, Abstract!InsertAt, InsertAt, Contents

LEMMA EraseImplements ==
    ASSUME HeapInv, HeapInv', NEW v \in Vec, NEW pos \in Int, Erase(v, pos)
    PROVE  Abstract!Take(v)
  <1> DEFINE s == Content(v)
             r == Content(v)'
  <1>0. Live(v) /\ pos \in 0..vec[v].size - 1 /\ vec[v].size - 1 \in 0..vec[v].size
    BY VectorFacts DEF Erase, Resize
  <1>1. s \in Seq(Word) /\ Len(s) = vec[v].size /\ \A k \in 1..Len(s) : s[k] = mem[vec[v].arr + k - 1]
    BY ContentFacts
  <1>2. r \in Seq(Word) /\ Len(r) = vec'[v].size /\ \A k \in 1..Len(r) : r[k] = mem'[vec'[v].arr + k - 1]
    BY NextContentFacts
  <1>3. /\ vec' = [vec EXCEPT ![v].size = vec[v].size - 1]
        /\ UNCHANGED halted
        /\ \A i \in 0..vec[v].size - 2 :
             mem'[vec[v].arr + i] = IF i < pos THEN mem[vec[v].arr + i]
                                    ELSE mem[vec[v].arr + i + 1]
        /\ \A a \in 0..HeapSize - 1 :
             a \notin Words(vec[v].arr, vec[v].cap) => mem'[a] = mem[a]
    BY <1>0, EraseFacts
  <1>4. vec'[v] = [arr |-> vec[v].arr, size |-> vec[v].size - 1, cap |-> vec[v].cap]
    BY <1>0, <1>3, ResizeFacts
  <1>5. vec[v].size \in Nat /\ vec[v].arr \in Nat /\ Live(v)'
    BY <1>0, <1>4, VectorFacts DEF Live
  <1>6. Contents' = [Contents EXCEPT ![v] = r]
    <2>1. \A w \in Vec \ {v} : vec'[w] = vec[w]
      BY <1>3 DEF HeapInv, TypeOK
    <2> QED
      BY <1>3, <1>4, <1>5, <2>1, OthersKeep
  <1> HIDE DEF s, r
  <1>7. ASSUME NEW k \in 1..Len(r)
        PROVE  r[k] = IF k < pos + 1 THEN s[k] ELSE s[k + 1]
    <2> DEFINE i == k - 1
    <2>1. /\ i \in 0..vec[v].size - 2 /\ vec'[v].arr + k - 1 = vec[v].arr + i
          /\ k \in 1..Len(s) /\ vec[v].arr + k - 1 = vec[v].arr + i
          /\ k + 1 \in 1..Len(s) /\ vec[v].arr + (k + 1) - 1 = vec[v].arr + i + 1
      <3>1. vec'[v].arr = vec[v].arr /\ vec'[v].size = vec[v].size - 1 /\ Len(r) = vec[v].size - 1
        BY <1>2, <1>4
      <3> QED
        BY <1>1, <1>5, <3>1, SMTT(30)
    <2>2. r[k] = IF i < pos THEN mem[vec[v].arr + i] ELSE mem[vec[v].arr + i + 1]
      BY <1>2, <1>3, <2>1
    <2>3. s[k] = mem[vec[v].arr + i] /\ s[k + 1] = mem[vec[v].arr + i + 1]
      BY <1>1, <2>1
    <2>4. i < pos <=> k < pos + 1
      BY <2>1
    <2> QED
      BY <2>2, <2>3, <2>4
  <1>8. pos + 1 \in 1..Len(s) /\ Len(r) = Len(s) - 1
    BY <1>0, <1>1, <1>2, <1>4, <1>5
  <1>9. r = RemoveAt(s, pos + 1)
    BY <1>1, <1>2, <1>7, <1>8, RemoveSeq
  <1>10. Contents[v] = s
    BY DEF Contents, s
  <1> QED
    BY <1>3, <1>6, <1>8, <1>9, <1>10
       DEF Abstract!Take, Abstract!Becomes, Abstract!RemoveAt, RemoveAt, Contents

\* pop_back, clear and the destructor shorten a vector and change no word.
LEMMA ShortenFacts ==
    ASSUME HeapInv, HeapInv', NEW v \in Vec, mem' = mem,
           \A w \in Vec \ {v} : vec'[w] = vec[w]
    PROVE  Contents' = [Contents EXCEPT ![v] = Content(v)']
  <1>1. ASSUME NEW w \in Vec, w # v
        PROVE  Content(w)' = Content(w)
    BY <1>1 DEF Content
  <1> QED
    BY <1>1 DEF Contents

LEMMA NoContent ==
    ASSUME NEW v \in Vec
    PROVE  /\ vec[v].size = 0 => Content(v) = << >>
           /\ vec'[v].size = 0 => Content(v)' = << >>
  <1>1. \A a, m : [i \in 1..0 |-> m[a + i - 1]] = << >>
    OBVIOUS
  <1> QED
    BY <1>1 DEF Content

LEMMA PopBackImplements ==
    ASSUME HeapInv, HeapInv', NEW v \in Vec, PopBack(v)
    PROVE  Abstract!RemoveLast(v)
  <1> DEFINE s == Content(v)
             r == Content(v)'
  <1>1. /\ Live(v) /\ vec[v].size > 0 /\ vec[v].size \in Nat /\ vec[v].size - 1 \in 0..vec[v].size
        /\ vec' = [vec EXCEPT ![v].size = vec[v].size - 1] /\ mem' = mem /\ UNCHANGED halted
    BY VectorFacts DEF PopBack, Resize
  <1>2. vec'[v] = [arr |-> vec[v].arr, size |-> vec[v].size - 1, cap |-> vec[v].cap]
    BY <1>1, ResizeFacts
  <1>3. Contents' = [Contents EXCEPT ![v] = r]
    <2>1. \A w \in Vec \ {v} : vec'[w] = vec[w]
      BY <1>1 DEF HeapInv, TypeOK
    <2> QED
      BY <1>1, <2>1, ShortenFacts
  <1>4. s \in Seq(Word) /\ Len(s) = vec[v].size /\ \A k \in 1..Len(s) : s[k] = mem[vec[v].arr + k - 1]
    BY ContentFacts
  <1>5. r \in Seq(Word) /\ Len(r) = vec'[v].size /\ \A k \in 1..Len(r) : r[k] = mem'[vec'[v].arr + k - 1]
    BY NextContentFacts
  <1>6. vec'[v].arr = vec[v].arr /\ vec'[v].size = vec[v].size - 1
    BY <1>2
  <1> HIDE DEF s, r
  <1>7. s # << >>
    BY <1>1, <1>4
  <1>8. Len(r) = Len(s) - 1 /\ \A k \in 1..Len(r) : r[k] = s[k]
    BY <1>1, <1>4, <1>5, <1>6
  <1>9. r = Front(s)
    BY <1>4, <1>5, <1>7, <1>8, FrontSeq
  <1>10. Contents[v] = s
    BY DEF Contents, s
  <1> QED
    BY <1>1, <1>3, <1>7, <1>9, <1>10
       DEF Abstract!RemoveLast, Abstract!Becomes, Abstract!Front, Front, Contents

LEMMA EmptyImplements ==
    ASSUME HeapInv, HeapInv', NEW v \in Vec, Clear(v) \/ Drop(v)
    PROVE  Abstract!Empty(v)
  <1>1. vec'[v].size = 0 /\ mem' = mem /\ UNCHANGED halted /\ \A w \in Vec \ {v} : vec'[w] = vec[w]
    <2>1. CASE Clear(v)
      <3>1. /\ Live(v) /\ 0 \in 0..vec[v].size
            /\ vec' = [vec EXCEPT ![v].size = 0] /\ mem' = mem /\ UNCHANGED halted
        BY <2>1, VectorFacts DEF Clear, Resize
      <3>2. vec'[v] = [arr |-> vec[v].arr, size |-> 0, cap |-> vec[v].cap]
        BY <3>1, ResizeFacts
      <3> QED
        BY <3>1, <3>2 DEF HeapInv, TypeOK
    <2>2. CASE Drop(v)
      <3>1. vec' = [vec EXCEPT ![v] = NoVector] /\ mem' = mem /\ UNCHANGED halted
        BY <2>2 DEF Drop
      <3> QED
        BY <3>1 DEF NoVector, HeapInv, TypeOK
    <2> QED
      BY <2>1, <2>2
  <1>2. Contents' = [Contents EXCEPT ![v] = Content(v)']
    BY <1>1, ShortenFacts
  <1>3. Content(v)' = << >>
    BY <1>1, NoContent
  <1> QED
    BY <1>1, <1>2, <1>3 DEF Abstract!Empty, Abstract!Becomes, Contents

LEMMA HaltImplements ==
    ASSUME AssertFails
    PROVE  Abstract!Halt
  BY DEF AssertFails, Abstract!Halt, Content

\* The allocation of a vector is not seen: it was empty before.
LEMMA Line_initImplements ==
    ASSUME HeapInv, NEW v \in Vec, Line_init(v)
    PROVE  Abstract!Halt \/ (UNCHANGED Contents /\ UNCHANGED halted)
  <1>1. CASE AssertFails
    BY <1>1, HaltImplements
  <1>2. CASE ~AssertFails
    <2>1. /\ vec' = [vec EXCEPT ![v] = [arr |-> Kalloc(top, InitCap).ptr, size |-> 0, cap |-> InitCap]]
          /\ UNCHANGED <<mem, halted>> /\ ~Live(v)
      BY <1>2 DEF Line_init
    <2>2. vec'[v].size = 0 /\ vec[v].size = 0 /\ \A w \in Vec \ {v} : vec'[w] = vec[w]
      BY <2>1, VectorFacts DEF HeapInv, TypeOK
    <2>3. Content(v)' = Content(v)
      BY <2>2, NoContent
    <2>4. \A w \in Vec \ {v} : Content(w)' = Content(w)
      BY <2>1, <2>2 DEF Content
    <2> QED
      BY <2>1, <2>3, <2>4 DEF Contents
  <1> QED
    BY <1>1, <1>2

LEMMA EditorInitImplements ==
    ASSUME HeapInv, ~halted, NEW e \in Elem, EditorInit(e)
    PROVE  Abstract!Restart \/ Abstract!Halt
  <1>1. CASE AssertFails
    BY <1>1, HaltImplements
  <1>2. CASE ~halted'
    <2>1. /\ \A v \in Vec : vec'[v] = IF v < NStartup
                                      THEN [arr |-> top + TopAfter[v], cap |-> InitCap,
                                            size |-> IF v = 0 THEN 1 ELSE 0]
                                      ELSE NoVector
          /\ mem'[top] = e /\ UNCHANGED halted
      BY <1>2, EditorInitFacts
    <2>2. ASSUME NEW v \in Vec, v # 0
          PROVE  Content(v)' = << >>
      <3>1. vec'[v].size = 0
        <4>1. CASE v < NStartup
          <5>1. vec'[v] = [arr |-> top + TopAfter[v], cap |-> InitCap, size |-> 0]
            BY <2>1, <2>2, <4>1
          <5> QED
            BY <5>1
        <4>2. CASE ~(v < NStartup)
          <5>1. vec'[v] = NoVector
            BY <2>1, <4>2
          <5> QED
            BY <5>1 DEF NoVector
        <4> QED
          BY <4>1, <4>2
      <3> QED
        BY <3>1, NoContent
    <2>3. Content(0)' = <<e>>
      <3>1. 0 \in Vec /\ 0 < NStartup /\ TopAfter[0] = 0 /\ top \in Nat
        BY ConstantFacts, TopAfterFacts, VectorFacts
      <3>2. vec'[0].arr = top /\ vec'[0].size = 1
        <4>1. vec'[0] = [arr |-> top + 0, cap |-> InitCap, size |-> 1]
          BY <2>1, <3>1
        <4> QED
          BY <3>1, <4>1
      <3>3. Content(0)' = [i \in 1..1 |-> mem'[top + i - 1]]
        BY <3>2 DEF Content
      <3>4. \A i \in 1..1 : mem'[top + i - 1] = e
        BY <2>1, <3>1
      <3>5. [i \in 1..1 |-> mem'[top + i - 1]] = [i \in 1..1 |-> e]
        BY <3>4
      <3>6. [i \in 1..1 |-> e] = <<e>>
        OBVIOUS
      <3> QED
        BY <3>3, <3>5, <3>6
    <2>4. Contents' = [v \in Vec |-> IF v = 0 THEN <<e>> ELSE << >>]
      BY <2>2, <2>3 DEF Contents
    <2> QED
      BY <2>1, <2>4 DEF Abstract!Restart, Contents
  <1>3. AssertFails \/ ~halted'
    BY DEF EditorInit
  <1> QED
    BY <1>1, <1>2, <1>3

LEMMA StepImplements ==
    HeapInv /\ HeapInv' /\ [Next]_vars => [Abstract!SeqNext]_<<Contents, halted>>
  <1> SUFFICES ASSUME HeapInv, HeapInv', [Next]_vars
               PROVE  Abstract!SeqNext \/ UNCHANGED <<Contents, halted>>
    OBVIOUS
  <1>1. CASE Next
    <2>1. ~halted
      BY <1>1 DEF Next
    <2>2. ASSUME NEW v \in Vec, VectorStep(v)
          PROVE  \/ Abstract!RemoveLast(v) \/ Abstract!Put(v) \/ Abstract!Take(v)
                 \/ Abstract!Empty(v) \/ Abstract!Halt \/ UNCHANGED <<Contents, halted>>
      <3>1. ASSUME NEW pos \in Int, NEW e \in Elem, Insert(v, pos, e)
            PROVE  Abstract!Put(v) \/ Abstract!Halt
        BY <3>1, InsertImplements, HaltImplements DEF Insert
      <3>2. ASSUME NEW e \in Elem, PushBack(v, e)
            PROVE  Abstract!Put(v) \/ Abstract!Halt
        <4>1. vec[v].size \in Int
          BY VectorFacts
        <4> QED
          BY <3>1, <3>2, <4>1 DEF PushBack
      <3>3. ASSUME NEW pos \in 0..HeapSize, Erase(v, pos)
            PROVE  Abstract!Take(v)
        BY <3>3, EraseImplements
      <3>4. ASSUME NEW pos \in 0..HeapSize, NEW e \in Elem, Insert(v, pos, e)
            PROVE  Abstract!Put(v) \/ Abstract!Halt
        BY <3>1, <3>4
      <3>5. CASE Line_init(v)
        BY <3>5, Line_initImplements
      <3>6. CASE PopBack(v)
        BY <3>6, PopBackImplements
      <3>7. CASE Clear(v) \/ Drop(v)
        BY <3>7, EmptyImplements
      <3> QED
        BY <2>2, <3>2, <3>3, <3>4, <3>5, <3>6, <3>7 DEF VectorStep
    <2>3. ASSUME NEW e \in Elem, EditorInit(e)
          PROVE  Abstract!Restart \/ Abstract!Halt
      BY <2>1, <2>3, EditorInitImplements
    <2> QED
      BY <1>1, <2>1, <2>2, <2>3 DEF Next, ClearText, Abstract!SeqNext
  <1>2. CASE UNCHANGED vars
    BY <1>2 DEF vars, Contents, Content
  <1> QED
    BY <1>1, <1>2

LEMMA InitImplements == Init => Abstract!SeqInit
  <1> SUFFICES ASSUME Init PROVE Abstract!SeqInit
    OBVIOUS
  <1>1. \A v \in Vec : Content(v) = << >>
    BY NoContent DEF Init, NoVector
  <1> QED
    BY <1>1 DEF Abstract!SeqInit, Init

\* Through all growing, copying and moving of arrays, and through all
\* restarts of the editor, every vector is the sequence that the operations
\* on it make.
THEOREM VectorsImplementSequences == Spec => VectorsAreSequences
  <1>1. HeapInv /\ HeapInv' /\ [Next]_vars => [Abstract!SeqNext]_<<Contents, halted>>
    BY StepImplements
  <1>2. HeapInv /\ HeapInv' /\ [Next]_vars => [Abstract!SeqNext]_<<[v \in Vec |-> Content(v)], halted>>
    BY <1>1 DEF Contents
  <1> QED
    BY <1>2, InitImplements, InvariantHolds, PTL DEF Spec, VectorsAreSequences, Abstract!SeqSpec
=============================================================================
