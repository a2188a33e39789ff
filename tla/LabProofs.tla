----------------------------- MODULE LabProofs -----------------------------
(***************************************************************************)
(* The theorems of the two programs of lab1 and lab2, for every disk,      *)
(* every depth of calls and every command line, and for operands of every  *)
(* length:                                                                 *)
(*   CatPrints             cat prints the file that its path names         *)
(*   LsLists               ls lists the directory and those below it,      *)
(*                         once each, a directory before those below it    *)
(*   CalculatorPrints      the product is printed right, and which sums    *)
(*   NumbersFit            no byte overflows, every number is terminated   *)
(*                                                                         *)
(* The first two follow from LabInv, which says of each call of            *)
(* read_dir_recursive that the part it has read mirrors the disk, of       *)
(* find_file that it is at the node that the path names up to there, and   *)
(* of cat how much of the chain it has copied; and from ListingInv, which  *)
(* says of each call of list_files which paths are listed.  The other two  *)
(* follow from IInv, which says which number is in c in each loop.         *)
(***************************************************************************)
EXTENDS Fat12, Decimal, DataLemmas, FiniteSetTheorems, SequenceTheorems, TLAPS

-----------------------------------------------------------------------------
(* Counting *)

\* How many elements of a set of numbers are smaller.
Rank(S, m) == Cardinality({l \in S : l < m})

\* The smaller elements of a finite set are finitely many.
LEMMA SmallerFinite ==
    ASSUME NEW S, IsFiniteSet(S), NEW m
    PROVE  IsFiniteSet({l \in S : l < m})
  <1> DEFINE T == {l \in S : l < m}
  <1>1. T \in SUBSET S
    OBVIOUS
  <1> HIDE DEF T
  <1>2. IsFiniteSet(T)
    BY <1>1, FS_Subset
  <1> QED
    BY <1>2 DEF T

\* No more are smaller than there are.
LEMMA RankType ==
    ASSUME NEW S, IsFiniteSet(S), NEW m
    PROVE  Rank(S, m) \in 0..Cardinality(S)
  <1> DEFINE T == {l \in S : l < m}
  <1>1. T \in SUBSET S
    OBVIOUS
  <1> HIDE DEF T
  <1>2. IsFiniteSet(T) /\ Cardinality(T) <= Cardinality(S)
    BY <1>1, FS_Subset
  <1>3. Cardinality(T) \in Nat /\ Cardinality(S) \in Nat
    BY <1>2, FS_CardinalityType
  <1> QED
    BY <1>3, <1>2 DEF T, Rank

\* A larger element has a larger rank.
LEMMA RankGrows ==
    ASSUME NEW S \in SUBSET Int, IsFiniteSet(S), NEW m \in S, NEW n \in Int, m < n
    PROVE  Rank(S, m) < Rank(S, n)
  <1> DEFINE T == {l \in S : l < m}
             U == {l \in S : l < n}
  <1>1. IsFiniteSet(U) /\ IsFiniteSet(T)
    BY SmallerFinite, Zenon
  <1>2. T \in SUBSET U /\ T # U
    <2>1. \A l \in S : l < m => l < n
      OBVIOUS
    <2>2. m \in U /\ m \notin T
      OBVIOUS
    <2> QED
      BY <2>1, <2>2
  <1>3. Rank(S, m) = Cardinality(T) /\ Rank(S, n) = Cardinality(U)
    BY DEF Rank
  <1> HIDE DEF T, U
  <1>4. Cardinality(T) <= Cardinality(U) /\ Cardinality(T) # Cardinality(U)
    BY <1>1, <1>2, FS_Subset
  <1>5. Cardinality(T) \in Nat /\ Cardinality(U) \in Nat
    BY <1>1, FS_CardinalityType
  <1> QED
    BY <1>3, <1>4, <1>5

\* The next number has one smaller element more, if this is one.
LEMMA RankNext ==
    ASSUME NEW S \in SUBSET Int, IsFiniteSet(S), NEW m \in Int
    PROVE  Rank(S, m + 1) = IF m \in S THEN Rank(S, m) + 1 ELSE Rank(S, m)
  <1> DEFINE T == {l \in S : l < m}
             U == {l \in S : l < m + 1}
  <1>1. IsFiniteSet(T)
    BY SmallerFinite, Zenon
  <1>2. CASE m \in S
    <2>1. \A l \in S : l < m + 1 <=> l < m \/ l = m
      OBVIOUS
    <2>2. U = T \cup {m}
      BY <1>2, <2>1
    <2>a. m \notin T
      OBVIOUS
    <2> HIDE DEF T, U
    <2>3. Cardinality(U) = Cardinality(T) + 1
      BY <1>1, <2>2, <2>a, FS_AddElement
    <2> QED
      BY <1>2, <2>3 DEF T, U, Rank
  <1>3. CASE m \notin S
    <2>1. \A l \in S : l < m + 1 <=> l < m
      BY <1>3
    <2>2. U = T
      BY <2>1
    <2> QED
      BY <1>3, <2>2 DEF Rank
  <1> QED
    BY <1>2, <1>3

\* The element of a rank is the only one.
LEMMA NthOfRank ==
    ASSUME NEW S \in SUBSET Int, IsFiniteSet(S), NEW m \in S
    PROVE  Nth(S, Rank(S, m) + 1) = m
  <1> DEFINE r == Rank(S, m)
             n == Nth(S, r + 1)
  <1>1. r \in Int
    BY RankType
  <1>2. Nth(S, r + 1) = CHOOSE x \in S : Rank(S, x) = r
    BY <1>1 DEF Nth, Rank
  <1>3. n \in S /\ Rank(S, n) = r
    BY <1>2
  <1> HIDE DEF n, r
  <1>4. m \in Int /\ n \in Int /\ Rank(S, m) = r
    BY <1>3 DEF r
  <1>5. n < m => r < r
    BY <1>3, <1>4, RankGrows
  <1>6. m < n => r < r
    BY <1>3, <1>4, RankGrows
  <1> QED
    BY <1>1, <1>4, <1>5, <1>6 DEF n

\* There is an element of every rank.
LEMMA NthInSet ==
    ASSUME NEW S \in SUBSET Int, IsFiniteSet(S), NEW n \in 1..Cardinality(S)
    PROVE  Nth(S, n) \in S /\ Rank(S, Nth(S, n)) = n - 1
  <1> DEFINE total == Cardinality(S)
             T == 1..total
             f == [m \in S |-> Rank(S, m) + 1]
  <1>1. total \in Nat
    BY FS_CardinalityType
  <1>2. IsFiniteSet(T) /\ Cardinality(T) = total
    BY <1>1, FS_Interval
  <1>3. \A m \in S : Rank(S, m) + 1 \in T
    <2> TAKE m \in S
    <2> DEFINE U == {l \in S : l < m}
    <2>1. m \notin U /\ U \in SUBSET S
      OBVIOUS
    <2>2. Rank(S, m) \in 0..total /\ Rank(S, m) = Cardinality(U)
      BY RankType, Zenon DEF Rank
    <2> HIDE DEF U
    <2>3. Cardinality(U) # total
      BY <2>1, FS_Subset
    <2> QED
      BY <1>1, <2>2, <2>3
  <1>4. f \in [S -> T]
    BY <1>3
  <1>5. \A l, m \in S : f[l] = f[m] => l = m
    <2> SUFFICES ASSUME NEW l \in S, NEW m \in S, Rank(S, l) + 1 = Rank(S, m) + 1 PROVE l = m
      OBVIOUS
    <2>1. Rank(S, l) \in Int /\ Rank(S, m) \in Int
      BY RankType
    <2>2. ~ (l < m) /\ ~ (m < l)
      BY <2>1, RankGrows
    <2> QED
      BY <2>2
  <1>6. f \in Injection(S, T)
    BY <1>4, <1>5 DEF Injection, IsInjective
  <1>7. f \in Surjection(S, T)
    <2> HIDE DEF f, T
    <2> QED
      BY <1>2, <1>6, FS_Injection DEF total
  <1>8. PICK m \in S : f[m] = n
    BY <1>7 DEF Surjection
  <1>9. Rank(S, m) = n - 1 /\ n = Rank(S, m) + 1
    BY <1>8, RankType
  <1> QED
    BY <1>9, NthOfRank

-----------------------------------------------------------------------------
(* The entries among units *)

\* What a node stands for: a file or a directory.
Entry == {u \in Unit : u.kind \in {"file", "dir"}}

\* What the fields of a unit and of an entry can be.
LEMMA UnitFields ==
    /\ \A u \in Unit : u.kind \in {"file", "dir", "deleted", "long", "end"}
    /\ \A e \in Entry : /\ e \in Unit /\ e.kind \in {"file", "dir"}
                        /\ e.name \in Name /\ e.first \in Nat
                        /\ e.kind = "file" => e.size \in Nat
    /\ Zero \in Unit /\ Zero.kind = "end"
  <1>1. \A u \in Unit : u.kind \in {"file", "dir", "deleted", "long", "end"}
    BY DEF Unit
  <1>2. \A e \in Entry : /\ e \in Unit /\ e.kind \in {"file", "dir"}
                         /\ e.name \in Name /\ e.first \in Nat
                         /\ e.kind = "file" => e.size \in Nat
    BY DEF Unit, Entry
  <1>3. Zero \in Unit /\ Zero.kind = "end"
    <2>1. <<0, 0>> \in Seq(Nat)
      OBVIOUS
    <2> QED
      BY <2>1 DEF Zero, Unit
  <1> QED
    BY <1>1, <1>2, <1>3

\* The places of the entries are finitely many numbers.
LEMMA EntriesAtType ==
    ASSUME NEW units \in Seq(Unit)
    PROVE  /\ EntriesAt(units) \in SUBSET Int
           /\ EntriesAt(units) \in SUBSET (1..Len(units))
           /\ IsFiniteSet(EntriesAt(units))
           /\ Cardinality(EntriesAt(units)) \in Nat
  <1>1. DOMAIN units = 1..Len(units) /\ Len(units) \in Nat
    OBVIOUS
  <1>2. EntriesAt(units) \in SUBSET (1..Len(units))
    BY <1>1 DEF EntriesAt
  <1>3. IsFiniteSet(1..Len(units))
    BY <1>1, FS_Interval
  <1>4. IsFiniteSet(EntriesAt(units))
    BY <1>2, <1>3, FS_Subset
  <1>5. Cardinality(EntriesAt(units)) \in Nat
    BY <1>4, FS_CardinalityType
  <1> QED
    BY <1>1, <1>2, <1>4, <1>5

\* The entries are a sequence, in which each is where its rank says.
LEMMA EntriesOfType ==
    ASSUME NEW units \in Seq(Unit)
    PROVE  /\ EntriesOf(units) \in Seq(Entry)
           /\ Len(EntriesOf(units)) = Cardinality(EntriesAt(units))
           /\ \A u \in EntriesAt(units) :
                /\ Rank(EntriesAt(units), u) + 1 \in 1..Len(EntriesOf(units))
                /\ EntriesOf(units)[Rank(EntriesAt(units), u) + 1] = units[u]
  <1> DEFINE S == EntriesAt(units)
             total == Cardinality(S)
  <1>1. S \in SUBSET Int /\ S \in SUBSET (1..Len(units)) /\ IsFiniteSet(S) /\ total \in Nat
    BY EntriesAtType
  <1>2. \A u \in S : units[u] \in Entry
    <2> TAKE u \in S
    <2>1. u \in 1..Len(units) /\ units[u].kind \in {"file", "dir"}
      BY <1>1 DEF EntriesAt
    <2>2. units[u] \in Unit
      BY <2>1
    <2> QED
      BY <2>1, <2>2 DEF Entry
  <1> HIDE DEF S
  <1>3. \A n \in 1..total : units[Nth(S, n)] \in Entry
    BY <1>1, <1>2, NthInSet
  <1>4. EntriesOf(units) = [n \in 1..total |-> units[Nth(S, n)]]
    BY DEF EntriesOf, S
  <1>5. EntriesOf(units) \in Seq(Entry) /\ Len(EntriesOf(units)) = total
    BY <1>1, <1>3, <1>4
  <1>6. \A u \in S : Rank(S, u) + 1 \in 1..total /\ Nth(S, Rank(S, u) + 1) = u
    <2> TAKE u \in S
    <2>1. Nth(S, Rank(S, u) + 1) = u
      BY <1>1, NthOfRank
    <2>2. Rank(S, u) \in 0..total
      BY <1>1, RankType
    <2>3. Rank(S, u) # total
      <3> DEFINE T == {l \in S : l < u}
      <3>1. T \in SUBSET S /\ u \notin T
        BY <1>1
      <3>2. Rank(S, u) = Cardinality(T)
        BY DEF Rank
      <3> HIDE DEF T
      <3> QED
        BY <1>1, <3>1, <3>2, FS_Subset
    <2> QED
      BY <1>1, <2>1, <2>2, <2>3
  <1>7. \A u \in S : /\ Rank(S, u) + 1 \in 1..Len(EntriesOf(units))
                     /\ EntriesOf(units)[Rank(S, u) + 1] = units[u]
    BY <1>4, <1>5, <1>6
  <1> QED
    BY <1>5, <1>7 DEF S

\* Units that hold the same entries in the same places.
LEMMA SameEntries ==
    ASSUME NEW v, NEW w, EntriesAt(v) = EntriesAt(w),
           IsFiniteSet(EntriesAt(v)), EntriesAt(v) \in SUBSET Int,
           \A u \in EntriesAt(v) : v[u] = w[u]
    PROVE  EntriesOf(v) = EntriesOf(w)
  <1> DEFINE S == EntriesAt(v)
  <1> HIDE DEF S
  <1>1. \A n \in 1..Cardinality(S) : v[Nth(S, n)] = w[Nth(S, n)]
    BY NthInSet DEF S
  <1>2. EntriesOf(v) = [n \in 1..Cardinality(S) |-> v[Nth(S, n)]]
    BY DEF EntriesOf, S
  <1>3. EntriesOf(w) = [n \in 1..Cardinality(S) |-> w[Nth(S, n)]]
    BY DEF EntriesOf, S
  <1> QED
    BY <1>1, <1>2, <1>3

\* After the last unit of a directory come zeros, which end its entries.
LEMMA ZerosAreNoEntries ==
    ASSUME NEW v \in Seq(Unit), NEW w \in Seq(Unit), Len(v) <= Len(w),
           \A u \in 1..Len(v) : w[u] = v[u],
           \A u \in Len(v) + 1..Len(w) : w[u].kind = "end"
    PROVE  EntriesOf(v) = EntriesOf(w)
  <1>1. DOMAIN v = 1..Len(v) /\ DOMAIN w = 1..Len(w) /\ Len(v) \in Nat /\ Len(w) \in Nat
    OBVIOUS
  <1>2. \A u \in EntriesAt(w) : u \in 1..Len(v)
    BY <1>1 DEF EntriesAt
  <1>3. EntriesAt(v) = EntriesAt(w)
    <2>1. ASSUME NEW u \in 1..Len(v) PROVE u \in EntriesAt(v) <=> u \in EntriesAt(w)
      <3>1. \A l \in 1..u : l \in 1..Len(v) /\ v[l] = w[l]
        BY <1>1
      <3>2. u \in DOMAIN v /\ u \in DOMAIN w /\ v[u] = w[u]
        BY <1>1
      <3> QED
        BY <3>1, <3>2 DEF EntriesAt
    <2>2. \A u \in EntriesAt(v) : u \in 1..Len(v)
      BY <1>1 DEF EntriesAt
    <2> QED
      BY <1>2, <2>1, <2>2
  <1>4. IsFiniteSet(EntriesAt(v)) /\ EntriesAt(v) \in SUBSET Int /\ EntriesAt(v) \in SUBSET (1..Len(v))
    BY EntriesAtType
  <1> QED
    BY <1>3, <1>4, SameEntries

-----------------------------------------------------------------------------
(* Chains of clusters *)

\* What is known of a disk.
LEMMA DiskType ==
    ASSUME NEW d \in Disks
    PROVE  /\ NClusters(d) \in Nat /\ DataClusters(d) \in Nat
           /\ d.root \in Seq(Unit)
           /\ DOMAIN d.fat = Clusters(d)
           /\ \A n \in Clusters(d) : d.fat[n] \in Nat
           /\ DOMAIN d.contents = Clusters(d)
           /\ \A n \in Clusters(d) : d.contents[n] \in [1..ClusterSize -> Unit]
           /\ ClusterSize \in Nat \ {0}
  <1> DEFINE x == d.sectors - d.before
             y == d.sectors - d.before - d.rootSectors
             q == d.perCluster
  <1>1. /\ {d.sectors, d.before, d.rootSectors, y} \subseteq Nat
        /\ d.perCluster \in Nat \ {0}
        /\ d.fat \in [Clusters(d) -> Nat]
        /\ d.root \in Seq(Unit)
        /\ d.contents \in [Clusters(d) -> [1..ClusterSize -> Unit]]
    BY DiskAssumption
  <1>2. x \in Nat /\ y \in Nat /\ q \in Nat \ {0}
    BY <1>1
  <1>3. NClusters(d) = x \div q /\ DataClusters(d) = y \div q
    BY DEF NClusters, DataClusters
  <1> HIDE DEF x, y, q
  <1>4. \A z \in Nat : z \div q \in Nat
    BY <1>2
  <1>5. NClusters(d) \in Nat /\ DataClusters(d) \in Nat
    BY <1>2, <1>3, <1>4
  <1> QED
    BY <1>1, <1>5, Fat12Assumption

\* The next cluster is a number.
LEMMA NextType == ASSUME NEW d \in Disks, NEW n PROVE ClusterNext(d, n) \in Nat
  BY DiskType DEF ClusterNext

\* A chain obeys its definition.
LEMMA ChainFacts ==
    ASSUME NEW d \in Disks, NEW first \in Nat
    PROVE  /\ ClusterOf(d, first, 0) = first
           /\ \A n \in Nat : /\ ClusterOf(d, first, n) \in Nat
                             /\ ClusterOf(d, first, n + 1) = ClusterNext(d, ClusterOf(d, first, n))
  <1> DEFINE next == [n \in Nat |-> [v \in Nat |-> ClusterNext(d, v)]]
             step(f, n) == IF n = 0 THEN first ELSE ClusterNext(d, f[n - 1])
  <1>1. next \in [Nat -> [Nat -> Nat]]
    BY NextType
  <1> HIDE DEF next
  <1>2. PICK f : Iterates(f, Nat, first, next)
    BY <1>1, RecursiveFunction, Zenon
  <1>3. \A n \in Nat : f[n + 1] = ClusterNext(d, f[n])
    BY <1>2 DEF next, Iterates
  <1>4. f = [n \in Nat |-> step(f, n)]
    <2>1. \A n \in Nat : f[n] = step(f, n)
      <3> TAKE n \in Nat
      <3>1. CASE n = 0
        BY <1>2, <3>1 DEF Iterates
      <3>2. CASE n # 0
        <4>1. n - 1 \in Nat /\ n = (n - 1) + 1
          BY <3>2
        <4> QED
          BY <1>3, <3>2, <4>1
      <3> QED
        BY <3>1, <3>2
    <2> QED
      BY <1>2, <2>1 DEF Iterates
  <1> DEFINE w == CHOOSE g : g = [n \in Nat |-> step(g, n)]
  <1> HIDE DEF step
  <1>5. w = [n \in Nat |-> step(w, n)]
    BY <1>4
  <1>6. \A n : ClusterOf(d, first, n) = w[n]
    BY DEF ClusterOf, step
  <1> HIDE DEF w
  <1>7. \A n \in Nat : w[n] = step(w, n)
    BY <1>5
  <1>8. w[0] = first /\ \A n \in Nat : w[n + 1] = ClusterNext(d, w[n])
    BY <1>7 DEF step
  <1>9. \A n \in Nat : w[n] \in Nat
    <2> DEFINE T == {n \in Nat : w[n] \in Nat}
    <2>1. 0 \in T
      BY <1>8
    <2>2. \A n \in Nat : n \in T => n + 1 \in T
      BY <1>8, NextType
    <2> HIDE DEF T
    <2>3. Nat \subseteq T
      BY <2>1, <2>2, NatSetInduction
    <2> QED
      BY <2>3 DEF T
  <1> QED
    BY <1>6, <1>8, <1>9

\* The disk is one on which CountsAllClusters holds.
CountsAll(d) == NClusters(d) > DataClusters(d)

\* A chain that has ended goes nowhere.
LEMMA ChainIsOver ==
    ASSUME NEW d \in Disks, CountsAll(d), NEW first \in Nat, NEW n \in Nat,
           ~ClusterIsValid(d, ClusterOf(d, first, n))
    PROVE  \A m \in Nat : ~ClusterIsValid(d, ClusterOf(d, first, n + m))
  <1> DEFINE T == {m \in Nat : ~ClusterIsValid(d, ClusterOf(d, first, n + m))}
  <1>1. 0 \in T
    OBVIOUS
  <1>2. ASSUME NEW m \in Nat, m \in T PROVE m + 1 \in T
    <2> DEFINE x == ClusterOf(d, first, n + m)
    <2>1. x \in Nat /\ ClusterOf(d, first, n + (m + 1)) = ClusterNext(d, x)
      <3>1. n + m \in Nat /\ n + (m + 1) = (n + m) + 1
        OBVIOUS
      <3>2. \A l \in Nat : /\ ClusterOf(d, first, l) \in Nat
                           /\ ClusterOf(d, first, l + 1) = ClusterNext(d, ClusterOf(d, first, l))
        BY ChainFacts
      <3> QED
        BY <3>1, <3>2
    <2>2. ~ClusterIsValid(d, x)
      BY <1>2
    <2> HIDE DEF x
    <2>3. x \notin DOMAIN d.fat
      BY <2>1, <2>2, DiskType DEF ClusterIsValid, CountsAll, Clusters
    <2>4. ClusterNext(d, x) = 0
      BY <2>3 DEF ClusterNext
    <2> QED
      BY <2>1, <2>4 DEF ClusterIsValid
  <1> HIDE DEF T
  <1>3. Nat \subseteq T
    BY <1>1, <1>2, NatSetInduction
  <1> QED
    BY <1>3 DEF T

\* Two clusters of a chain that are one are followed by the same.
LEMMA ChainRepeats ==
    ASSUME NEW d \in Disks, NEW first \in Nat, NEW x \in Nat, NEW y \in Nat,
           ClusterOf(d, first, x) = ClusterOf(d, first, y)
    PROVE  \A m \in Nat : ClusterOf(d, first, x + m) = ClusterOf(d, first, y + m)
  <1> DEFINE T == {m \in Nat : ClusterOf(d, first, x + m) = ClusterOf(d, first, y + m)}
  <1>1. 0 \in T
    OBVIOUS
  <1>2. ASSUME NEW m \in Nat, m \in T PROVE m + 1 \in T
    <2>1. /\ x + m \in Nat /\ x + (m + 1) = (x + m) + 1
          /\ y + m \in Nat /\ y + (m + 1) = (y + m) + 1
      OBVIOUS
    <2>2. /\ ClusterOf(d, first, x + (m + 1)) = ClusterNext(d, ClusterOf(d, first, x + m))
          /\ ClusterOf(d, first, y + (m + 1)) = ClusterNext(d, ClusterOf(d, first, y + m))
      <3>1. \A l \in Nat : ClusterOf(d, first, l + 1) = ClusterNext(d, ClusterOf(d, first, l))
        BY ChainFacts
      <3> QED
        BY <2>1, <3>1
    <2> QED
      BY <1>2, <2>2
  <1> HIDE DEF T
  <1>3. Nat \subseteq T
    BY <1>1, <1>2, NatSetInduction
  <1> QED
    BY <1>3 DEF T

\* The chain is valid for so long.
Extends(d, first, n) == \A m \in 0..n - 1 : ClusterIsValid(d, ClusterOf(d, first, m))

\* A chain that ends has no more clusters than there are.
LEMMA ChainIsShort ==
    ASSUME NEW d \in Disks, NEW first \in Nat, NEW n \in Nat, Extends(d, first, n),
           ~ClusterIsValid(d, ClusterOf(d, first, n))
    PROVE  n <= NClusters(d)
  <1> SUFFICES ASSUME n > NClusters(d) PROVE FALSE
    BY DiskType
  <1> DEFINE S == 0..n - 1
             T == 2..NClusters(d)
             f == [m \in S |-> ClusterOf(d, first, m)]
  <1>1. IsFiniteSet(S) /\ Cardinality(S) = n
    <2>1. 0 \in Int /\ n - 1 \in Int
      OBVIOUS
    <2>2. IsFiniteSet(0..n - 1) /\ Cardinality(0..n - 1) = IF 0 > n - 1 THEN 0 ELSE n - 1 - 0 + 1
      BY <2>1, FS_Interval, Zenon
    <2> QED
      BY <2>2
  <1>2. IsFiniteSet(T) /\ Cardinality(T) < n
    <2>1. NClusters(d) \in Nat
      BY DiskType
    <2>2. IsFiniteSet(T) /\ Cardinality(T) = IF 2 > NClusters(d) THEN 0 ELSE NClusters(d) - 2 + 1
      <3>1. 2 \in Int /\ NClusters(d) \in Int
        BY <2>1
      <3> QED
        BY <3>1, FS_Interval, Zenon
    <2> QED
      BY <2>1, <2>2
  <1>3. f \in [S -> T]
    <2>1. ASSUME NEW m \in S PROVE ClusterOf(d, first, m) \in T
      <3>1. m \in Nat
        OBVIOUS
      <3>2. ClusterOf(d, first, m) \in Nat
        BY <3>1, ChainFacts
      <3>3. ClusterIsValid(d, ClusterOf(d, first, m))
        BY DEF Extends
      <3>4. NClusters(d) \in Nat
        BY DiskType
      <3> QED
        BY <3>2, <3>3, <3>4 DEF ClusterIsValid
    <2> QED
      BY <2>1
  <1>4. \E x, y \in S : x # y /\ f[x] = f[y]
    <2> HIDE DEF S, T, f
    <2> QED
      BY <1>1, <1>2, <1>3, FS_PigeonHole
  <1>5. ASSUME NEW x \in S, NEW y \in S, x < y, f[x] = f[y] PROVE FALSE
    <2>1. x \in Nat /\ y \in Nat /\ n - y \in Nat
      OBVIOUS
    <2>2. ClusterOf(d, first, x) = ClusterOf(d, first, y)
      BY <1>5
    <2>3. ClusterOf(d, first, x + (n - y)) = ClusterOf(d, first, y + (n - y))
      <3> DEFINE m == n - y
      <3>1. m \in Nat
        BY <2>1
      <3> HIDE DEF m
      <3>2. ClusterOf(d, first, x + m) = ClusterOf(d, first, y + m)
        BY <2>1, <2>2, <3>1, ChainRepeats
      <3> QED
        BY <3>2 DEF m
    <2>4. y + (n - y) = n /\ x + (n - y) \in 0..n - 1
      BY <1>5, <2>1
    <2> QED
      BY <2>3, <2>4 DEF Extends
  <1>6. \A x, y \in S : x # y => x < y \/ y < x
    OBVIOUS
  <1> QED
    BY <1>4, <1>5, <1>6

-----------------------------------------------------------------------------
(* The units of a chain *)

\* Where a unit is in the chain.
LEMMA UnitPlace ==
    ASSUME NEW n \in Nat, NEW u \in 0..ClusterSize - 1
    PROVE  /\ (n * ClusterSize + u) \div ClusterSize = n
           /\ (n * ClusterSize + u) % ClusterSize = u
  <1> DEFINE z == ClusterSize
             x == n * z + u
             q == x \div z
             r == x % z
  <1>1. z \in Nat \ {0}
    BY Fat12Assumption
  <1>2. n * z \in Nat
    BY <1>1
  <1>3. u \in Nat /\ u < z
    BY <1>1
  <1>4. x \in Nat
    BY <1>2, <1>3
  <1> HIDE DEF z
  <1>5. x = z * q + r /\ r \in Nat /\ r < z /\ q \in Int
    <2> HIDE DEF x
    <2> QED
      BY <1>1, <1>4
  <1> HIDE DEF q, r
  <1>6. ~ (q > n)
    <2> SUFFICES ASSUME q >= n + 1 PROVE FALSE
      BY <1>5
    <2>1. z * q >= z * (n + 1)
      BY <1>1, <1>5
    <2>2. z * (n + 1) = n * z + z
      BY <1>1
    <2> QED
      BY <1>1, <1>2, <1>3, <1>5, <2>1, <2>2
  <1>7. ~ (q < n)
    <2> SUFFICES ASSUME q <= n - 1 PROVE FALSE
      BY <1>5
    <2>1. z * q <= z * (n - 1)
      BY <1>1, <1>5
    <2>2. z * (n - 1) = n * z - z
      BY <1>1
    <2> QED
      BY <1>1, <1>2, <1>3, <1>5, <2>1, <2>2
  <1>8. q = n
    BY <1>5, <1>6, <1>7
  <1>9. z * n = n * z
    BY <1>1
  <1>10. r = u
    BY <1>2, <1>3, <1>5, <1>8, <1>9
  <1> QED
    BY <1>8, <1>10 DEF q, r, z

\* The units of the n-th cluster are n clusters behind the first.
LEMMA UnitInCluster ==
    ASSUME NEW d \in Disks, NEW first \in Nat, NEW n \in Nat, NEW u \in 1..ClusterSize
    PROVE  UnitOf(d, first, n * ClusterSize + u - 1) = Units(d, ClusterOf(d, first, n))[u]
  <1> DEFINE x == n * ClusterSize + u - 1
  <1>1. x \div ClusterSize = n /\ x % ClusterSize = u - 1
    <2>1. u - 1 \in 0..ClusterSize - 1 /\ n * ClusterSize \in Nat
      BY Fat12Assumption
    <2>2. x = n * ClusterSize + (u - 1)
      BY <2>1, Fat12Assumption
    <2> HIDE DEF x
    <2> QED
      BY <2>1, <2>2, UnitPlace
  <1> HIDE DEF x
  <1>2. (x % ClusterSize) + 1 = u
    BY <1>1, Fat12Assumption
  <1>3. DOMAIN d.contents = Clusters(d)
    BY DiskType
  <1> QED
    BY <1>1, <1>2, <1>3 DEF UnitOf, Units, x

\* The clusters hold units.
LEMMA UnitsType ==
    ASSUME NEW d \in Disks
    PROVE  /\ \A n : Units(d, n) \in [1..ClusterSize -> Unit]
           /\ \A first \in Nat, u \in Nat : UnitOf(d, first, u) \in Unit
  <1>1. \A n : Units(d, n) \in [1..ClusterSize -> Unit]
    BY DiskType, UnitFields DEF Units
  <1>2. ASSUME NEW first \in Nat, NEW u \in Nat PROVE UnitOf(d, first, u) \in Unit
    <2>1. (u % ClusterSize) + 1 \in 1..ClusterSize
      BY Fat12Assumption
    <2> QED
      BY <2>1, DiskType, UnitFields DEF UnitOf
  <1> QED
    BY <1>1, <1>2

\* Behind the chain there is nothing.
LEMMA UnitPastChain ==
    ASSUME NEW d \in Disks, CountsAll(d), NEW first \in Nat, NEW n \in Nat,
           ~ClusterIsValid(d, ClusterOf(d, first, n)),
           NEW u \in Nat, u >= n * ClusterSize
    PROVE  UnitOf(d, first, u) = Zero
  <1> DEFINE q == u \div ClusterSize
  <1>1. q \in Nat /\ q >= n
    <2> DEFINE z == ClusterSize
    <2>1. z \in Nat \ {0}
      BY Fat12Assumption
    <2>2. n * z <= u /\ n * z \in Nat
      BY <2>1
    <2> HIDE DEF z
    <2>3. u = z * (u \div z) + (u % z) /\ u % z < z /\ u % z \in Nat /\ u \div z \in Nat
      BY <2>1
    <2>4. ~ (u \div z < n)
      <3> DEFINE v == u \div z
                 r == u % z
      <3>0. v \in Nat /\ u = z * v + r /\ r < z /\ r \in Nat
        BY <2>3
      <3> HIDE DEF v, r
      <3> SUFFICES ASSUME v <= n - 1 PROVE FALSE
        BY <3>0 DEF v
      <3>1. v \in Nat /\ u = z * v + r
        BY <3>0
      <3>2. z * v <= z * (n - 1)
        BY <2>1, <3>1
      <3>3. z * (n - 1) = n * z - z
        BY <2>1
      <3> QED
        BY <2>1, <2>2, <3>0, <3>2, <3>3
    <2> QED
      BY <2>3, <2>4 DEF z
  <1> HIDE DEF q
  <1>2. q - n \in Nat /\ n + (q - n) = q
    BY <1>1
  <1>3. ~ClusterIsValid(d, ClusterOf(d, first, q))
    BY <1>2, ChainIsOver
  <1>4. ClusterOf(d, first, q) \in Nat
    BY <1>1, ChainFacts
  <1>5. ClusterOf(d, first, q) \notin Clusters(d)
    BY <1>3, <1>4, DiskType DEF ClusterIsValid, CountsAll, Clusters
  <1> QED
    BY <1>5 DEF UnitOf, q

-----------------------------------------------------------------------------
(* Sequences of nodes and of calls, whose elements are in no set that could *)
(* be named.                                                               *)

\* A sequence, whatever its elements are.
IsSeq(q) == \E S : q \in Seq(S)

\* A sequence of values in a set is a sequence.
LEMMA SeqIsSeq == ASSUME NEW S, NEW q \in Seq(S) PROVE IsSeq(q)
  BY DEF IsSeq

\* The numbers of its elements.
LEMMA IsSeqFacts ==
    ASSUME NEW q, IsSeq(q)
    PROVE  Len(q) \in Nat /\ DOMAIN q = 1..Len(q) /\ (q = << >> <=> Len(q) = 0)
  <1>1. PICK S : q \in Seq(S)
    BY DEF IsSeq
  <1> QED
    BY <1>1

\* The empty sequence.
LEMMA EmptyIsSeq == IsSeq(<< >>) /\ Len(<< >>) = 0 /\ DOMAIN << >> = {}
  <1>1. << >> \in Seq({})
    OBVIOUS
  <1> QED
    BY <1>1 DEF IsSeq

\* One element more.
LEMMA AppendIsSeq ==
    ASSUME NEW q, IsSeq(q), NEW x
    PROVE  /\ IsSeq(Append(q, x))
           /\ Len(Append(q, x)) = Len(q) + 1
           /\ \A m \in 1..Len(q) : Append(q, x)[m] = q[m]
           /\ Append(q, x)[Len(q) + 1] = x
  <1>1. PICK S : q \in Seq(S)
    BY DEF IsSeq
  <1> DEFINE T == S \cup {x}
  <1>2. q \in Seq(T) /\ x \in T
    <2>1. S \subseteq T
      OBVIOUS
    <2> HIDE DEF T
    <2>2. q \in Seq(T)
      BY <1>1, <2>1, SeqMonotonic
    <2> QED
      BY <2>2 DEF T
  <1> HIDE DEF T
  <1>3. Append(q, x) \in Seq(T)
    BY <1>2
  <1> QED
    BY <1>2, <1>3 DEF IsSeq

\* One element less.
LEMMA FrontIsSeq ==
    ASSUME NEW q, IsSeq(q), q # << >>
    PROVE  /\ IsSeq(Front(q))
           /\ Len(Front(q)) = Len(q) - 1
           /\ \A m \in 1..Len(q) - 1 : Front(q)[m] = q[m]
  <1>1. PICK S : q \in Seq(S)
    BY DEF IsSeq
  <1>2. Len(q) \in Nat \ {0}
    BY <1>1
  <1>3. Front(q) = SubSeq(q, 1, Len(q) - 1)
    BY DEF Front
  <1>4. Front(q) \in Seq(S)
    BY <1>1, <1>2, <1>3
  <1>5. Len(Front(q)) = Len(q) - 1
    <2>1. 1 \in Int /\ Len(q) - 1 \in Int /\ \A m \in 1..Len(q) - 1 : q[m] \in S
      BY <1>1, <1>2
    <2>2. Len(SubSeq(q, 1, Len(q) - 1)) =
            IF 1 <= Len(q) - 1 THEN (Len(q) - 1) - 1 + 1 ELSE 0
      BY <2>1, SubSeqProperties
    <2>3. (IF 1 <= Len(q) - 1 THEN (Len(q) - 1) - 1 + 1 ELSE 0) = Len(q) - 1
      BY <1>2
    <2> QED
      BY <1>3, <2>2, <2>3, Zenon
  <1>6. \A m \in 1..Len(q) - 1 : Front(q)[m] = q[m]
    BY <1>1, <1>2, <1>3
  <1> QED
    BY <1>4, <1>5, <1>6 DEF IsSeq

\* Another element.
LEMMA ExceptIsSeq ==
    ASSUME NEW q, IsSeq(q), NEW n \in 1..Len(q), NEW x
    PROVE  /\ IsSeq([q EXCEPT ![n] = x])
           /\ Len([q EXCEPT ![n] = x]) = Len(q)
           /\ \A m \in 1..Len(q) : [q EXCEPT ![n] = x][m] = IF m = n THEN x ELSE q[m]
  <1>1. PICK S : q \in Seq(S)
    BY DEF IsSeq
  <1> DEFINE T == S \cup {x}
  <1>2. q \in Seq(T) /\ x \in T
    <2>1. S \subseteq T
      OBVIOUS
    <2> HIDE DEF T
    <2>2. q \in Seq(T)
      BY <1>1, <2>1, SeqMonotonic
    <2> QED
      BY <2>2 DEF T
  <1> HIDE DEF T
  <1>3. /\ [q EXCEPT ![n] = x] \in Seq(T)
        /\ Len([q EXCEPT ![n] = x]) = Len(q)
        /\ \A m \in 1..Len(q) : [q EXCEPT ![n] = x][m] = IF m = n THEN x ELSE q[m]
    BY <1>2, ExceptSeq
  <1> QED
    BY <1>3 DEF IsSeq

\* The same with a name, which the provers leave as it is.
With(q, n, x) == [q EXCEPT ![n] = x]

\* Changing one element changes no other.
LEMMA WithIsSeq ==
    ASSUME NEW q, IsSeq(q), NEW n \in 1..Len(q), NEW x
    PROVE  /\ IsSeq(With(q, n, x))
           /\ Len(With(q, n, x)) = Len(q)
           /\ \A m \in 1..Len(q) : With(q, n, x)[m] = IF m = n THEN x ELSE q[m]
  <1>1. PICK S : q \in Seq(S)
    BY DEF IsSeq
  <1> DEFINE T == S \cup {x}
  <1>2. q \in Seq(T) /\ x \in T
    <2>1. S \subseteq T
      OBVIOUS
    <2> HIDE DEF T
    <2>2. q \in Seq(T)
      BY <1>1, <2>1, SeqMonotonic
    <2> QED
      BY <2>2 DEF T
  <1> HIDE DEF T
  <1>3. /\ [q EXCEPT ![n] = x] \in Seq(T)
        /\ Len([q EXCEPT ![n] = x]) = Len(q)
        /\ \A m \in 1..Len(q) : [q EXCEPT ![n] = x][m] = IF m = n THEN x ELSE q[m]
    BY <1>2, ExceptSeq
  <1> QED
    BY <1>3 DEF IsSeq, With

-----------------------------------------------------------------------------
(* A finished node mirrors its entry: it says what the entry says, and so  *)
(* do the nodes below it of the entries of its chain.                      *)

\* The entries of a node that are directories of their own.
DirsIn(n) == {m \in DOMAIN n.entries : IsDirectory(n.entries[m])}

\* A node says what its entry and the chain say, whatever is below it.
Says(d, n, e) ==
    /\ n.type = e.kind /\ n.name = e.name
    /\ e.kind = "file" =>
         n.size = e.size /\ n.data = [u \in 1..e.size |-> UnitOf(d, e.first, u - 1)]
    /\ IsSeq(n.entries)
    /\ Len(n.entries) = IF e.kind = "dir" /\ e.name \notin Dots
                        THEN Len(DirEntries(d, e.first)) ELSE 0
    /\ n.ndirs \in Nat /\ n.nfiles \in Nat
    /\ n.ndirs + n.nfiles = Len(n.entries)
    /\ n.ndirs = Cardinality(DirsIn(n))

\* A relation of nodes with entries in which the nodes below are related, too.
Mirroring(d, R) ==
    \A n, e : <<n, e>> \in R =>
        /\ Says(d, n, e)
        /\ \A m \in DOMAIN n.entries : <<n.entries[m], DirEntries(d, e.first)[m]>> \in R

\* The largest of these relations.
Mirrors(d, n, e) == \E R : <<n, e>> \in R /\ Mirroring(d, R)

\* The nodes below a node mirror the entries below the entry.
LEMMA MirrorsBelow ==
    ASSUME NEW d, NEW n, NEW e, Mirrors(d, n, e)
    PROVE  /\ Says(d, n, e)
           /\ \A m \in DOMAIN n.entries : Mirrors(d, n.entries[m], DirEntries(d, e.first)[m])
  <1>1. PICK R : <<n, e>> \in R /\ Mirroring(d, R)
    BY DEF Mirrors
  <1>2. /\ Says(d, n, e)
        /\ \A m \in DOMAIN n.entries : <<n.entries[m], DirEntries(d, e.first)[m]>> \in R
    BY <1>1 DEF Mirroring
  <1> QED
    BY <1>1, <1>2 DEF Mirrors

\* A node mirrors an entry if the nodes below it do.
LEMMA MirrorsAbove ==
    ASSUME NEW d, NEW n, NEW e, Says(d, n, e),
           \A m \in DOMAIN n.entries : Mirrors(d, n.entries[m], DirEntries(d, e.first)[m])
    PROVE  Mirrors(d, n, e)
  <1> DEFINE Good(R, m) == /\ <<n.entries[m], DirEntries(d, e.first)[m]>> \in R
                           /\ Mirroring(d, R)
             Of(m) == CHOOSE R : Good(R, m)
             All == {<<n, e>>} \cup UNION {Of(m) : m \in DOMAIN n.entries}
  <1>1. ASSUME NEW m \in DOMAIN n.entries PROVE Good(Of(m), m)
    <2>1. \E R : Good(R, m)
      BY DEF Mirrors
    <2> HIDE DEF Good
    <2> QED
      BY <2>1
  <1> HIDE DEF Of
  <1>2. Mirroring(d, All)
    <2> SUFFICES ASSUME NEW x, NEW y, <<x, y>> \in All
                 PROVE  /\ Says(d, x, y)
                        /\ \A m \in DOMAIN x.entries :
                             <<x.entries[m], DirEntries(d, y.first)[m]>> \in All
      BY DEF Mirroring
    <2>1. CASE <<x, y>> = <<n, e>>
      <3>1. x = n /\ y = e
        BY <2>1
      <3>2. \A m \in DOMAIN n.entries : <<n.entries[m], DirEntries(d, e.first)[m]>> \in Of(m)
        BY <1>1
      <3>3. \A m \in DOMAIN n.entries : <<n.entries[m], DirEntries(d, e.first)[m]>> \in All
        BY <3>2
      <3> QED
        BY <3>1, <3>3
    <2>2. CASE <<x, y>> # <<n, e>>
      <3>1. PICK m \in DOMAIN n.entries : <<x, y>> \in Of(m)
        BY <2>2
      <3>2. Mirroring(d, Of(m))
        BY <1>1
      <3>3. /\ Says(d, x, y)
            /\ \A l \in DOMAIN x.entries :
                 <<x.entries[l], DirEntries(d, y.first)[l]>> \in Of(m)
        BY <3>1, <3>2 DEF Mirroring
      <3> QED
        BY <3>3
    <2> QED
      BY <2>1, <2>2
  <1>3. <<n, e>> \in All
    OBVIOUS
  <1> HIDE DEF All
  <1> QED
    BY <1>2, <1>3 DEF Mirrors

-----------------------------------------------------------------------------
(* A call of read_dir_recursive *)

\* The fields of a node and of a call.
IsNode(n) == DOMAIN n = {"type", "name", "size", "data", "ndirs", "nfiles", "entries"}

IsFrame(f) == DOMAIN f = {"node", "first", "ents", "i"} /\ IsNode(f.node)

\* The call f has read a part of the directory that the entry e stands for.
\* It is at an entry more than it has finished if reading is 1, and has
\* counted it as a directory if below is 1.
HasRead(d, f, e, reading, below) ==
    /\ IsFrame(f)
    /\ e \in Entry \cup {RootEntry}
    /\ e.kind = "dir" /\ e.name \notin Dots
    /\ f.first = e.first /\ f.node.type = "dir" /\ f.node.name = e.name
    /\ f.ents \in Seq(Unit)
    /\ EntriesOf(f.ents) = DirEntries(d, e.first)
    /\ f.i \in 1..Len(f.ents) + 1
    /\ \A u \in 1..f.i - 1 : f.ents[u].kind # "end"
    /\ IsSeq(f.node.entries)
    /\ Rank(EntriesAt(f.ents), f.i) = Len(f.node.entries) + reading
    /\ \A m \in DOMAIN f.node.entries :
         Mirrors(d, f.node.entries[m], DirEntries(d, e.first)[m])
    /\ f.node.ndirs \in Nat /\ f.node.nfiles \in Nat
    /\ f.node.ndirs + f.node.nfiles = Len(f.node.entries) + below
    /\ IsFiniteSet(DirsIn(f.node))
    /\ f.node.ndirs = Cardinality(DirsIn(f.node)) + below

\* The entry that is read or below which the next call reads.
NextEntry(d, f) == DirEntries(d, f.first)[Len(f.node.entries) + 1]

\* A call begins.
LEMMA ReadBegins ==
    ASSUME NEW d, NEW e \in Entry \cup {RootEntry}, e.kind = "dir", e.name \notin Dots,
           NEW n, IsNode(n), n.type = "dir", n.name = e.name, n.entries = << >>,
           n.ndirs = 0, n.nfiles = 0,
           NEW ents \in Seq(Unit), EntriesOf(ents) = DirEntries(d, e.first)
    PROVE  HasRead(d, Frame(n, e.first, ents), e, 0, 0)
  <1> DEFINE f == Frame(n, e.first, ents)
  <1>1. /\ IsFrame(f) /\ f.node = n /\ f.first = e.first /\ f.ents = ents /\ f.i = 1
    BY DEF Frame, IsFrame
  <1> HIDE DEF f
  <1>2. IsSeq(n.entries) /\ Len(n.entries) = 0 /\ DOMAIN n.entries = {}
    BY EmptyIsSeq
  <1>3. DirsIn(n) = {}
    BY <1>2 DEF DirsIn
  <1>4. IsFiniteSet({}) /\ Cardinality({}) = 0
    BY FS_EmptySet
  <1>5. Rank(EntriesAt(ents), 1) = 0
    <2>1. EntriesAt(ents) \in SUBSET (1..Len(ents)) /\ Len(ents) \in Nat
      BY EntriesAtType
    <2>2. {l \in EntriesAt(ents) : l < 1} = {}
      BY <2>1
    <2> QED
      BY <1>4, <2>2 DEF Rank
  <1>6. Len(ents) \in Nat /\ 1 \in 1..Len(ents) + 1
    OBVIOUS
  <1>7. /\ Rank(EntriesAt(f.ents), f.i) = Len(f.node.entries) + 0
        /\ f.node.ndirs \in Nat /\ f.node.nfiles \in Nat
        /\ f.node.ndirs + f.node.nfiles = Len(f.node.entries) + 0
        /\ IsFiniteSet(DirsIn(f.node))
        /\ f.node.ndirs = Cardinality(DirsIn(f.node)) + 0
    <2>1. Rank(EntriesAt(f.ents), f.i) = 0 /\ Len(f.node.entries) = 0
      BY <1>1, <1>2, <1>5
    <2>2. f.node.ndirs = 0 /\ f.node.nfiles = 0
      BY <1>1
    <2>3. IsFiniteSet(DirsIn(f.node)) /\ Cardinality(DirsIn(f.node)) = 0
      BY <1>1, <1>3, <1>4
    <2> QED
      BY <2>1, <2>2, <2>3
  <1>8. /\ \A u \in 1..f.i - 1 : f.ents[u].kind # "end"
        /\ \A m \in DOMAIN f.node.entries :
             Mirrors(d, f.node.entries[m], DirEntries(d, e.first)[m])
    BY <1>1, <1>2
  <1>9. HasRead(d, f, e, 0, 0)
    BY <1>1, <1>2, <1>6, <1>7, <1>8 DEF HasRead
  <1> QED
    BY <1>9 DEF f

\* A unit that is no entry is passed over.
LEMMA ReadSkips ==
    ASSUME NEW d, NEW f, NEW e, HasRead(d, f, e, 0, 0),
           f.i \in DOMAIN f.ents, f.ents[f.i].kind \in {"deleted", "long"}
    PROVE  HasRead(d, [f EXCEPT !.i = @ + 1], e, 0, 0)
  <1> DEFINE g == [f EXCEPT !.i = @ + 1]
  <1>1. /\ IsFrame(g) /\ g.node = f.node /\ g.first = f.first /\ g.ents = f.ents
        /\ g.i = f.i + 1
    BY DEF HasRead, IsFrame
  <1> HIDE DEF g
  <1>2. f.ents \in Seq(Unit) /\ f.i \in 1..Len(f.ents)
    BY DEF HasRead
  <1>3. f.i \notin EntriesAt(f.ents)
    BY DEF EntriesAt
  <1>4. Rank(EntriesAt(f.ents), f.i + 1) = Rank(EntriesAt(f.ents), f.i)
    <2> DEFINE S == EntriesAt(f.ents)
    <2>1. S \in SUBSET Int /\ IsFiniteSet(S) /\ f.i \in Int
      BY <1>2, EntriesAtType
    <2> HIDE DEF S
    <2>2. f.i \notin S
      BY <1>3 DEF S
    <2>3. Rank(S, f.i + 1) = Rank(S, f.i)
      BY <2>1, <2>2, RankNext
    <2> QED
      BY <2>3 DEF S
  <1>5. \A u \in 1..f.i : f.ents[u].kind # "end"
    <2>1. \A u \in 1..f.i - 1 : f.ents[u].kind # "end"
      BY DEF HasRead
    <2>2. f.ents[f.i].kind # "end"
      OBVIOUS
    <2>3. \A u \in 1..f.i : u = f.i \/ u \in 1..f.i - 1
      BY <1>2
    <2> QED
      BY <2>1, <2>2, <2>3
  <1>6. f.i + 1 \in 1..Len(f.ents) + 1 /\ g.i - 1 = f.i
    BY <1>1, <1>2
  <1>7. HasRead(d, g, e, 0, 0)
    BY <1>1, <1>4, <1>5, <1>6 DEF HasRead
  <1> QED
    BY <1>7 DEF g

\* An entry is read: it is the next of the directory.
LEMMA ReadEnters ==
    ASSUME NEW d, NEW f, NEW e, HasRead(d, f, e, 0, 0),
           f.i \in DOMAIN f.ents, f.ents[f.i].kind \in {"file", "dir"}
    PROVE  /\ HasRead(d, [f EXCEPT !.i = @ + 1], e, 1, 0)
           /\ f.ents[f.i] \in Entry
           /\ f.ents[f.i] = NextEntry(d, [f EXCEPT !.i = @ + 1])
  <1> DEFINE g == [f EXCEPT !.i = @ + 1]
             S == EntriesAt(f.ents)
  <1>1. /\ IsFrame(g) /\ g.node = f.node /\ g.first = f.first /\ g.ents = f.ents
        /\ g.i = f.i + 1
    BY DEF HasRead, IsFrame
  <1> HIDE DEF g
  <1>2. f.ents \in Seq(Unit) /\ f.i \in 1..Len(f.ents) /\ f.first = e.first
    BY DEF HasRead
  <1>3. \A u \in 1..f.i : f.ents[u].kind # "end"
    BY <1>2 DEF HasRead
  <1>4. f.i \in S
    BY <1>3 DEF EntriesAt
  <1>5. S \in SUBSET Int /\ IsFiniteSet(S)
    BY <1>2, EntriesAtType
  <1>6. /\ Rank(S, f.i) + 1 \in 1..Len(EntriesOf(f.ents))
        /\ EntriesOf(f.ents)[Rank(S, f.i) + 1] = f.ents[f.i]
    BY <1>2, <1>4, EntriesOfType
  <1> HIDE DEF S
  <1>7. Rank(S, f.i + 1) = Rank(S, f.i) + 1
    BY <1>2, <1>4, <1>5, RankNext
  <1>8. Rank(S, f.i) = Len(f.node.entries) /\ Len(f.node.entries) \in Nat
    BY IsSeqFacts DEF HasRead, S
  <1>9. f.i + 1 \in 1..Len(f.ents) + 1 /\ g.i - 1 = f.i
    BY <1>1, <1>2
  <1>10. HasRead(d, g, e, 1, 0)
    BY <1>1, <1>3, <1>7, <1>8, <1>9 DEF HasRead, S
  <1>11. f.ents[f.i] \in Entry
    BY <1>2 DEF Entry
  <1>12. f.ents[f.i] = NextEntry(d, g)
    BY <1>1, <1>2, <1>6, <1>8 DEF NextEntry, HasRead
  <1> QED
    BY <1>10, <1>11, <1>12 DEF g

\* A node is appended.
LEMMA DirsOfAppend ==
    ASSUME NEW n, NEW q, IsSeq(n.entries), IsFiniteSet(DirsIn(n)), NEW x,
           q.entries = Append(n.entries, x)
    PROVE  /\ IsFiniteSet(DirsIn(q))
           /\ Cardinality(DirsIn(q)) = IF IsDirectory(x) THEN Cardinality(DirsIn(n)) + 1
                                       ELSE Cardinality(DirsIn(n))
  <1> DEFINE len == Len(n.entries)
  <1>1. len \in Nat /\ DOMAIN n.entries = 1..len
    BY IsSeqFacts
  <1>2. /\ DOMAIN q.entries = 1..len + 1
        /\ \A m \in 1..len : q.entries[m] = n.entries[m]
        /\ q.entries[len + 1] = x
    BY AppendIsSeq, IsSeqFacts
  <1> HIDE DEF len
  <1>3. len + 1 \notin DirsIn(n)
    BY <1>1 DEF DirsIn
  <1>4. CASE IsDirectory(x)
    <2>1. DirsIn(q) = DirsIn(n) \cup {len + 1}
      BY <1>1, <1>2, <1>4 DEF DirsIn
    <2> QED
      BY <1>3, <1>4, <2>1, FS_AddElement
  <1>5. CASE ~IsDirectory(x)
    <2>1. DirsIn(q) = DirsIn(n)
      BY <1>1, <1>2, <1>5 DEF DirsIn
    <2> QED
      BY <1>5, <2>1
  <1> QED
    BY <1>4, <1>5

\* An entry is finished: its node is appended and counted, unless it was
\* counted when it was begun.
LEMMA ReadReturns ==
    ASSUME NEW d, NEW f, NEW e, NEW below \in {0, 1}, HasRead(d, f, e, 1, below),
           NEW x, Mirrors(d, x, NextEntry(d, f)), IsDirectory(x) <=> below = 1,
           NEW g, IsFrame(g), g.first = f.first, g.ents = f.ents, g.i = f.i,
           g.node.type = f.node.type, g.node.name = f.node.name,
           g.node.ndirs = f.node.ndirs, g.node.nfiles = f.node.nfiles + 1 - below,
           g.node.entries = Append(f.node.entries, x)
    PROVE  HasRead(d, g, e, 0, 0)
  <1> DEFINE q == f.node.entries
             len == Len(q)
  <1>1. IsSeq(q) /\ len \in Nat /\ DOMAIN q = 1..len
    BY IsSeqFacts DEF HasRead
  <1>2. /\ IsSeq(Append(q, x)) /\ Len(Append(q, x)) = len + 1
        /\ \A m \in 1..len : Append(q, x)[m] = q[m]
        /\ Append(q, x)[len + 1] = x
    BY <1>1, AppendIsSeq
  <1>3. DOMAIN Append(q, x) = 1..len + 1
    BY <1>2, IsSeqFacts
  <1>4. /\ \A m \in 1..len : Mirrors(d, q[m], DirEntries(d, e.first)[m])
        /\ NextEntry(d, f) = DirEntries(d, e.first)[len + 1]
    BY <1>1 DEF HasRead, NextEntry
  <1>5. g.node.entries = Append(q, x)
    OBVIOUS
  <1> HIDE DEF q, len
  <1>6. \A m \in DOMAIN g.node.entries :
          Mirrors(d, g.node.entries[m], DirEntries(d, e.first)[m])
    <2> SUFFICES ASSUME NEW m \in 1..len + 1
                 PROVE  Mirrors(d, Append(q, x)[m], DirEntries(d, e.first)[m])
      BY <1>3, <1>5
    <2>1. CASE m = len + 1
      BY <1>2, <1>4, <2>1
    <2>2. CASE m # len + 1
      <3>1. m \in 1..len
        BY <1>1, <2>2
      <3> QED
        BY <1>2, <1>4, <3>1
    <2> QED
      BY <2>1, <2>2
  <1>7. /\ IsFiniteSet(DirsIn(g.node))
        /\ Cardinality(DirsIn(g.node)) = IF below = 1 THEN Cardinality(DirsIn(f.node)) + 1
                                         ELSE Cardinality(DirsIn(f.node))
    <2>1. IsSeq(f.node.entries) /\ IsFiniteSet(DirsIn(f.node))
      BY DEF HasRead
    <2> QED
      BY <2>1, DirsOfAppend, SMTT(30)
  <1>8. Cardinality(DirsIn(f.node)) \in Nat
    BY FS_CardinalityType DEF HasRead
  <1>9. /\ f.node.ndirs \in Nat /\ f.node.nfiles \in Nat
        /\ f.node.ndirs + f.node.nfiles = len + below
        /\ f.node.ndirs = Cardinality(DirsIn(f.node)) + below
        /\ Rank(EntriesAt(f.ents), f.i) = len + 1
    BY DEF HasRead, q, len
  <1>10. /\ g.node.ndirs \in Nat /\ g.node.nfiles \in Nat
         /\ g.node.ndirs + g.node.nfiles = Len(g.node.entries) + 0
         /\ g.node.ndirs = Cardinality(DirsIn(g.node)) + 0
         /\ Rank(EntriesAt(g.ents), g.i) = Len(g.node.entries) + 0
    <2>1. /\ g.node.ndirs = f.node.ndirs /\ g.node.nfiles = f.node.nfiles + 1 - below
          /\ Len(g.node.entries) = len + 1
      BY <1>2, <1>5
    <2>2. Rank(EntriesAt(g.ents), g.i) = len + 1
      BY <1>9
    <2>3. CASE below = 0
      <3>1. Cardinality(DirsIn(g.node)) = Cardinality(DirsIn(f.node))
        BY <1>7, <2>3
      <3>2. f.node.ndirs + f.node.nfiles = len /\ f.node.ndirs = Cardinality(DirsIn(f.node))
        BY <1>1, <1>8, <1>9, <2>3
      <3>3. g.node.nfiles = f.node.nfiles + 1
        BY <1>9, <2>1, <2>3
      <3> QED
        BY <1>1, <1>9, <2>1, <2>2, <3>1, <3>2, <3>3
    <2>4. CASE below = 1
      BY <1>1, <1>7, <1>8, <1>9, <2>1, <2>2, <2>4
    <2> QED
      BY <2>3, <2>4
  <1>11. /\ e \in Entry \cup {RootEntry} /\ e.kind = "dir" /\ e.name \notin Dots
         /\ g.first = e.first /\ g.node.type = "dir" /\ g.node.name = e.name
         /\ g.ents \in Seq(Unit) /\ EntriesOf(g.ents) = DirEntries(d, e.first)
         /\ g.i \in 1..Len(g.ents) + 1
         /\ \A u \in 1..g.i - 1 : g.ents[u].kind # "end"
    BY DEF HasRead
  <1> QED
    BY <1>2, <1>5, <1>6, <1>7, <1>10, <1>11 DEF HasRead

\* A directory is counted before it is read.
LEMMA ReadDescends ==
    ASSUME NEW d, NEW f, NEW e, HasRead(d, f, e, 1, 0),
           NEW g, IsFrame(g), g.first = f.first, g.ents = f.ents, g.i = f.i,
           g.node.type = f.node.type, g.node.name = f.node.name,
           g.node.ndirs = f.node.ndirs + 1, g.node.nfiles = f.node.nfiles,
           g.node.entries = f.node.entries
    PROVE  HasRead(d, g, e, 1, 1) /\ NextEntry(d, g) = NextEntry(d, f)
  <1>1. DirsIn(g.node) = DirsIn(f.node)
    BY DEF DirsIn
  <1>2. Len(f.node.entries) \in Nat /\ Cardinality(DirsIn(f.node)) \in Nat
    BY IsSeqFacts, FS_CardinalityType DEF HasRead
  <1>3. /\ f.node.ndirs \in Nat /\ f.node.nfiles \in Nat
        /\ f.node.ndirs + f.node.nfiles = Len(f.node.entries) + 0
        /\ f.node.ndirs = Cardinality(DirsIn(f.node)) + 0
    BY DEF HasRead
  <1>4. /\ g.node.ndirs \in Nat /\ g.node.nfiles \in Nat
        /\ g.node.ndirs + g.node.nfiles = Len(g.node.entries) + 1
        /\ g.node.ndirs = Cardinality(DirsIn(g.node)) + 1
    <2>1. Len(g.node.entries) = Len(f.node.entries)
      OBVIOUS
    <2> QED
      BY <1>1, <1>2, <1>3, <2>1
  <1>5. HasRead(d, g, e, 1, 1)
    <2>1. /\ e \in Entry \cup {RootEntry} /\ e.kind = "dir" /\ e.name \notin Dots
          /\ g.first = e.first /\ g.node.type = "dir" /\ g.node.name = e.name
          /\ g.ents \in Seq(Unit) /\ EntriesOf(g.ents) = DirEntries(d, e.first)
          /\ g.i \in 1..Len(g.ents) + 1
          /\ \A u \in 1..g.i - 1 : g.ents[u].kind # "end"
      BY DEF HasRead
    <2>2. /\ IsSeq(g.node.entries)
          /\ Rank(EntriesAt(g.ents), g.i) = Len(g.node.entries) + 1
          /\ \A m \in DOMAIN g.node.entries :
               Mirrors(d, g.node.entries[m], DirEntries(d, e.first)[m])
      BY DEF HasRead
    <2>3. IsFiniteSet(DirsIn(g.node))
      BY <1>1 DEF HasRead
    <2> QED
      BY <1>4, <2>1, <2>2, <2>3 DEF HasRead
  <1> QED
    BY <1>5 DEF NextEntry

\* A call that is at the end has read the whole directory.
LEMMA ReadFinishes ==
    ASSUME NEW d, NEW f, NEW e, HasRead(d, f, e, 0, 0),
           f.i \in DOMAIN f.ents => f.ents[f.i].kind = "end"
    PROVE  Mirrors(d, f.node, e)
  <1> DEFINE S == EntriesAt(f.ents)
             q == f.node.entries
  <1>1. f.ents \in Seq(Unit) /\ f.i \in 1..Len(f.ents) + 1 /\ Len(f.ents) \in Nat
    BY DEF HasRead
  <1>2. S \in SUBSET (1..Len(f.ents))
    BY <1>1, EntriesAtType
  <1>3. \A u \in S : u < f.i
    <2> SUFFICES ASSUME NEW u \in S, u >= f.i PROVE FALSE
      BY <1>1, <1>2
    <2>1. f.i \in 1..u /\ f.i \in DOMAIN f.ents
      BY <1>1, <1>2
    <2> QED
      BY <2>1 DEF EntriesAt
  <1> HIDE DEF S
  <1>4. {l \in S : l < f.i} = S
    BY <1>3
  <1>5. Rank(S, f.i) = Cardinality(S)
    BY <1>4 DEF Rank
  <1>6. IsSeq(q) /\ Len(q) \in Nat
    BY IsSeqFacts DEF HasRead
  <1>7. Rank(S, f.i) = Len(q) + 0 /\ EntriesOf(f.ents) = DirEntries(d, e.first)
    BY DEF HasRead, S
  <1>8. Len(EntriesOf(f.ents)) = Cardinality(S)
    BY <1>1, EntriesOfType DEF S
  <1>9. Len(q) = Len(DirEntries(d, e.first))
    <2>1. Len(q) + 0 = Len(q)
      BY <1>6
    <2> QED
      BY <1>5, <1>7, <1>8, <2>1, Zenon
  <1>10. Says(d, f.node, e)
    <2>1. /\ e.kind = "dir" /\ e.name \notin Dots
          /\ f.node.type = "dir" /\ f.node.name = e.name
          /\ f.node.ndirs \in Nat /\ f.node.nfiles \in Nat
          /\ f.node.ndirs + f.node.nfiles = Len(q) + 0
          /\ IsFiniteSet(DirsIn(f.node))
          /\ f.node.ndirs = Cardinality(DirsIn(f.node)) + 0
      BY DEF HasRead
    <2>2. Cardinality(DirsIn(f.node)) \in Nat
      BY <2>1, FS_CardinalityType
    <2>3. /\ f.node.ndirs + f.node.nfiles = Len(q)
          /\ f.node.ndirs = Cardinality(DirsIn(f.node))
      BY <1>6, <2>1, <2>2
    <2> QED
      BY <1>6, <1>9, <2>1, <2>3 DEF Says
  <1>11. \A m \in DOMAIN f.node.entries :
           Mirrors(d, f.node.entries[m], DirEntries(d, e.first)[m])
    BY DEF HasRead
  <1> QED
    BY <1>10, <1>11, MirrorsAbove

-----------------------------------------------------------------------------
(* The calls of read_dir_recursive *)

\* The entry of the directory a call reads.
EntryAt(d, st, m) == IF m = 1 THEN RootEntry ELSE NextEntry(d, st[m - 1])

\* Each call has read a part of its directory, and all but the last are at
\* the entry of the next call.
StackReads(d, st, reading) ==
    /\ IsSeq(st) /\ st # << >>
    /\ \A m \in 1..Len(st) :
         HasRead(d, st[m], EntryAt(d, st, m), IF m = Len(st) THEN reading ELSE 1,
                IF m = Len(st) THEN 0 ELSE 1)

\* The last call.
LEMMA StackTop ==
    ASSUME NEW d, NEW st, NEW reading, StackReads(d, st, reading)
    PROVE  /\ IsSeq(st) /\ Len(st) \in Nat \ {0} /\ DOMAIN st = 1..Len(st)
           /\ HasRead(d, st[Len(st)], EntryAt(d, st, Len(st)), reading, 0)
  <1>1. IsSeq(st) /\ Len(st) \in Nat \ {0} /\ DOMAIN st = 1..Len(st)
    BY IsSeqFacts DEF StackReads
  <1>2. Len(st) \in 1..Len(st)
    BY <1>1
  <1>3. HasRead(d, st[Len(st)], EntryAt(d, st, Len(st)), reading, 0)
    BY <1>2 DEF StackReads
  <1> QED
    BY <1>1, <1>3

\* A step of the last call.
LEMMA StackSteps ==
    ASSUME NEW d, NEW st, NEW reading, NEW then, StackReads(d, st, reading),
           NEW g, HasRead(d, g, EntryAt(d, st, Len(st)), then, 0)
    PROVE  StackReads(d, [st EXCEPT ![Len(st)] = g], then)
  <1> DEFINE n == Len(st)
             new == [st EXCEPT ![n] = g]
  <1>1. IsSeq(st) /\ n \in Nat \ {0}
    BY StackTop
  <1>2. n \in 1..n
    BY <1>1
  <1> HIDE DEF n
  <1>3. IsSeq(new) /\ Len(new) = n /\ \A m \in 1..n : new[m] = IF m = n THEN g ELSE st[m]
    BY <1>1, <1>2, ExceptIsSeq DEF n
  <1>4. new # << >>
    BY <1>1, <1>3, IsSeqFacts
  <1> HIDE DEF new
  <1>5. \A m \in 1..n : EntryAt(d, new, m) = EntryAt(d, st, m)
    <2> TAKE m \in 1..n
    <2>1. CASE m = 1
      BY <2>1 DEF EntryAt
    <2>2. CASE m # 1
      <3>1. m - 1 \in 1..n /\ m - 1 # n
        BY <1>1, <2>2
      <3>2. new[m - 1] = st[m - 1]
        BY <1>3, <3>1
      <3> QED
        BY <2>2, <3>2 DEF EntryAt
    <2> QED
      BY <2>1, <2>2
  <1>6. \A m \in 1..n : HasRead(d, new[m], EntryAt(d, new, m), IF m = n THEN then ELSE 1,
                               IF m = n THEN 0 ELSE 1)
    <2> TAKE m \in 1..n
    <2>1. CASE m = n
      <3>1. new[m] = g /\ EntryAt(d, new, m) = EntryAt(d, st, Len(st))
        BY <1>3, <1>5, <2>1 DEF n
      <3> QED
        BY <2>1, <3>1
    <2>2. CASE m # n
      <3>1. new[m] = st[m] /\ EntryAt(d, new, m) = EntryAt(d, st, m)
        BY <1>3, <1>5, <2>2
      <3>2. HasRead(d, st[m], EntryAt(d, st, m), 1, 1)
        BY <2>2 DEF StackReads, n
      <3> QED
        BY <2>2, <3>1, <3>2
    <2> QED
      BY <2>1, <2>2
  <1>7. StackReads(d, new, then)
    BY <1>3, <1>4, <1>6 DEF StackReads
  <1> QED
    BY <1>7 DEF new, n

\* The last call calls.
LEMMA StackCalls ==
    ASSUME NEW d, NEW st, StackReads(d, st, 1),
           NEW g, HasRead(d, g, EntryAt(d, st, Len(st)), 1, 1),
           NEW h, HasRead(d, h, NextEntry(d, g), 0, 0)
    PROVE  StackReads(d, Append([st EXCEPT ![Len(st)] = g], h), 0)
  <1> DEFINE n == Len(st)
             mid == [st EXCEPT ![n] = g]
             new == Append(mid, h)
  <1>1. IsSeq(st) /\ n \in Nat \ {0}
    BY StackTop
  <1>2. n \in 1..n
    BY <1>1
  <1> HIDE DEF n
  <1>3. IsSeq(mid) /\ Len(mid) = n /\ \A m \in 1..n : mid[m] = IF m = n THEN g ELSE st[m]
    BY <1>1, <1>2, ExceptIsSeq DEF n
  <1> HIDE DEF mid
  <1>4. /\ IsSeq(new) /\ Len(new) = n + 1
        /\ \A m \in 1..n : new[m] = mid[m]
        /\ new[n + 1] = h
    BY <1>3, AppendIsSeq
  <1> HIDE DEF new
  <1>5. new # << >>
    BY <1>1, <1>4, IsSeqFacts
  <1>6. \A m \in 1..n : EntryAt(d, new, m) = EntryAt(d, st, m)
    <2> TAKE m \in 1..n
    <2>1. CASE m = 1
      BY <2>1 DEF EntryAt
    <2>2. CASE m # 1
      <3>1. m - 1 \in 1..n /\ m - 1 # n
        BY <1>1, <2>2
      <3>2. new[m - 1] = st[m - 1]
        BY <1>3, <1>4, <3>1
      <3> QED
        BY <2>2, <3>2 DEF EntryAt
    <2> QED
      BY <2>1, <2>2
  <1>7. EntryAt(d, new, n + 1) = NextEntry(d, g)
    <2>1. n + 1 # 1 /\ (n + 1) - 1 = n
      BY <1>1
    <2>2. new[n] = g
      BY <1>2, <1>3, <1>4
    <2> QED
      BY <2>1, <2>2 DEF EntryAt
  <1>8. ASSUME NEW m \in 1..n + 1
        PROVE  HasRead(d, new[m], EntryAt(d, new, m), IF m = n + 1 THEN 0 ELSE 1,
                      IF m = n + 1 THEN 0 ELSE 1)
    <2>1. CASE m = n + 1
      BY <1>4, <1>7, <2>1
    <2>2. CASE m = n
      <3>1. new[m] = g /\ EntryAt(d, new, m) = EntryAt(d, st, Len(st)) /\ m # n + 1
        BY <1>1, <1>2, <1>3, <1>4, <1>6, <2>2 DEF n
      <3> QED
        BY <3>1
    <2>3. CASE m # n /\ m # n + 1
      <3>1. m \in 1..n
        BY <1>1, <2>3
      <3>2. new[m] = st[m] /\ EntryAt(d, new, m) = EntryAt(d, st, m)
        BY <1>3, <1>4, <1>6, <2>3, <3>1
      <3>3. HasRead(d, st[m], EntryAt(d, st, m), 1, 1)
        BY <2>3, <3>1 DEF StackReads, n
      <3> QED
        BY <2>3, <3>2, <3>3
    <2> QED
      BY <2>1, <2>2, <2>3
  <1>9. StackReads(d, new, 0)
    BY <1>4, <1>5, <1>8 DEF StackReads
  <1> QED
    BY <1>9 DEF new, mid, n

\* The last call returns.
LEMMA StackReturns ==
    ASSUME NEW d, NEW st, StackReads(d, st, 0), Len(st) # 1,
           NEW g, HasRead(d, g, EntryAt(d, st, Len(st) - 1), 0, 0)
    PROVE  StackReads(d, [Front(st) EXCEPT ![Len(st) - 1] = g], 0)
  <1> DEFINE n == Len(st) - 1
             mid == Front(st)
             new == With(mid, n, g)
  <1>1. IsSeq(st) /\ n \in Nat \ {0} /\ Len(st) = n + 1 /\ st # << >>
    BY StackTop DEF StackReads
  <1>2. n \in 1..n
    BY <1>1
  <1> HIDE DEF n
  <1>3. IsSeq(mid) /\ Len(mid) = n /\ \A m \in 1..n : mid[m] = st[m]
    <2>1. IsSeq(mid) /\ Len(mid) = Len(st) - 1 /\ \A m \in 1..Len(st) - 1 : mid[m] = st[m]
      BY <1>1, FrontIsSeq
    <2> QED
      BY <2>1 DEF n
  <1> HIDE DEF mid
  <1>4. IsSeq(new) /\ Len(new) = n /\ \A m \in 1..n : new[m] = IF m = n THEN g ELSE st[m]
    <2>1. IsSeq(mid) /\ n \in 1..Len(mid)
      BY <1>2, <1>3
    <2>2. /\ IsSeq(new) /\ Len(new) = Len(mid)
          /\ \A m \in 1..Len(mid) : new[m] = IF m = n THEN g ELSE mid[m]
      BY <2>1, WithIsSeq
    <2> HIDE DEF new
    <2> QED
      BY <1>3, <2>2
  <1> HIDE DEF new
  <1>5. new # << >>
    BY <1>1, <1>4, IsSeqFacts
  <1>6. \A m \in 1..n : EntryAt(d, new, m) = EntryAt(d, st, m)
    <2> TAKE m \in 1..n
    <2>1. CASE m = 1
      BY <2>1 DEF EntryAt
    <2>2. CASE m # 1
      <3>1. m - 1 \in 1..n /\ m - 1 # n
        BY <1>1, <2>2
      <3>2. new[m - 1] = st[m - 1]
        BY <1>4, <3>1
      <3> QED
        BY <2>2, <3>2 DEF EntryAt
    <2> QED
      BY <2>1, <2>2
  <1>7. \A m \in 1..n : HasRead(d, new[m], EntryAt(d, new, m), IF m = n THEN 0 ELSE 1,
                               IF m = n THEN 0 ELSE 1)
    <2> TAKE m \in 1..n
    <2>1. CASE m = n
      <3>1. new[m] = g /\ EntryAt(d, new, m) = EntryAt(d, st, Len(st) - 1)
        BY <1>4, <1>6, <2>1 DEF n
      <3> QED
        BY <2>1, <3>1
    <2>2. CASE m # n
      <3>1. new[m] = st[m] /\ EntryAt(d, new, m) = EntryAt(d, st, m)
        BY <1>4, <1>6, <2>2
      <3>2. m \in 1..Len(st) /\ m # Len(st)
        BY <1>1
      <3>3. HasRead(d, st[m], EntryAt(d, st, m), 1, 1)
        BY <3>2 DEF StackReads
      <3> QED
        BY <2>2, <3>1, <3>3
    <2> QED
      BY <2>1, <2>2
  <1>8. StackReads(d, new, 0)
    BY <1>4, <1>5, <1>7 DEF StackReads
  <1> QED
    BY <1>8 DEF new, mid, n, With

-----------------------------------------------------------------------------
(* The tree that is read *)

\* The first clusters of the chain have been counted.
SizeInv ==
    \E n \in Nat : /\ cluster = ClusterOf(disk, entry.first, n)
                   /\ Extends(disk, entry.first, n)
                   /\ n <= NClusters(disk) + 1 => size = n * ClusterSize

\* The first clusters have been copied.  The size of a directory is the
\* length of its chain.
CopyInv ==
    /\ size \in Nat /\ data \in Seq(Unit) /\ Len(data) <= size
    /\ \E n \in Nat : /\ cluster = ClusterOf(disk, entry.first, n)
                      /\ Len(data) < size => Len(data) = n * ClusterSize
    /\ \A u \in 1..Len(data) : data[u] = UnitOf(disk, entry.first, u - 1)
    /\ entry.kind = "file" => size = entry.size
    /\ entry.kind = "dir" =>
         \E n \in Nat : /\ size = n * ClusterSize
                        /\ Extends(disk, entry.first, n)
                        /\ ~ClusterIsValid(disk, ClusterOf(disk, entry.first, n))

\* The loops of the reading, and the tree when it has been read.
ReadInv ==
    /\ at = "scan" => StackReads(disk, stack, 0)
    /\ at \in {"size", "copy"} => /\ StackReads(disk, stack, 1)
                                  /\ entry \in Entry
                                  /\ entry = NextEntry(disk, Top)
    /\ at = "size" => entry.kind = "dir" /\ data = << >> /\ SizeInv
    /\ at = "copy" => CopyInv
    /\ at \in {"prompt", "find", "found", "list"} => Mirrors(disk, root, RootEntry)

\* A step of the last call, as the code of EXCEPT.
LEMMA SkipKeepsReadInv ==
    ASSUME disk \in Disks, CountsAll(disk), ReadInv, Skip
    PROVE  ReadInv'
  <1> DEFINE n == Len(stack)
             f == stack[n]
             g == [f EXCEPT !.i = @ + 1]
  <1>1. /\ at = "scan" /\ at' = "scan" /\ disk' = disk
        /\ f.i \in DOMAIN f.ents /\ f.ents[f.i].kind \in {"deleted", "long"}
        /\ stack' = [stack EXCEPT ![n].i = @ + 1]
    BY DEF Skip, Scanning, Finished, Top
  <1>2. StackReads(disk, stack, 0)
    BY <1>1 DEF ReadInv
  <1>3. HasRead(disk, f, EntryAt(disk, stack, n), 0, 0)
    BY <1>2, StackTop
  <1>4. HasRead(disk, g, EntryAt(disk, stack, n), 0, 0)
    <2> HIDE DEF f
    <2> QED
      BY <1>1, <1>3, ReadSkips
  <1>5. stack' = [stack EXCEPT ![n] = g]
    BY <1>1
  <1> HIDE DEF g
  <1>6. StackReads(disk, [stack EXCEPT ![Len(stack)] = g], 0)
    BY <1>2, <1>4, StackSteps
  <1>7. StackReads(disk', stack', 0)
    BY <1>1, <1>5, <1>6
  <1> QED
    BY <1>1, <1>7 DEF ReadInv

\* Reading an entry begins: nothing of its chain has been counted or copied.
LEMMA ReadEntryKeepsReadInv ==
    ASSUME disk \in Disks, CountsAll(disk), ReadInv, ReadEntry
    PROVE  ReadInv'
  <1> DEFINE n == Len(stack)
             f == stack[n]
             g == [f EXCEPT !.i = @ + 1]
  <1>1. /\ at = "scan" /\ disk' = disk
        /\ f.i \in DOMAIN f.ents /\ f.ents[f.i].kind \in {"file", "dir"}
        /\ stack' = [stack EXCEPT ![n].i = @ + 1]
        /\ entry' = f.ents[f.i] /\ cluster' = entry'.first /\ data' = << >>
        /\ IF entry'.kind = "file" THEN size' = entry'.size /\ at' = "copy"
           ELSE size' = 0 /\ at' = "size"
    BY DEF ReadEntry, Scanning, Finished, Top
  <1>2. StackReads(disk, stack, 0)
    BY <1>1 DEF ReadInv
  <1>3. HasRead(disk, f, EntryAt(disk, stack, n), 0, 0) /\ n \in DOMAIN stack
    BY <1>2, StackTop
  <1>4. /\ HasRead(disk, g, EntryAt(disk, stack, n), 1, 0)
        /\ f.ents[f.i] \in Entry /\ f.ents[f.i] = NextEntry(disk, g)
    <2> HIDE DEF f
    <2> QED
      BY <1>1, <1>3, ReadEnters
  <1>5. stack' = [stack EXCEPT ![n] = g]
    BY <1>1
  <1> HIDE DEF g
  <1>6. StackReads(disk, [stack EXCEPT ![Len(stack)] = g], 1)
    BY <1>2, <1>4, StackSteps
  <1>7. StackReads(disk', stack', 1)
    BY <1>1, <1>5, <1>6
  <1>8. Top' = g
    <2>1. Len(stack') = n /\ stack'[n] = g
      BY <1>2, <1>3, <1>5, StackTop
    <2> QED
      BY <2>1 DEF Top
  <1>9. entry' \in Entry /\ entry' = NextEntry(disk', Top')
    BY <1>1, <1>4, <1>8
  <1>10. /\ entry'.first \in Nat /\ entry'.kind \in {"file", "dir"}
         /\ entry'.kind = "file" => entry'.size \in Nat
    BY <1>9, UnitFields
  <1>11. cluster' = ClusterOf(disk', entry'.first, 0)
    BY <1>1, <1>10, ChainFacts
  <1>12. CASE entry'.kind = "file"
    <2>1. CopyInv'
      <3>1. size' \in Nat /\ data' \in Seq(Unit) /\ Len(data') = 0 /\ 0 * ClusterSize = 0
        BY <1>1, <1>10, <1>12, Fat12Assumption
      <3> QED
        BY <1>1, <1>11, <1>12, <3>1, SMTT(30) DEF CopyInv
    <2> QED
      BY <1>1, <1>7, <1>9, <1>12, <2>1 DEF ReadInv
  <1>13. CASE entry'.kind = "dir"
    <2>1. SizeInv'
      <3>1. size' = 0 * ClusterSize
        BY <1>1, <1>13, Fat12Assumption
      <3>2. Extends(disk', entry'.first, 0)
        BY DEF Extends
      <3> QED
        BY <1>11, <3>1, <3>2 DEF SizeInv
    <2> QED
      BY <1>1, <1>7, <1>9, <1>13, <2>1 DEF ReadInv
  <1> QED
    BY <1>10, <1>12, <1>13

\* One more cluster of the chain has been counted.
LEMMA SizeStepKeepsReadInv ==
    ASSUME disk \in Disks, CountsAll(disk), ReadInv, SizeStep
    PROVE  ReadInv'
  <1>1. /\ at = "size" /\ at' = "size" /\ ClusterIsValid(disk, cluster)
        /\ size' = IF size < MaxSize THEN size + ClusterSize ELSE size
        /\ cluster' = ClusterNext(disk, cluster)
        /\ UNCHANGED <<disk, at, stack, entry, data, root>>
    BY DEF SizeStep
  <1>2. SizeInv /\ entry \in Entry
    BY <1>1 DEF ReadInv
  <1> DEFINE first == entry.first
  <1>3. first \in Nat
    BY <1>2, UnitFields
  <1>4. PICK n \in Nat : /\ cluster = ClusterOf(disk, first, n)
                         /\ Extends(disk, first, n)
                         /\ n <= NClusters(disk) + 1 => size = n * ClusterSize
    BY <1>2 DEF SizeInv
  <1> HIDE DEF first
  <1>5. cluster' = ClusterOf(disk, first, n + 1)
    BY <1>1, <1>3, <1>4, ChainFacts
  <1>6. Extends(disk, first, n + 1)
    <2> SUFFICES ASSUME NEW m \in 0..(n + 1) - 1 PROVE ClusterIsValid(disk, ClusterOf(disk, first, m))
      BY DEF Extends
    <2>1. m = n \/ m \in 0..n - 1
      OBVIOUS
    <2> QED
      BY <1>1, <1>4, <2>1 DEF Extends
  <1>7. n + 1 <= NClusters(disk) + 1 => size' = (n + 1) * ClusterSize
    <2> SUFFICES ASSUME n + 1 <= NClusters(disk) + 1 PROVE size' = (n + 1) * ClusterSize
      OBVIOUS
    <2> DEFINE z == ClusterSize
               count == NClusters(disk)
    <2>1. z \in Nat \ {0} /\ count \in Nat
      BY DiskType, Fat12Assumption
    <2>2. size = n * z /\ MaxSize = (count + 1) * z
      <3>1. n <= NClusters(disk) + 1
        BY <2>1
      <3> QED
        BY <1>4, <3>1 DEF MaxSize
    <2>3. size' = IF size < MaxSize THEN size + z ELSE size
      BY <1>1
    <2> HIDE DEF z, count
    <2>4. n <= count
      BY <2>1 DEF count
    <2>5. (n + 1) * z = n * z + z /\ (count + 1) * z = count * z + z /\ n * z \in Nat /\ count * z \in Nat
      BY <2>1
    <2>6. n * z <= count * z
      BY <2>1, <2>4
    <2>7. size < MaxSize
      BY <2>1, <2>2, <2>5, <2>6
    <2>8. size' = (n + 1) * z
      BY <2>2, <2>3, <2>5, <2>7
    <2> QED
      BY <2>8 DEF z
  <1>8. n + 1 \in Nat
    OBVIOUS
  <1>9. SizeInv'
    BY <1>1, <1>5, <1>6, <1>7, <1>8 DEF SizeInv, first
  <1>10. Top' = Top
    BY <1>1 DEF Top
  <1> QED
    BY <1>1, <1>9, <1>10 DEF ReadInv

\* The size of a directory is known where its chain ends.
LEMMA SizeEndsKeepsReadInv ==
    ASSUME disk \in Disks, CountsAll(disk), ReadInv, SizeEnds
    PROVE  ReadInv'
  <1>1. /\ at = "size" /\ at' = "copy" /\ ~ClusterIsValid(disk, cluster)
        /\ cluster' = entry.first
        /\ UNCHANGED <<disk, stack, entry, size, data, root>>
    BY DEF SizeEnds
  <1>2. SizeInv /\ entry \in Entry /\ entry.kind = "dir" /\ data = << >>
    BY <1>1 DEF ReadInv
  <1> DEFINE first == entry.first
  <1>3. first \in Nat
    BY <1>2, UnitFields
  <1>4. PICK n \in Nat : /\ cluster = ClusterOf(disk, first, n)
                         /\ Extends(disk, first, n)
                         /\ n <= NClusters(disk) + 1 => size = n * ClusterSize
    BY <1>2 DEF SizeInv
  <1> HIDE DEF first
  <1>5. n <= NClusters(disk) /\ NClusters(disk) \in Nat
    BY <1>1, <1>3, <1>4, ChainIsShort, DiskType
  <1>6. size = n * ClusterSize
    BY <1>4, <1>5
  <1>7. size \in Nat /\ 0 * ClusterSize = 0
    BY <1>6, Fat12Assumption
  <1>8. cluster' = ClusterOf(disk, first, 0)
    BY <1>1, <1>3, ChainFacts DEF first
  <1>9. data' \in Seq(Unit) /\ Len(data') = 0
    BY <1>1, <1>2
  <1>10. CopyInv'
    <2>1. \E m \in Nat : /\ cluster' = ClusterOf(disk', first', m)
                         /\ Len(data') < size' => Len(data') = m * ClusterSize
      BY <1>1, <1>7, <1>8, <1>9 DEF first
    <2>2. \E m \in Nat : /\ size' = m * ClusterSize
                         /\ Extends(disk', first', m)
                         /\ ~ClusterIsValid(disk', ClusterOf(disk', first', m))
      BY <1>1, <1>4, <1>6 DEF first
    <2> QED
      BY <1>1, <1>2, <1>7, <1>9, <2>1, <2>2 DEF CopyInv, first
  <1>11. Top' = Top
    BY <1>1 DEF Top
  <1> QED
    BY <1>1, <1>10, <1>11 DEF ReadInv

\* The program ends.
LEMMA CopyFaultsKeepsReadInv ==
    ASSUME CopyFaults
    PROVE  ReadInv'
  BY DEF CopyFaults, ReadInv

\* One more cluster, or the part of it that belongs to the file, has been copied.
LEMMA CopyStepKeepsReadInv ==
    ASSUME disk \in Disks, CountsAll(disk), ReadInv, CopyStep
    PROVE  ReadInv'
  <1> DEFINE z == ClusterSize
             left == size - Len(data)
             ncopy == IF z < left THEN z ELSE left
             new == SubSeq(Units(disk, cluster), 1, ncopy)
             first == entry.first
  <1>1. /\ at = "copy" /\ at' = "copy" /\ ClusterIsValid(disk, cluster) /\ Len(data) < size
        /\ data' = data \o new /\ cluster' = ClusterNext(disk, cluster)
        /\ UNCHANGED <<disk, stack, entry, size, root>>
    BY DEF CopyStep, Copying
  <1>2. CopyInv /\ entry \in Entry
    BY <1>1 DEF ReadInv
  <1>3. first \in Nat /\ z \in Nat \ {0}
    BY <1>2, UnitFields, Fat12Assumption
  <1>4. PICK n \in Nat : cluster = ClusterOf(disk, first, n) /\ Len(data) = n * z
    BY <1>1, <1>2 DEF CopyInv
  <1>5. size \in Nat /\ data \in Seq(Unit) /\ Len(data) \in Nat /\ left \in Nat \ {0}
    BY <1>1, <1>2 DEF CopyInv
  <1>6. ncopy \in 1..z /\ ncopy <= left /\ (ncopy < z => ncopy = left)
    BY <1>3, <1>5
  <1>7. Units(disk, cluster) \in [1..z -> Unit]
    BY UnitsType
  <1> HIDE DEF z, left, ncopy
  <1>8. /\ new \in Seq(Unit) /\ Len(new) = ncopy
        /\ \A u \in 1..ncopy : new[u] = Units(disk, cluster)[u]
    <2> DEFINE w == Units(disk, cluster)
    <2>1. w \in [1..z -> Unit]
      BY <1>7
    <2> HIDE DEF w
    <2>2. w \in Seq(Unit) /\ Len(w) = z
      BY <1>3, <2>1
    <2>3. SubSeq(w, 1, ncopy) \in Seq(Unit) /\ Len(SubSeq(w, 1, ncopy)) = ncopy
      BY <1>3, <1>6, <2>2
    <2>4. \A u \in 1..ncopy : SubSeq(w, 1, ncopy)[u] = w[u]
      BY <1>3, <1>6, <2>2
    <2> QED
      BY <2>3, <2>4 DEF w
  <1> HIDE DEF new
  <1>9. /\ data' \in Seq(Unit) /\ Len(data') = Len(data) + ncopy
        /\ \A u \in 1..Len(data) : data'[u] = data[u]
        /\ \A u \in 1..ncopy : data'[Len(data) + u] = new[u]
    <2>1. /\ data \o new \in Seq(Unit) /\ Len(data \o new) = Len(data) + Len(new)
          /\ \A u \in 1..Len(data) + Len(new) :
               (data \o new)[u] = IF u <= Len(data) THEN data[u] ELSE new[u - Len(data)]
      BY <1>5, <1>8, ConcatProperties
    <2>2. \A u \in 1..Len(data) : (data \o new)[u] = data[u]
      BY <1>5, <1>6, <1>8, <2>1
    <2>3. ASSUME NEW u \in 1..ncopy PROVE (data \o new)[Len(data) + u] = new[u]
      <3>1. /\ Len(data) + u \in 1..Len(data) + Len(new) /\ ~ (Len(data) + u <= Len(data))
            /\ (Len(data) + u) - Len(data) = u
        BY <1>3, <1>5, <1>6, <1>8
      <3> QED
        BY <2>1, <3>1
    <2> QED
      BY <1>1, <1>8, <2>1, <2>2, <2>3
  <1>10. Len(data') <= size'
    BY <1>1, <1>3, <1>5, <1>6, <1>9 DEF left
  <1>11. cluster' = ClusterOf(disk, first, n + 1) /\ n + 1 \in Nat
    <2>1. \A m \in Nat : ClusterOf(disk, first, m + 1) = ClusterNext(disk, ClusterOf(disk, first, m))
      BY <1>3, ChainFacts
    <2>2. ClusterOf(disk, first, n + 1) = ClusterNext(disk, ClusterOf(disk, first, n))
      BY <2>1
    <2> HIDE DEF first
    <2>3. cluster' = ClusterOf(disk, first, n + 1)
      BY <1>1, <1>4, <2>2, Zenon
    <2> QED
      BY <2>3
  <1>12. Len(data') < size' => Len(data') = (n + 1) * z
    <2> SUFFICES ASSUME Len(data') < size' PROVE Len(data') = (n + 1) * z
      OBVIOUS
    <2>1. ncopy # left
      BY <1>1, <1>5, <1>9 DEF left
    <2>2. ncopy = z
      BY <1>3, <1>6, <2>1
    <2>3. (n + 1) * z = n * z + z
      BY <1>3
    <2> QED
      BY <1>4, <1>9, <2>2, <2>3
  <1>13. \A u \in 1..Len(data') : data'[u] = UnitOf(disk, first, u - 1)
    <2> TAKE u \in 1..Len(data')
    <2>1. CASE u <= Len(data)
      <3>1. u \in 1..Len(data)
        BY <1>5, <1>9, <2>1
      <3>2. data[u] = UnitOf(disk, first, u - 1)
        BY <1>2, <3>1 DEF CopyInv, first
      <3> QED
        BY <1>9, <3>1, <3>2
    <2>2. CASE u > Len(data)
      <3> DEFINE v == u - Len(data)
      <3>1. v \in 1..ncopy /\ u = Len(data) + v /\ v \in 1..z
        BY <1>3, <1>5, <1>6, <1>9, <2>2
      <3> HIDE DEF v
      <3>2. data'[u] = Units(disk, cluster)[v]
        BY <1>8, <1>9, <3>1
      <3>3. UnitOf(disk, first, n * ClusterSize + v - 1) = Units(disk, ClusterOf(disk, first, n))[v]
        BY <1>3, <3>1, UnitInCluster DEF z
      <3>4. u - 1 = n * ClusterSize + v - 1
        BY <1>4, <1>5, <3>1 DEF z
      <3> QED
        BY <1>4, <3>2, <3>3, <3>4
    <2> QED
      BY <1>5, <1>9, <2>1, <2>2
  <1>14. CopyInv'
    <2>1. \E m \in Nat : /\ cluster' = ClusterOf(disk', first', m)
                         /\ Len(data') < size' => Len(data') = m * ClusterSize
      BY <1>1, <1>11, <1>12 DEF first, z
    <2>2. \A u \in 1..Len(data') : data'[u] = UnitOf(disk', first', u - 1)
      BY <1>1, <1>13 DEF first
    <2>3. /\ entry'.kind = "file" => size' = entry'.size
          /\ entry'.kind = "dir" =>
               \E m \in Nat : /\ size' = m * ClusterSize
                              /\ Extends(disk', first', m)
                              /\ ~ClusterIsValid(disk', ClusterOf(disk', first', m))
      BY <1>1, <1>2 DEF CopyInv, first
    <2>4. size' \in Nat
      BY <1>1, <1>5
    <2> QED
      BY <1>9, <1>10, <2>1, <2>2, <2>3, <2>4 DEF CopyInv, first
  <1>15. Top' = Top
    BY <1>1 DEF Top
  <1> QED
    BY <1>1, <1>14, <1>15 DEF ReadInv

\* What is in the node of an entry whose chain has been copied.
CopiedData == [u \in 1..size |-> IF u <= Len(data) THEN data[u] ELSE Zero]

\* What has been copied are the units of the chain, zeros after its end.
LEMMA CopiedIsTrue ==
    ASSUME disk \in Disks, CountsAll(disk), at = "copy", ReadInv, ~Copying
    PROVE  /\ size \in Nat
           /\ CopiedData = [u \in 1..size |-> UnitOf(disk, entry.first, u - 1)]
           /\ entry.kind = "dir" => /\ CopiedData \in Seq(Unit)
                                    /\ EntriesOf(CopiedData) = DirEntries(disk, entry.first)
  <1> DEFINE first == entry.first
             z == ClusterSize
  <1>1. CopyInv /\ entry \in Entry
    BY DEF ReadInv
  <1>2. first \in Nat /\ z \in Nat \ {0}
    BY <1>1, UnitFields, Fat12Assumption
  <1>3. size \in Nat /\ data \in Seq(Unit) /\ Len(data) \in Nat /\ Len(data) <= size
    BY <1>1 DEF CopyInv
  <1>4. ASSUME NEW u \in 1..size, u > Len(data) PROVE UnitOf(disk, first, u - 1) = Zero
    <2>1. Len(data) < size /\ ~ClusterIsValid(disk, cluster)
      BY <1>3, <1>4 DEF Copying
    <2>2. PICK n \in Nat : cluster = ClusterOf(disk, first, n) /\ Len(data) = n * ClusterSize
      BY <1>1, <2>1 DEF CopyInv
    <2>3. u - 1 \in Nat /\ u - 1 >= n * ClusterSize
      BY <1>3, <1>4, <2>2
    <2> QED
      BY <1>2, <2>1, <2>2, <2>3, UnitPastChain
  <1>5. ASSUME NEW u \in 1..size
        PROVE  (IF u <= Len(data) THEN data[u] ELSE Zero) = UnitOf(disk, first, u - 1)
    <2>1. CASE u <= Len(data)
      <3>1. u \in 1..Len(data)
        BY <1>3, <2>1
      <3> QED
        BY <1>1, <2>1, <3>1 DEF CopyInv
    <2>2. CASE ~ (u <= Len(data))
      <3>1. u > Len(data)
        BY <1>3, <2>2
      <3> QED
        BY <1>4, <2>2, <3>1
    <2> QED
      BY <2>1, <2>2
  <1>6. CopiedData = [u \in 1..size |-> UnitOf(disk, first, u - 1)]
    BY <1>5 DEF CopiedData
  <1>7. ASSUME entry.kind = "dir"
        PROVE  /\ CopiedData \in Seq(Unit)
               /\ EntriesOf(CopiedData) = DirEntries(disk, first)
    <2> DEFINE v == [u \in 1..size |-> UnitOf(disk, first, u - 1)]
               len == NClusters(disk) * ClusterSize
               w == [u \in 1..len |-> UnitOf(disk, first, u - 1)]
    <2>1. NClusters(disk) \in Nat /\ len \in Nat
      BY <1>2, DiskType
    <2>2. PICK n \in Nat : /\ size = n * ClusterSize
                           /\ Extends(disk, first, n)
                           /\ ~ClusterIsValid(disk, ClusterOf(disk, first, n))
      BY <1>1, <1>7 DEF CopyInv
    <2>3. n <= NClusters(disk)
      BY <1>2, <2>2, ChainIsShort
    <2>4. size <= len
      BY <1>2, <2>1, <2>2, <2>3
    <2> HIDE DEF len
    <2>5. \A u \in Nat \ {0} : UnitOf(disk, first, u - 1) \in Unit
      BY <1>2, UnitsType
    <2>6. v \in Seq(Unit) /\ Len(v) = size
      BY <1>3, <2>5
    <2>7. w \in Seq(Unit) /\ Len(w) = len
      BY <2>1, <2>5
    <2>8. \A u \in 1..size : w[u] = v[u]
      BY <1>3, <2>1, <2>4
    <2>9. ASSUME NEW u \in size + 1..len PROVE w[u].kind = "end"
      <3>1. u - 1 \in Nat /\ u - 1 >= n * ClusterSize /\ u \in 1..len
        BY <1>3, <2>1, <2>2
      <3>2. UnitOf(disk, first, u - 1) = Zero
        BY <1>2, <2>2, <3>1, UnitPastChain
      <3> QED
        BY <3>1, <3>2, UnitFields
    <2>10. DirEntries(disk, first) = EntriesOf(w)
      <3>1. first # RootDirectory
        BY <1>2 DEF RootDirectory
      <3> QED
        BY <3>1 DEF DirEntries, len
    <2> HIDE DEF v, w
    <2>11. EntriesOf(v) = EntriesOf(w)
      BY <2>1, <2>4, <2>6, <2>7, <2>8, <2>9, ZerosAreNoEntries
    <2> QED
      BY <1>6, <2>6, <2>10, <2>11 DEF v
  <1> QED
    BY <1>3, <1>6, <1>7

\* The node of an entry that is not read further mirrors it.
LEMMA LeafMirrors ==
    ASSUME disk \in Disks, CountsAll(disk), at = "copy", ReadInv, ~Copying,
           NEW x, x = Node(entry, size, CopiedData),
           ~(entry.kind = "dir" /\ entry.name \notin Dots)
    PROVE  Mirrors(disk, x, entry) /\ ~IsDirectory(x)
  <1>1. /\ x.type = entry.kind /\ x.name = entry.name /\ x.size = size
        /\ x.data = CopiedData /\ x.ndirs = 0 /\ x.nfiles = 0 /\ x.entries = << >>
    BY DEF Node
  <1>2. IsSeq(x.entries) /\ Len(x.entries) = 0 /\ DOMAIN x.entries = {}
    BY <1>1, EmptyIsSeq
  <1>3. DirsIn(x) = {}
    BY <1>2 DEF DirsIn
  <1>4. Cardinality(DirsIn(x)) = 0
    BY <1>3, FS_EmptySet
  <1>5. entry.kind = "file" =>
          x.size = entry.size /\ x.data = [u \in 1..entry.size |-> UnitOf(disk, entry.first, u - 1)]
    <2>1. entry.kind = "file" => size = entry.size
      BY DEF ReadInv, CopyInv
    <2> QED
      BY <1>1, <2>1, CopiedIsTrue
  <1>6. Says(disk, x, entry)
    BY <1>1, <1>2, <1>4, <1>5 DEF Says
  <1>7. Mirrors(disk, x, entry)
    BY <1>2, <1>6, MirrorsAbove
  <1> QED
    BY <1>1, <1>7 DEF IsDirectory

\* The node of an entry mirrors it, or the next call has read nothing yet.
LEMMA CopyEndsKeepsReadInv ==
    ASSUME disk \in Disks, CountsAll(disk), ReadInv, CopyEnds
    PROVE  ReadInv'
  <1> DEFINE n == Len(stack)
             f == stack[n]
             x == Node(entry, size, CopiedData)
             down == entry.kind = "dir" /\ entry.name \notin Dots
             counted == [f EXCEPT !.node = [f.node EXCEPT !.ndirs = f.node.ndirs + 1]]
             filed == [f EXCEPT !.node = [f.node EXCEPT !.nfiles = f.node.nfiles + 1]]
             appended == [filed EXCEPT !.node =
                            [filed.node EXCEPT !.entries = Append(filed.node.entries, x)]]
  <1>1. /\ at = "copy" /\ ~Copying /\ at' = "scan" /\ disk' = disk
        /\ down => stack' = Append([stack EXCEPT ![n].node.ndirs = @ + 1],
                                   Frame(x, entry.first, x.data))
        /\ ~down => stack' = [stack EXCEPT ![n].node.nfiles = @ + 1,
                                           ![n].node.entries = Append(@, x)]
    BY DEF CopyEnds, CopiedData
  <1>2. /\ StackReads(disk, stack, 1) /\ entry \in Entry
        /\ entry = NextEntry(disk, f)
    BY <1>1 DEF ReadInv, Top
  <1>3. /\ HasRead(disk, f, EntryAt(disk, stack, n), 1, 0)
        /\ n \in DOMAIN stack
    BY <1>2, StackTop
  <1>4. IsFrame(f)
    BY <1>3 DEF HasRead
  <1>5. /\ x.type = entry.kind /\ x.name = entry.name /\ x.data = CopiedData
        /\ x.ndirs = 0 /\ x.nfiles = 0 /\ x.entries = << >> /\ IsNode(x)
    BY DEF Node, IsNode
  <1>6. CASE down
    <2>1. stack' = Append([stack EXCEPT ![n] = counted], Frame(x, entry.first, x.data))
      <3> HIDE DEF x, down
      <3> QED
        BY <1>1, <1>6
    <2>2. /\ IsFrame(counted) /\ counted.first = f.first /\ counted.ents = f.ents
          /\ counted.i = f.i
          /\ counted.node.type = f.node.type /\ counted.node.name = f.node.name
          /\ counted.node.ndirs = f.node.ndirs + 1 /\ counted.node.nfiles = f.node.nfiles
          /\ counted.node.entries = f.node.entries
      <3> HIDE DEF f
      <3> QED
        BY <1>4 DEF IsFrame, IsNode
    <2> HIDE DEF counted, f, x
    <2>3. /\ HasRead(disk, counted, EntryAt(disk, stack, n), 1, 1)
          /\ NextEntry(disk, counted) = NextEntry(disk, f)
      BY <1>3, <2>2, ReadDescends
    <2>4. /\ CopiedData \in Seq(Unit)
          /\ EntriesOf(CopiedData) = DirEntries(disk, entry.first)
      BY <1>1, <1>6, CopiedIsTrue
    <2>5. HasRead(disk, Frame(x, entry.first, x.data), entry, 0, 0)
      BY <1>2, <1>5, <1>6, <2>4, ReadBegins
    <2>6. HasRead(disk, Frame(x, entry.first, x.data), NextEntry(disk, counted), 0, 0)
      BY <1>2, <2>3, <2>5
    <2> DEFINE h == Frame(x, entry.first, x.data)
    <2> HIDE DEF h
    <2>7. StackReads(disk, Append([stack EXCEPT ![Len(stack)] = counted], h), 0)
      BY <1>2, <2>3, <2>6, StackCalls DEF h
    <2>8. StackReads(disk', stack', 0)
      BY <1>1, <2>1, <2>7 DEF h
    <2> QED
      BY <1>1, <2>8 DEF ReadInv
  <1>7. CASE ~down
    <2>1. stack' = [stack EXCEPT ![n] = appended]
      <3> DEFINE mid == [stack EXCEPT ![n].node.nfiles = @ + 1]
      <3>1. stack' = [mid EXCEPT ![n].node.entries = Append(@, x)]
        <4> HIDE DEF x, down
        <4> QED
          BY <1>1, <1>7
      <3>2. mid = [stack EXCEPT ![n] = filed]
        OBVIOUS
      <3>3. mid[n] = filed
        BY <1>3, <3>2
      <3>4. \A v : [mid EXCEPT ![n] = v] = [stack EXCEPT ![n] = v]
        BY <1>3, <3>2
      <3> HIDE DEF mid, x
      <3>5. stack' = [mid EXCEPT ![n] = [mid[n] EXCEPT !.node =
                        [mid[n].node EXCEPT !.entries = Append(mid[n].node.entries, x)]]]
        BY <3>1
      <3> HIDE DEF filed
      <3>6. stack' = [mid EXCEPT ![n] = appended]
        BY <3>3, <3>5
      <3> QED
        BY <3>4, <3>6
    <2>2. /\ IsFrame(appended) /\ appended.first = f.first /\ appended.ents = f.ents
          /\ appended.i = f.i
          /\ appended.node.type = f.node.type /\ appended.node.name = f.node.name
          /\ appended.node.ndirs = f.node.ndirs /\ appended.node.nfiles = f.node.nfiles + 1
          /\ appended.node.entries = Append(f.node.entries, x)
      <3> HIDE DEF f, x
      <3>1. /\ IsFrame(filed) /\ filed.first = f.first /\ filed.ents = f.ents
            /\ filed.i = f.i
            /\ filed.node.type = f.node.type /\ filed.node.name = f.node.name
            /\ filed.node.ndirs = f.node.ndirs /\ filed.node.nfiles = f.node.nfiles + 1
            /\ filed.node.entries = f.node.entries
        BY <1>4 DEF IsFrame, IsNode
      <3> HIDE DEF filed
      <3> QED
        BY <3>1 DEF IsFrame, IsNode
    <2>3. Mirrors(disk, x, entry) /\ ~IsDirectory(x)
      BY <1>1, <1>7, LeafMirrors
    <2> HIDE DEF appended, filed, f, x
    <2>4. f.node.nfiles \in Nat
      BY <1>3 DEF HasRead
    <2>5. appended.node.nfiles = f.node.nfiles + 1 - 0
      BY <2>2, <2>4
    <2>6. HasRead(disk, appended, EntryAt(disk, stack, n), 0, 0)
      <3>1. 0 \in {0, 1} /\ (IsDirectory(x) <=> 0 = 1)
        BY <2>3
      <3> QED
        BY <1>2, <1>3, <2>2, <2>3, <2>5, <3>1, ReadReturns
    <2>7. StackReads(disk, [stack EXCEPT ![Len(stack)] = appended], 0)
      BY <1>2, <2>6, StackSteps
    <2>8. StackReads(disk', stack', 0)
      BY <1>1, <2>1, <2>7
    <2> QED
      BY <1>1, <2>8 DEF ReadInv
  <1> QED
    BY <1>6, <1>7

\* A directory that has been read to its end mirrors its entry.
LEMMA DirEndsKeepsReadInv ==
    ASSUME disk \in Disks, CountsAll(disk), ReadInv, DirEnds
    PROVE  ReadInv'
  <1> DEFINE n == Len(stack)
             f == stack[n]
  <1>1. /\ at = "scan" /\ disk' = disk
        /\ f.i \in DOMAIN f.ents => f.ents[f.i].kind = "end"
        /\ IF n = 1 THEN root' = f.node /\ at' = "prompt"
           ELSE /\ stack' = [Front(stack) EXCEPT ![n - 1].node.entries = Append(@, f.node)]
                /\ at' = "scan"
    BY DEF DirEnds, Scanning, Finished, Top
  <1>2. StackReads(disk, stack, 0)
    BY <1>1 DEF ReadInv
  <1>3. /\ HasRead(disk, f, EntryAt(disk, stack, n), 0, 0)
        /\ n \in Nat \ {0} /\ IsSeq(stack) /\ stack # << >>
    BY <1>2, StackTop DEF StackReads
  <1>4. Mirrors(disk, f.node, EntryAt(disk, stack, n))
    <2> HIDE DEF f
    <2> QED
      BY <1>1, <1>3, ReadFinishes
  <1>5. CASE n = 1
    <2>1. EntryAt(disk, stack, n) = RootEntry
      BY <1>5 DEF EntryAt
    <2>2. Mirrors(disk', root', RootEntry)
      BY <1>1, <1>4, <1>5, <2>1
    <2> QED
      BY <1>1, <1>5, <2>2 DEF ReadInv
  <1>6. CASE n # 1
    <2> DEFINE g == stack[n - 1]
               x == f.node
               new == [g EXCEPT !.node = [g.node EXCEPT !.entries = Append(g.node.entries, x)]]
    <2>1. n - 1 \in 1..n /\ n - 1 # n /\ n - 1 \in 1..n - 1
      <3>1. n \in Nat \ {0} /\ n # 1
        BY <1>3, <1>6
      <3> HIDE DEF n
      <3> QED
        BY <3>1
    <2>2. HasRead(disk, g, EntryAt(disk, stack, n - 1), 1, 1)
      BY <1>2, <2>1 DEF StackReads
    <2>3. IsFrame(g)
      BY <2>2 DEF HasRead
    <2>4. Front(stack)[n - 1] = g /\ DOMAIN Front(stack) = 1..n - 1
      <3>1. IsSeq(Front(stack)) /\ Len(Front(stack)) = n - 1
            /\ \A m \in 1..n - 1 : Front(stack)[m] = stack[m]
        BY <1>3, FrontIsSeq
      <3>2. DOMAIN Front(stack) = 1..n - 1
        BY <3>1, IsSeqFacts
      <3> QED
        BY <2>1, <3>1, <3>2
    <2>5. stack' = [Front(stack) EXCEPT ![n - 1] = new]
      <3> DEFINE mid == Front(stack)
      <3>1. stack' = [mid EXCEPT ![n - 1].node.entries = Append(@, x)]
        BY <1>1, <1>6
      <3>2. mid[n - 1] = g
        BY <2>4
      <3> HIDE DEF mid, x, g
      <3>3. stack' = [mid EXCEPT ![n - 1] = new]
        BY <3>1, <3>2
      <3> QED
        BY <3>3 DEF mid
    <2>6. /\ IsFrame(new) /\ new.first = g.first /\ new.ents = g.ents
          /\ new.i = g.i
          /\ new.node.type = g.node.type /\ new.node.name = g.node.name
          /\ new.node.ndirs = g.node.ndirs /\ new.node.nfiles = g.node.nfiles
          /\ new.node.entries = Append(g.node.entries, x)
      <3> HIDE DEF g, x
      <3> QED
        BY <2>3 DEF IsFrame, IsNode
    <2>7. Mirrors(disk, x, NextEntry(disk, g))
      BY <1>4, <1>6 DEF EntryAt
    <2>8. IsDirectory(x)
      BY <1>3 DEF HasRead, IsDirectory
    <2> HIDE DEF new, g, x
    <2>9. g.node.nfiles \in Nat
      BY <2>2 DEF HasRead
    <2>10. new.node.nfiles = g.node.nfiles + 1 - 1
      BY <2>6, <2>9
    <2>11. HasRead(disk, new, EntryAt(disk, stack, n - 1), 0, 0)
      <3>1. 1 \in {0, 1} /\ (IsDirectory(x) <=> 1 = 1)
        BY <2>8
      <3> QED
        BY <2>2, <2>6, <2>7, <2>10, <3>1, ReadReturns
    <2>12. StackReads(disk, [Front(stack) EXCEPT ![Len(stack) - 1] = new], 0)
      BY <1>2, <1>6, <2>11, StackReturns
    <2>13. StackReads(disk', stack', 0)
      BY <1>1, <2>5, <2>12
    <2> QED
      BY <1>1, <1>6, <2>13 DEF ReadInv
  <1> QED
    BY <1>5, <1>6

\* The shell leaves the tree alone.
LEMMA ShellKeepsReadInv ==
    ASSUME ReadInv, Types \/ Answers \/ UNCHANGED vars
    PROVE  ReadInv'
  <1>1. /\ UNCHANGED mount
        /\ UNCHANGED at \/ at' \in {"end", "crashed"}
           \/ (at \in {"prompt", "find", "found", "list"} /\ at' \in {"prompt", "find", "found", "list"})
    BY Zenon DEF Types, Answers, Quit, TypeTooLittle, TypeInvalid, Type, NoSuchFile, FindStep,
           FindEnds, Cat, Ls, ListBelow, ListEnds, Refuse, Searching, Listing, vars, mount
  <1>2. UNCHANGED <<disk, stack, entry, cluster, size, data, root>>
    BY <1>1 DEF mount
  <1>3. Top' = Top /\ CopyInv' = CopyInv /\ SizeInv' = SizeInv
    BY <1>2 DEF Top, CopyInv, SizeInv
  <1> QED
    BY <1>1, <1>2, <1>3 DEF ReadInv

\* The first call reads the root directory.
LEMMA StartedReads ==
    ASSUME Started
    PROVE  disk \in Disks /\ ReadInv
  <1>1. /\ disk \in Disks /\ at = "scan"
        /\ stack = <<Frame(RootNode, RootDirectory, disk.root)>>
    BY Zenon DEF Started
  <1> DEFINE h == Frame(RootNode, RootEntry.first, disk.root)
  <1>2. /\ RootEntry.kind = "dir" /\ RootEntry.name = << >> /\ RootEntry.first = RootDirectory
        /\ << >> \notin Dots
    BY DEF RootEntry, Dots
  <1>3. /\ IsNode(RootNode) /\ RootNode.type = "dir" /\ RootNode.name = << >>
        /\ RootNode.entries = << >> /\ RootNode.ndirs = 0 /\ RootNode.nfiles = 0
    BY DEF IsNode, RootNode
  <1>4. disk.root \in Seq(Unit)
    BY <1>1, DiskType
  <1>5. EntriesOf(disk.root) = DirEntries(disk, RootEntry.first)
    BY <1>2 DEF DirEntries
  <1>6. HasRead(disk, h, RootEntry, 0, 0)
    BY <1>2, <1>3, <1>4, <1>5, ReadBegins
  <1>7. stack = <<h>>
    BY <1>1, <1>2
  <1> HIDE DEF h
  <1>8. StackReads(disk, stack, 0)
    <2>1. IsSeq(stack) /\ Len(stack) = 1 /\ stack[1] = h /\ stack # << >>
      <3>1. stack \in Seq({h})
        BY <1>7
      <3> QED
        BY <1>7, <3>1 DEF IsSeq
    <2>2. \A m \in 1..1 : m = 1
      OBVIOUS
    <2>3. EntryAt(disk, stack, 1) = RootEntry
      BY DEF EntryAt
    <2> QED
      BY <1>6, <2>1, <2>2, <2>3 DEF StackReads
  <1> QED
    BY <1>1, <1>8 DEF ReadInv

-----------------------------------------------------------------------------
(* Where a path is cut *)

\* The smallest element of a set is the only one.
LEMMA MinIs ==
    ASSUME NEW S \in SUBSET Int, NEW x \in S, \A y \in S : x <= y
    PROVE  Min(S) = x
  <1>1. Min(S) = CHOOSE z \in S : \A y \in S : z <= y
    BY DEF Min
  <1> DEFINE m == CHOOSE z \in S : \A y \in S : z <= y
  <1>2. m \in S /\ \A y \in S : m <= y
    OBVIOUS
  <1> HIDE DEF m
  <1>3. m = x
    BY <1>2
  <1> QED
    BY <1>1, <1>3 DEF m

\* There is one in a set of natural numbers.
LEMMA MinInSet ==
    ASSUME NEW S \in SUBSET Nat, S # {}
    PROVE  Min(S) \in S
  <1> DEFINE R == OpToRel(<, Nat)
  <1>1. IsWellFoundedOn(R, Nat)
    BY NatLessThanWellFounded, Zenon
  <1>2. PICK x \in S : \A y \in S : ~ (<<y, x>> \in R)
    <2> HIDE DEF R
    <2> QED
      BY <1>1, WFMin
  <1>3. \A y \in S : x <= y
    <2> SUFFICES ASSUME NEW y \in S PROVE x <= y
      OBVIOUS
    <2>1. x \in Nat /\ y \in Nat
      BY <1>2, Zenon
    <2>2. ~ (y < x)
      BY <1>2, <2>1 DEF OpToRel
    <2> QED
      BY <2>1, <2>2
  <1>4. S \in SUBSET Int
    OBVIOUS
  <1> QED
    BY <1>3, <1>4, MinIs

\* A path is cut at its slashes and at its end.
LEMMA CutsType ==
    ASSUME NEW p \in Seq(STRING)
    PROVE  /\ Len(p) \in Nat /\ DOMAIN p = 1..Len(p)
           /\ Cuts(p) \in SUBSET Int /\ Cuts(p) \in SUBSET (1..Len(p) + 1)
           /\ IsFiniteSet(Cuts(p)) /\ Len(p) + 1 \in Cuts(p)
           /\ Cardinality(Cuts(p)) \in Nat \ {0}
           /\ Depth(p) \in Nat /\ Cardinality(Cuts(p)) = Depth(p) + 1
  <1>1. Len(p) \in Nat /\ DOMAIN p = 1..Len(p)
    OBVIOUS
  <1>2. Cuts(p) \in SUBSET (1..Len(p) + 1) /\ Len(p) + 1 \in Cuts(p)
    BY <1>1 DEF Cuts
  <1>3. IsFiniteSet(1..Len(p) + 1)
    <2>1. 1 \in Int /\ Len(p) + 1 \in Int
      BY <1>1
    <2> QED
      BY <2>1, FS_Interval
  <1>4. IsFiniteSet(Cuts(p))
    BY <1>2, <1>3, FS_Subset
  <1>5. Cardinality(Cuts(p)) \in Nat
    BY <1>4, FS_CardinalityType
  <1>6. Cardinality(Cuts(p)) # 0
    BY <1>2, <1>4, FS_EmptySet
  <1>7. Depth(p) = Cardinality(Cuts(p)) - 1
    BY DEF Depth
  <1> QED
    BY <1>1, <1>2, <1>4, <1>5, <1>6, <1>7

\* The cuts in their order, from 0 at the beginning of an absolute path.
CutAt(p, n) == Nth(Cuts(p), n + 1)

\* Each cut is one of the cuts, and its number is its rank.
LEMMA CutAtType ==
    ASSUME NEW p \in Seq(STRING), NEW n \in 0..Depth(p)
    PROVE  CutAt(p, n) \in Cuts(p) /\ Rank(Cuts(p), CutAt(p, n)) = n /\ CutAt(p, n) \in 1..Len(p) + 1
  <1>1. n + 1 \in 1..Cardinality(Cuts(p))
    BY CutsType
  <1> DEFINE rest == n + 1
  <1>2. rest \in 1..Cardinality(Cuts(p)) /\ rest - 1 = n
    BY <1>1
  <1>3. Nth(Cuts(p), rest) \in Cuts(p) /\ Rank(Cuts(p), Nth(Cuts(p), rest)) = rest - 1
    <2> HIDE DEF rest
    <2> QED
      BY <1>2, CutsType, NthInSet
  <1> QED
    BY <1>2, <1>3, CutsType DEF CutAt

\* A cut is the one of its rank.
LEMMA CutOfRank ==
    ASSUME NEW p \in Seq(STRING), NEW m \in Cuts(p)
    PROVE  /\ Rank(Cuts(p), m) \in 0..Depth(p)
           /\ CutAt(p, Rank(Cuts(p), m)) = m
           /\ Rank(Cuts(p), m) = Depth(p) <=> m = Len(p) + 1
  <1> DEFINE S == Cuts(p)
             end == Len(p) + 1
  <1>1. /\ S \in SUBSET Int /\ IsFiniteSet(S) /\ end \in S /\ end \in Int
        /\ \A l \in S : l <= end
        /\ Depth(p) \in Nat /\ Cardinality(S) = Depth(p) + 1
    BY CutsType
  <1>2. CutAt(p, Rank(S, m)) = m
    BY <1>1, NthOfRank DEF CutAt
  <1>3. \A l \in S : Rank(S, l) \in 0..Cardinality(S)
    BY <1>1, RankType
  <1>4. Rank(S, end) = Depth(p)
    <2> DEFINE T == {l \in S : l < end}
    <2>1. T = S \ {end}
      BY <1>1
    <2> HIDE DEF T, S, end
    <2>2. Cardinality(T) = Cardinality(S) - 1
      BY <1>1, <2>1, FS_RemoveElement
    <2> QED
      BY <1>1, <2>2 DEF T, Rank
  <1>5. m # end => Rank(S, m) < Rank(S, end)
    <2> SUFFICES ASSUME m # end PROVE Rank(S, m) < Rank(S, end)
      OBVIOUS
    <2>1. m \in S /\ m \in Int /\ m < end
      BY <1>1
    <2> HIDE DEF S, end
    <2> QED
      BY <1>1, <2>1, RankGrows
  <1> HIDE DEF S, end
  <1>6. Rank(S, m) \in 0..Depth(p)
    <2>1. m \in S
      BY DEF S
    <2> QED
      BY <1>1, <1>3, <1>4, <1>5, <2>1
  <1> QED
    BY <1>1, <1>2, <1>4, <1>5, <1>6 DEF S, end

\* The first cut of an absolute path is its first character.
LEMMA FirstCut ==
    ASSUME NEW p \in Seq(STRING), IsAbsolute(p)
    PROVE  CutAt(p, 0) = 1 /\ Depth(p) \in Nat \ {0} /\ Len(p) \in Nat \ {0}
  <1>1. Len(p) \in Nat \ {0} /\ p[1] = "/"
    BY CutsType DEF IsAbsolute
  <1>2. 1 \in Cuts(p)
    BY <1>1, CutsType DEF Cuts
  <1>3. Rank(Cuts(p), 1) = 0
    <2>1. {l \in Cuts(p) : l < 1} = {}
      BY CutsType
    <2> QED
      BY <2>1, FS_EmptySet DEF Rank
  <1>4. CutAt(p, 0) = 1
    BY <1>2, <1>3, CutOfRank
  <1>5. Depth(p) # 0
    BY <1>1, <1>2, <1>3, CutOfRank
  <1> QED
    BY <1>1, <1>4, <1>5, CutsType

\* Cuts of larger number are farther to the right.
LEMMA CutsGrow ==
    ASSUME NEW p \in Seq(STRING), NEW n \in Nat, n < Depth(p)
    PROVE  /\ CutAt(p, n) < CutAt(p, n + 1)
           /\ \A m \in Cuts(p) : CutAt(p, n) < m => CutAt(p, n + 1) <= m
  <1> DEFINE x == CutAt(p, n)
             y == CutAt(p, n + 1)
             S == Cuts(p)
  <1>1. n \in 0..Depth(p) /\ n + 1 \in 0..Depth(p)
    BY CutsType
  <1>2. S \in SUBSET Int /\ IsFiniteSet(S)
    BY CutsType
  <1>3. x \in S /\ Rank(S, x) = n
    BY <1>1, CutAtType
  <1>4. y \in S /\ Rank(S, y) = n + 1
    BY <1>1, CutAtType
  <1> HIDE DEF x, y, S
  <1>5. ~ (y < x)
    <2> SUFFICES ASSUME y < x PROVE FALSE
      OBVIOUS
    <2>1. Rank(S, y) < Rank(S, x)
      BY <1>2, <1>3, <1>4, RankGrows
    <2> QED
      BY <1>3, <1>4, <2>1
  <1>6. x # y
    BY <1>3, <1>4
  <1>7. ASSUME NEW m \in S, x < m, m < y PROVE FALSE
    <2>1. Rank(S, x) < Rank(S, m)
      BY <1>2, <1>3, <1>7, RankGrows
    <2>2. Rank(S, m) < Rank(S, y)
      BY <1>2, <1>4, <1>7, RankGrows
    <2>3. Rank(S, m) \in 0..Cardinality(S)
      BY <1>2, RankType
    <2> QED
      BY <1>3, <1>4, <2>1, <2>2, <2>3
  <1>8. x \in Int /\ y \in Int /\ \A m \in S : m \in Int
    BY <1>2, <1>3, <1>4
  <1>9. x < y /\ \A m \in S : x < m => y <= m
    BY <1>5, <1>6, <1>7, <1>8
  <1> QED
    BY <1>9 DEF x, y, S

\* strchr finds the next cut.
LEMMA SlashIsNextCut ==
    ASSUME NEW p \in Seq(STRING), NEW n \in Nat, n < Depth(p)
    PROVE  Slash(p, CutAt(p, n) + 1) = CutAt(p, n + 1)
  <1> DEFINE x == CutAt(p, n)
             y == CutAt(p, n + 1)
             S == {m \in x + 1..Len(p) : p[m] = "/"} \cup {Len(p) + 1}
  <1>1. n \in 0..Depth(p) /\ n + 1 \in 0..Depth(p)
    BY CutsType
  <1>2. x \in 1..Len(p) + 1 /\ y \in 1..Len(p) + 1 /\ y \in Cuts(p)
    BY <1>1, CutAtType
  <1>3. x < y /\ \A m \in Cuts(p) : x < m => y <= m
    BY CutsGrow
  <1> HIDE DEF x, y
  <1>4. y \in S
    BY <1>2, <1>3, CutsType DEF Cuts
  <1>5. \A m \in S : m \in Cuts(p) /\ x < m
    BY <1>2, <1>3, CutsType DEF Cuts
  <1>6. \A m \in S : y <= m
    BY <1>3, <1>5
  <1>7. S \in SUBSET Int
    BY <1>5, CutsType
  <1>8. Slash(p, x + 1) = Min(S)
    BY DEF Slash
  <1> HIDE DEF S
  <1> QED
    BY <1>4, <1>6, <1>7, <1>8, MinIs DEF x, y

-----------------------------------------------------------------------------
(* What a path names *)

\* What a path can name.
Found == Entry \cup {RootEntry, Nothing}

\* The kinds of what a path can name.
LEMMA FoundFields ==
    /\ RootEntry \in Found /\ Nothing \in Found /\ \A e \in Entry : e \in Found
    /\ Nothing.kind = "end"
    /\ RootEntry.kind = "dir" /\ RootEntry.name = << >> /\ RootEntry.first = RootDirectory
    /\ \A e \in Found : /\ e.kind \in {"file", "dir", "end"}
                        /\ e.kind # "end" => /\ e \in Entry \cup {RootEntry}
                                             /\ e.first \in Nat \cup {RootDirectory}
                        /\ e.kind = "end" => e = Nothing
                        /\ e.kind = "file" => e \in Entry
  <1>1. /\ RootEntry \in Found /\ Nothing \in Found /\ \A e \in Entry : e \in Found
    BY DEF Found
  <1>2. Nothing.kind = "end"
    BY DEF Nothing
  <1>3. RootEntry.kind = "dir" /\ RootEntry.name = << >> /\ RootEntry.first = RootDirectory
    BY DEF RootEntry
  <1>4. \A e \in Entry : e.kind \in {"file", "dir"} /\ e.first \in Nat
    BY UnitFields
  <1>5. \A e \in Found : e \in Entry \/ e = RootEntry \/ e = Nothing
    BY DEF Found
  <1>6. ASSUME NEW e \in Found
        PROVE  /\ e.kind \in {"file", "dir", "end"}
               /\ e.kind # "end" => /\ e \in Entry \cup {RootEntry}
                                    /\ e.first \in Nat \cup {RootDirectory}
               /\ e.kind = "end" => e = Nothing
               /\ e.kind = "file" => e \in Entry
    <2>1. CASE e \in Entry
      BY <1>4, <2>1
    <2>2. CASE e = RootEntry
      BY <1>3, <2>2
    <2>3. CASE e = Nothing
      BY <1>2, <2>3
    <2> QED
      BY <1>5, <2>1, <2>2, <2>3
  <1> QED
    BY <1>1, <1>2, <1>3, <1>6

\* The entries of a directory are a sequence of entries.
LEMMA DirEntriesType ==
    ASSUME NEW d \in Disks, NEW first \in Nat \cup {RootDirectory}
    PROVE  DirEntries(d, first) \in Seq(Entry)
  <1>1. CASE first = RootDirectory
    <2>1. d.root \in Seq(Unit)
      BY DiskType
    <2>2. DirEntries(d, first) = EntriesOf(d.root)
      BY <1>1 DEF DirEntries
    <2> QED
      BY <2>1, <2>2, EntriesOfType
  <1>2. CASE first # RootDirectory
    <2> DEFINE length == NClusters(d) * ClusterSize
               units == [u \in 1..length |-> UnitOf(d, first, u - 1)]
    <2>1. first \in Nat /\ length \in Nat
      BY <1>2, DiskType
    <2>2. \A u \in Nat : UnitOf(d, first, u) \in Unit
      BY <2>1, UnitsType
    <2> HIDE DEF length
    <2>3. \A u \in 1..length : UnitOf(d, first, u - 1) \in Unit
      BY <2>1, <2>2
    <2>4. units \in Seq(Unit)
      BY <2>1, <2>3
    <2>5. DirEntries(d, first) = EntriesOf(units)
      BY <1>2 DEF DirEntries, length
    <2> HIDE DEF units
    <2> QED
      BY <2>4, <2>5, EntriesOfType
  <1> QED
    BY <1>1, <1>2

\* The number of the first entry of a name.
Finds(entries, name) == {n \in DOMAIN entries : entries[n].name = name}

\* It is a number of an entry.
LEMMA FindsType ==
    ASSUME NEW entries \in Seq(Entry), NEW name, Finds(entries, name) # {}
    PROVE  /\ Min(Finds(entries, name)) \in Finds(entries, name)
           /\ Min(Finds(entries, name)) \in 1..Len(entries)
           /\ entries[Min(Finds(entries, name))] \in Entry
           /\ name \in Name
  <1> DEFINE S == Finds(entries, name)
  <1>1. DOMAIN entries = 1..Len(entries) /\ Len(entries) \in Nat
    OBVIOUS
  <1>2. S \in SUBSET Nat /\ S \in SUBSET (1..Len(entries))
    BY <1>1 DEF Finds
  <1>3. \A n \in 1..Len(entries) : entries[n] \in Entry
    OBVIOUS
  <1>4. \A n \in S : entries[n].name = name
    BY DEF Finds
  <1> HIDE DEF S
  <1>5. Min(S) \in S
    BY <1>2, MinInSet DEF S
  <1>6. Min(S) \in 1..Len(entries) /\ entries[Min(S)] \in Entry
    BY <1>2, <1>3, <1>5
  <1>7. name \in Name
    BY <1>4, <1>5, <1>6, UnitFields
  <1> QED
    BY <1>5, <1>6, <1>7 DEF S

\* A component names an entry of the directory, or the directory, or nothing.
LEMMA BelowIs ==
    ASSUME NEW d \in Disks, NEW e \in Found, NEW name, NEW isLast
    PROVE  /\ Below(d, e, name, isLast) \in Found
           /\ e.kind # "dir" => Below(d, e, name, isLast) = Nothing
           /\ e.kind = "dir" /\ name = << >> /\ isLast => Below(d, e, name, isLast) = e
           /\ e.kind = "dir" /\ ~ (name = << >> /\ isLast) =>
                 Below(d, e, name, isLast) =
                    IF e.name \in Dots \/ Finds(DirEntries(d, e.first), name) = {} THEN Nothing
                    ELSE DirEntries(d, e.first)[Min(Finds(DirEntries(d, e.first), name))]
  <1> DEFINE entries == DirEntries(d, e.first)
             got == Below(d, e, name, isLast)
  <1>1. got = IF e.kind # "dir" THEN Nothing
            ELSE IF name = << >> /\ isLast THEN e
            ELSE IF e.name \in Dots \/ Finds(entries, name) = {} THEN Nothing
            ELSE entries[Min(Finds(entries, name))]
    BY DEF Below, Finds
  <1>2. e.kind = "dir" => entries \in Seq(Entry)
    <2>1. e.kind = "dir" => e.first \in Nat \cup {RootDirectory}
      BY FoundFields
    <2> QED
      BY <2>1, DirEntriesType
  <1> HIDE DEF entries, got
  <1>3. e.kind = "dir" /\ Finds(entries, name) # {} => entries[Min(Finds(entries, name))] \in Entry
    BY <1>2, FindsType
  <1>4. got \in Found
    BY <1>1, <1>3, FoundFields
  <1> QED
    BY <1>1, <1>4 DEF entries, got

\* A path is followed component after component.
LEMMA ReachedFacts ==
    ASSUME NEW d \in Disks, NEW p
    PROVE  /\ Reached(d, p, 0) = RootEntry
           /\ \A n \in Nat :
                /\ Reached(d, p, n) \in Found
                /\ Reached(d, p, n + 1) =
                     Below(d, Reached(d, p, n), Component(p, n + 1), n + 1 = Depth(p))
  <1> DEFINE below(n, e) == Below(d, e, Component(p, n), n = Depth(p))
             next == [n \in Nat |-> [e \in Found |-> below(n + 1, e)]]
             step(f, n) == IF n = 0 THEN RootEntry ELSE below(n, f[n - 1])
  <1>1. next \in [Nat -> [Found -> Found]]
    BY BelowIs
  <1>2. \A n \in Nat, e \in Found : next[n][e] = below(n + 1, e)
    OBVIOUS
  <1> HIDE DEF next, below
  <1>3. PICK f : Iterates(f, Found, RootEntry, next)
    BY <1>1, FoundFields, RecursiveFunction, Zenon
  <1>4. \A n \in Nat : f[n + 1] = below(n + 1, f[n]) /\ f[n] \in Found
    BY <1>2, <1>3 DEF Iterates
  <1>5. f = [n \in Nat |-> step(f, n)]
    <2>1. \A n \in Nat : f[n] = step(f, n)
      <3> TAKE n \in Nat
      <3>1. CASE n = 0
        BY <1>3, <3>1 DEF Iterates
      <3>2. CASE n # 0
        <4>1. n - 1 \in Nat /\ n = (n - 1) + 1
          BY <3>2
        <4> QED
          BY <1>4, <3>2, <4>1
      <3> QED
        BY <3>1, <3>2
    <2> QED
      BY <1>3, <2>1 DEF Iterates
  <1> DEFINE w == CHOOSE g : g = [n \in Nat |-> step(g, n)]
  <1> HIDE DEF step
  <1>6. w = [n \in Nat |-> step(w, n)]
    BY <1>5
  <1>7. \A n : Reached(d, p, n) = w[n]
    BY DEF Reached, step, below
  <1> HIDE DEF w
  <1>8. \A n \in Nat : w[n] = step(w, n)
    BY <1>6
  <1>9. w[0] = RootEntry /\ \A n \in Nat : w[n + 1] = below(n + 1, w[n])
    BY <1>8 DEF step
  <1>10. \A n \in Nat : w[n] \in Found
    <2>1. w[0] \in Found
      BY <1>9, FoundFields
    <2>2. ASSUME NEW n \in Nat, w[n] \in Found PROVE w[n + 1] \in Found
      BY <1>9, <2>2, BelowIs DEF below
    <2> DEFINE S == {n \in Nat : w[n] \in Found}
    <2>3. Nat \subseteq S
      <3>1. 0 \in S
        BY <2>1
      <3>2. \A n \in S : n + 1 \in S
        BY <2>2
      <3> HIDE DEF S
      <3> QED
        BY <3>1, <3>2, NatSetInduction
    <2> QED
      BY <2>3
  <1> QED
    BY <1>7, <1>9, <1>10 DEF below

\* Below nothing and below a file a path names nothing.
LEMMA NothingBelow ==
    ASSUME NEW d \in Disks, NEW p, Depth(p) \in Nat, NEW n \in Nat, n < Depth(p),
           Reached(d, p, n).kind # "dir"
    PROVE  Named(d, p) = Nothing
  <1> DEFINE S == {m \in Nat : n + 1 + m <= Depth(p) => Reached(d, p, n + 1 + m) = Nothing}
  <1>1. Reached(d, p, n + 1) = Nothing
    BY ReachedFacts, BelowIs, SMTT(30)
  <1>2. Nat \subseteq S
    <2>1. 0 \in S
      <3>1. n + 1 + 0 = n + 1
        OBVIOUS
      <3> QED
        BY <1>1, <3>1
    <2>2. ASSUME NEW m \in S PROVE m + 1 \in S
      <3>1. n + 1 + m \in Nat /\ n + 1 + (m + 1) = (n + 1 + m) + 1 /\ m + 1 \in Nat
        OBVIOUS
      <3>2. SUFFICES ASSUME n + 1 + (m + 1) <= Depth(p) PROVE Reached(d, p, n + 1 + (m + 1)) = Nothing
        BY <3>1
      <3>3. Reached(d, p, n + 1 + m) = Nothing
        BY <3>1, <3>2
      <3>4. Nothing \in Found /\ Nothing.kind # "dir"
        BY FoundFields
      <3> DEFINE last == n + 1 + m
      <3> HIDE DEF last
      <3>5. last \in Nat /\ Reached(d, p, last) = Nothing /\ n + 1 + (m + 1) = last + 1
        BY <3>1, <3>3 DEF last
      <3>6. Reached(d, p, last + 1) =
              Below(d, Reached(d, p, last), Component(p, last + 1), last + 1 = Depth(p))
        BY <3>5, ReachedFacts
      <3> QED
        BY <3>4, <3>5, <3>6, BelowIs
    <2> HIDE DEF S
    <2> QED
      BY <2>1, <2>2, NatSetInduction
  <1> DEFINE rest == Depth(p) - (n + 1)
  <1>3. rest \in Nat /\ n + 1 + rest = Depth(p)
    OBVIOUS
  <1>4. rest \in S
    BY <1>2, <1>3
  <1>5. Reached(d, p, n + 1 + rest) = Nothing
    BY <1>3, <1>4
  <1> QED
    BY <1>3, <1>5 DEF Named

-----------------------------------------------------------------------------
(* Looking for the file of a path *)

\* The last cut is the end of the path, and no other is.
LEMMA LastCut ==
    ASSUME NEW p \in Seq(STRING), NEW n \in 0..Depth(p)
    PROVE  CutAt(p, n) = Len(p) + 1 <=> n = Depth(p)
  <1>1. CutAt(p, n) \in Cuts(p) /\ Rank(Cuts(p), CutAt(p, n)) = n
    BY CutAtType
  <1> DEFINE m == CutAt(p, n)
  <1> HIDE DEF m
  <1>2. m \in Cuts(p) /\ Rank(Cuts(p), m) = n
    BY <1>1 DEF m
  <1>3. Rank(Cuts(p), m) = Depth(p) <=> m = Len(p) + 1
    BY <1>2, CutOfRank
  <1> QED
    BY <1>2, <1>3 DEF m

\* A component is what lies between two cuts.
LEMMA ComponentIs ==
    ASSUME NEW p, NEW n \in Nat
    PROVE  Component(p, n + 1) = SubSeq(p, CutAt(p, n) + 1, CutAt(p, n + 1) - 1)
  <1>1. n + 1 \in Nat /\ (n + 1) + 1 = n + 1 + 1
    OBVIOUS
  <1> QED
    BY <1>1 DEF Component, CutAt

\* The component that find_file looks for is the one of the path.  A second
\* slash at the beginning is taken for a part of a name, and no name has one.
LEMMA NextComponent ==
    ASSUME NEW p \in Seq(STRING), IsAbsolute(p), NEW n \in Nat, n < Depth(p),
           NEW x, x = CutAt(p, n) + 1,
           NEW y, y = IF n = 0 THEN Slash(p, 3) ELSE Slash(p, x)
    PROVE  \/ /\ y = CutAt(p, n + 1)
              /\ SubSeq(p, x, y - 1) = Component(p, n + 1)
           \/ /\ SubSeq(p, x, y - 1) \notin Name
              /\ Component(p, n + 1) = << >>
              /\ n + 1 # Depth(p)
              /\ x <= Len(p)
  <1>1. /\ Len(p) \in Nat \ {0} /\ Depth(p) \in Nat \ {0} /\ CutAt(p, 0) = 1
        /\ n \in 0..Depth(p) /\ n + 1 \in 0..Depth(p)
    BY FirstCut
  <1>2. Slash(p, x) = CutAt(p, n + 1)
    BY SlashIsNextCut
  <1>3. Component(p, n + 1) = SubSeq(p, x, CutAt(p, n + 1) - 1)
    BY ComponentIs
  <1>4. CASE n # 0
    BY <1>2, <1>3, <1>4
  <1>5. CASE n = 0 /\ ~ (2 <= Len(p) /\ p[2] = "/")
    <2>1. x = 2
      BY <1>1, <1>5
    <2>2. \A m \in 2..Len(p) : p[m] = "/" => m \in 3..Len(p)
      BY <1>1, <1>5
    <2>3. {m \in 3..Len(p) : p[m] = "/"} = {m \in 2..Len(p) : p[m] = "/"}
      BY <1>1, <2>2
    <2>4. Slash(p, 3) = Slash(p, 2)
      BY <2>3 DEF Slash
    <2> QED
      BY <1>2, <1>3, <1>5, <2>1, <2>4
  <1>6. CASE n = 0 /\ 2 <= Len(p) /\ p[2] = "/"
    <2>1. x = 2 /\ n + 1 = 1
      BY <1>1, <1>6
    <2>2. CutAt(p, 1) = 2
      <3>1. 2 \in Cuts(p)
        BY <1>1, <1>6, CutsType DEF Cuts
      <3>2. CutAt(p, 0) < CutAt(p, 0 + 1) /\ \A m \in Cuts(p) : CutAt(p, 0) < m => CutAt(p, 0 + 1) <= m
        BY <1>6, CutsGrow
      <3>3. CutAt(p, 1) \in 1..Len(p) + 1
        BY <1>1, <2>1, CutAtType
      <3>4. 0 + 1 = 1
        OBVIOUS
      <3> QED
        BY <1>1, <3>1, <3>2, <3>3, <3>4
    <2>3. Component(p, 1) = << >>
      BY <1>3, <2>1, <2>2
    <2>4. 1 # Depth(p)
      BY <1>1, <1>6, <2>1, <2>2, LastCut
    <2> DEFINE T == {m \in 3..Len(p) : p[m] = "/"} \cup {Len(p) + 1}
    <2>5. y = Min(T)
      BY <1>6 DEF Slash
    <2>6. T \in SUBSET Nat /\ T # {} /\ \A m \in T : m \in 3..Len(p) + 1
      BY <1>1, <1>6
    <2> HIDE DEF T
    <2>7. y \in 3..Len(p) + 1
      BY <2>5, <2>6, MinInSet
    <2> DEFINE part == SubSeq(p, 2, y - 1)
    <2>8. part[1] = "/" /\ 1 \in DOMAIN part
      BY <1>1, <1>6, <2>7
    <2>9. part \notin Name
      <3>1. "/" \in Range(part)
        BY <2>8 DEF Range
      <3> QED
        BY <3>1 DEF Name
    <2> QED
      BY <1>6, <2>1, <2>3, <2>4, <2>9
  <1> QED
    BY <1>4, <1>5, <1>6

\* The node reached mirrors the entry that the components before s name.
FindsAt(n) ==
    /\ s = CutAt(path, n) + 1
    /\ sep = IF n = 0 THEN Slash(path, 3) ELSE Slash(path, s)
    /\ Mirrors(disk, file, Reached(disk, path, n))
    /\ Reached(disk, path, n).kind # "end"

\* A command is looking for its file and has printed nothing but, perhaps,
\* the usage of cat.
Asked == /\ path \in Paths /\ IsAbsolute(path) /\ command \in {"ls", "cat"}
         /\ answer = << >>
         /\ IF command = "cat" THEN message \in {"", Usage} ELSE message = ""

\* find_file has reached what the first components name.
FindInv == Asked /\ \E n \in Nat : n < Depth(path) /\ FindsAt(n)

\* find_file has found what the path names.
FoundInv == /\ Asked
            /\ Mirrors(disk, file, Named(disk, path))
            /\ Named(disk, path).kind # "end"

\* The entries of the node that match are those of the directory.
LEMMA MatchesAre ==
    ASSUME disk \in Disks, NEW e \in Found, e.kind # "end", Mirrors(disk, file, e)
    PROVE  /\ file.type = e.kind
           /\ Matches = IF e.kind = "dir" /\ e.name \notin Dots
                        THEN Finds(DirEntries(disk, e.first), SubSeq(path, s, sep - 1)) ELSE {}
           /\ \A m \in Matches : Mirrors(disk, file.entries[m], DirEntries(disk, e.first)[m])
  <1> DEFINE entries == DirEntries(disk, e.first)
  <1>1. /\ Says(disk, file, e)
        /\ \A m \in DOMAIN file.entries : Mirrors(disk, file.entries[m], entries[m])
    BY MirrorsBelow
  <1>2. entries \in Seq(Entry)
    BY FoundFields, DirEntriesType
  <1> HIDE DEF entries
  <1>3. file.type = e.kind /\ IsSeq(file.entries)
        /\ Len(file.entries) = IF e.kind = "dir" /\ e.name \notin Dots THEN Len(entries) ELSE 0
    BY <1>1 DEF Says, entries
  <1>4. DOMAIN file.entries = 1..Len(file.entries)
    BY <1>3, IsSeqFacts
  <1>5. \A m \in DOMAIN file.entries : file.entries[m].name = entries[m].name
    <2> TAKE m \in DOMAIN file.entries
    <2>1. Mirrors(disk, file.entries[m], entries[m])
      BY <1>1
    <2>2. Says(disk, file.entries[m], entries[m])
      BY <2>1, MirrorsBelow
    <2> QED
      BY <2>2 DEF Says
  <1>6. DOMAIN entries = 1..Len(entries)
    BY <1>2
  <1>7. Matches = IF e.kind = "dir" /\ e.name \notin Dots
                  THEN Finds(entries, SubSeq(path, s, sep - 1)) ELSE {}
    <2>1. CASE e.kind = "dir" /\ e.name \notin Dots
      <3>1. DOMAIN file.entries = DOMAIN entries
        BY <1>3, <1>4, <1>6, <2>1
      <3> QED
        BY <1>5, <2>1, <3>1 DEF Matches, Finds
    <2>2. CASE ~ (e.kind = "dir" /\ e.name \notin Dots)
      <3>1. DOMAIN file.entries = {}
        BY <1>3, <1>4, <2>2
      <3> QED
        BY <2>2, <3>1 DEF Matches
    <2> QED
      BY <2>1, <2>2
  <1>8. \A m \in Matches : m \in DOMAIN file.entries
    BY DEF Matches
  <1> QED
    BY <1>1, <1>3, <1>7, <1>8 DEF entries

\* What find_file does with a component.
LEMMA FindsComponent ==
    ASSUME disk \in Disks, Asked, NEW n \in Nat, n < Depth(path), FindsAt(n), s <= Len(path)
    PROVE  /\ file.type = "file" \/ Matches = {} => Named(disk, path) = Nothing
           /\ file.type = "dir" /\ Matches # {} =>
                 /\ sep = CutAt(path, n + 1)
                 /\ Mirrors(disk, file.entries[Min(Matches)], Reached(disk, path, n + 1))
                 /\ Reached(disk, path, n + 1).kind # "end"
  <1> DEFINE e == Reached(disk, path, n)
             got == Reached(disk, path, n + 1)
             name == SubSeq(path, s, sep - 1)
             entries == DirEntries(disk, e.first)
  <1>1. path \in Seq(STRING) /\ IsAbsolute(path) /\ Depth(path) \in Nat
    BY PathAssumption, CutsType, Zenon DEF Asked
  <1>2. e \in Found /\ e.kind # "end" /\ Mirrors(disk, file, e)
    BY ReachedFacts DEF FindsAt
  <1>3. got = Below(disk, e, Component(path, n + 1), n + 1 = Depth(path)) /\ got \in Found
    BY ReachedFacts
  <1>4. /\ file.type = e.kind
        /\ Matches = IF e.kind = "dir" /\ e.name \notin Dots THEN Finds(entries, name) ELSE {}
        /\ \A m \in Matches : Mirrors(disk, file.entries[m], entries[m])
    <2> HIDE DEF e
    <2> QED
      BY <1>2, MatchesAre
  <1>5. entries \in Seq(Entry)
    <2> HIDE DEF e
    <2> QED
      BY <1>2, FoundFields, DirEntriesType
  <1>6. \/ sep = CutAt(path, n + 1) /\ name = Component(path, n + 1)
        \/ name \notin Name /\ Component(path, n + 1) = << >> /\ n + 1 # Depth(path)
    BY <1>1, NextComponent DEF FindsAt
  <1>7. got.kind # "dir" /\ n + 1 < Depth(path) => Named(disk, path) = Nothing
    <2>1. n + 1 \in Nat
      OBVIOUS
    <2> QED
      BY <1>1, <2>1, NothingBelow
  <1>8. got = Nothing => Named(disk, path) = Nothing
    <2>1. CASE n + 1 = Depth(path)
      BY <2>1 DEF Named
    <2>2. CASE n + 1 # Depth(path)
      BY <1>1, <1>7, <2>2, FoundFields
    <2> QED
      BY <2>1, <2>2
  <1>9. \A x : Finds(entries, x) # {} =>
          /\ x \in Name /\ entries[Min(Finds(entries, x))] \in Entry
          /\ Min(Finds(entries, x)) \in Finds(entries, x)
    BY <1>5, FindsType
  <1>10. << >> \notin Name
    BY DEF Name
  <1>11. /\ e.kind # "dir" => got = Nothing
         /\ e.kind = "dir" /\ ~ (Component(path, n + 1) = << >> /\ n + 1 = Depth(path)) =>
              got = IF e.name \in Dots \/ Finds(entries, Component(path, n + 1)) = {} THEN Nothing
                  ELSE entries[Min(Finds(entries, Component(path, n + 1)))]
    <2> DEFINE z == Below(disk, e, Component(path, n + 1), n + 1 = Depth(path))
    <2>1. /\ e.kind # "dir" => z = Nothing
          /\ e.kind = "dir" /\ ~ (Component(path, n + 1) = << >> /\ n + 1 = Depth(path)) =>
               z = IF e.name \in Dots \/ Finds(entries, Component(path, n + 1)) = {} THEN Nothing
                   ELSE entries[Min(Finds(entries, Component(path, n + 1)))]
      <3> DEFINE last == n + 1 = Depth(path)
                 word == Component(path, n + 1)
      <3>1. e \in Found
        BY <1>2
      <3> HIDE DEF e, last, word
      <3>2. /\ e.kind # "dir" => Below(disk, e, word, last) = Nothing
            /\ e.kind = "dir" /\ ~ (word = << >> /\ last) =>
                 Below(disk, e, word, last) =
                    IF e.name \in Dots \/ Finds(DirEntries(disk, e.first), word) = {} THEN Nothing
                    ELSE DirEntries(disk, e.first)[Min(Finds(DirEntries(disk, e.first), word))]
        BY <3>1, BelowIs, Zenon
      <3> QED
        BY <3>2 DEF last, word
    <2>2. got = z
      BY <1>3
    <2> HIDE DEF e, z, got
    <2> QED
      BY <2>1, <2>2
  \* The component is not empty unless another follows.
  <1>12. ~ (Component(path, n + 1) = << >> /\ n + 1 = Depth(path))
    <2> SUFFICES ASSUME n + 1 = Depth(path) PROVE Component(path, n + 1) # << >>
      OBVIOUS
    <2>1. CutAt(path, n + 1) = Len(path) + 1 /\ Len(path) \in Nat
      <3>1. n + 1 \in 0..Depth(path)
        OBVIOUS
      <3> QED
        BY <1>1, <3>1, LastCut, CutsType
    <2>2. Component(path, n + 1) = SubSeq(path, s, CutAt(path, n + 1) - 1)
      BY ComponentIs DEF FindsAt
    <2>3. s \in 1..Len(path)
      <3>1. n \in 0..Depth(path)
        BY <1>1
      <3>2. CutAt(path, n) \in 1..Len(path) + 1
        BY <1>1, <3>1, CutAtType
      <3> QED
        BY <2>1, <3>2 DEF FindsAt
    <2>4. Component(path, n + 1) = SubSeq(path, s, Len(path))
      BY <2>1, <2>2
    <2>5. Len(SubSeq(path, s, Len(path))) = Len(path) - s + 1
      <3>1. 1 <= s /\ s <= Len(path) /\ path \in Seq(STRING)
        BY <1>1, <2>1, <2>3
      <3> QED
        BY <2>1, <2>3, <3>1
    <2>6. Len(Component(path, n + 1)) # 0
      BY <2>1, <2>3, <2>4, <2>5
    <2>7. Len(<< >>) = 0
      BY EmptyIsSeq
    <2> QED
      BY <2>6, <2>7, Zenon
  <1> HIDE DEF e, got, name, entries
  <1>13. file.type = "file" \/ Matches = {} => got = Nothing
    <2>1. CASE e.kind # "dir"
      BY <1>11, <2>1
    <2>2. CASE e.kind = "dir" /\ e.name \in Dots
      BY <1>11, <1>12, <2>2
    <2>3. CASE e.kind = "dir" /\ e.name \notin Dots
      <3> SUFFICES ASSUME file.type = "file" \/ Matches = {} PROVE got = Nothing
        OBVIOUS
      <3>1. Finds(entries, name) = {}
        BY <1>4, <2>3
      <3>2. Finds(entries, Component(path, n + 1)) = {}
        BY <1>6, <1>9, <1>10, <3>1
      <3> QED
        BY <1>11, <1>12, <2>3, <3>2
    <2> QED
      BY <2>1, <2>2, <2>3
  <1>14. ASSUME file.type = "dir", Matches # {}
         PROVE  /\ sep = CutAt(path, n + 1)
                /\ Mirrors(disk, file.entries[Min(Matches)], got)
                /\ got.kind # "end"
    <2>1. e.kind = "dir" /\ e.name \notin Dots /\ Matches = Finds(entries, name)
      BY <1>4, <1>14
    <2>2. name \in Name /\ entries[Min(Matches)] \in Entry /\ Min(Matches) \in Matches
      BY <1>9, <1>14, <2>1
    <2>3. sep = CutAt(path, n + 1) /\ name = Component(path, n + 1)
      BY <1>6, <2>2
    <2>4. got = entries[Min(Matches)]
      BY <1>11, <1>12, <1>14, <2>1, <2>3
    <2>5. got.kind # "end"
      BY <2>2, <2>4, UnitFields
    <2> QED
      BY <1>4, <2>2, <2>3, <2>4, <2>5
  <1> QED
    BY <1>8, <1>13, <1>14 DEF got

-----------------------------------------------------------------------------
(* The answers *)

\* What has been printed when a command is over.
Told ==
    LET e == Named(disk, path)
    IN  /\ path \in Paths /\ command \in {"ls", "cat"}
        /\ e.kind = "end" => answer = << >> /\ message \notin {"", Usage}
        /\ e.kind = "file" =>
             /\ IF command = "cat" THEN message \in {"", Usage} ELSE message = ""
             /\ answer = IF command = "cat"
                         THEN [u \in 1..e.size |-> UnitOf(disk, e.first, u - 1)]
                         ELSE <<[path |-> path, size |-> e.size]>>
        /\ e.kind = "dir" /\ command = "cat" => answer = << >> /\ message \notin {"", Usage}
        /\ e.kind = "dir" /\ command = "ls" => message = ""

\* ls lists a directory.
Lists == /\ command = "ls" /\ path \in Paths /\ IsAbsolute(path) /\ message = ""
         /\ Named(disk, path).kind = "dir"

\* The shell, from the prompt to the answer.
ShellInv ==
    /\ at = "find" => FindInv
    /\ at = "found" => FoundInv
    /\ at = "list" => Lists
    /\ Answered => Told

\* A command begins.
LEMMA TypeKeepsShellInv ==
    ASSUME disk \in Disks, ReadInv, Type
    PROVE  ShellInv'
  <1>1. /\ at = "prompt" /\ command' \in {"ls", "cat"} /\ path' \in Paths
        /\ IF IsAbsolute(path')
           THEN /\ at' = "find"
                /\ IF command' = "cat" THEN message' \in {"", Usage} ELSE message' = ""
           ELSE at' = "prompt"
        /\ answer' = << >> /\ file' = root /\ s' = 2 /\ sep' = Slash(path', 3)
        /\ disk' = disk
    BY Zenon DEF Type, mount
  <1>2. Mirrors(disk, root, RootEntry)
    BY <1>1, Zenon DEF ReadInv
  <1>3. CASE IsAbsolute(path')
    <2>1. path' \in Seq(STRING)
      BY <1>1, PathAssumption, Zenon
    <2>2. CutAt(path', 0) = 1 /\ Depth(path') \in Nat \ {0}
      <3> DEFINE p == path'
      <3>1. p \in Seq(STRING) /\ IsAbsolute(p)
        BY <1>3, <2>1
      <3> HIDE DEF p
      <3>2. CutAt(p, 0) = 1 /\ Depth(p) \in Nat \ {0}
        BY <3>1, FirstCut
      <3> QED
        BY <3>2 DEF p
    <2>3. Reached(disk, path', 0) = RootEntry
      BY ReachedFacts
    <2>4. RootEntry.kind # "end"
      BY FoundFields
    <2>5. FindsAt(0)'
      <3>1. s' = CutAt(path', 0) + 1 /\ sep' = Slash(path', 3)
        <4>1. s' = 2 /\ sep' = Slash(path', 3)
          BY <1>1, Zenon
        <4>2. CutAt(path', 0) + 1 = 2
          BY <2>2
        <4> QED
          BY <4>1, <4>2
      <3>2. Mirrors(disk', file', Reached(disk', path', 0)) /\ Reached(disk', path', 0).kind # "end"
        BY <1>1, <1>2, <2>3, <2>4, Zenon
      <3> QED
        BY <3>1, <3>2 DEF FindsAt
    <2>6. Asked'
      BY <1>1, <1>3, Zenon DEF Asked
    <2>7. FindInv'
      BY <2>2, <2>5, <2>6 DEF FindInv
    <2> QED
      BY <1>1, <1>3, <2>7, Zenon DEF ShellInv, Answered
  <1>4. CASE ~IsAbsolute(path')
    BY <1>1, <1>4 DEF ShellInv, Answered
  <1> QED
    BY <1>3, <1>4

\* find_file does not find a component.
LEMMA NoSuchFileKeepsShellInv ==
    ASSUME disk \in Disks, ShellInv, NoSuchFile
    PROVE  ShellInv'
  <1>1. /\ at = "find" /\ at' = "prompt" /\ s <= Len(path)
        /\ file.type = "file" \/ Matches = {}
        /\ message' = "No such file or directory"
        /\ UNCHANGED <<disk, command, path, s, sep, file, answer>>
    BY Zenon DEF NoSuchFile, Searching, Refuse, mount
  <1>2. FindInv
    BY <1>1, Zenon DEF ShellInv
  <1>3. PICK n \in Nat : n < Depth(path) /\ FindsAt(n)
    BY <1>2 DEF FindInv
  <1>4. Asked
    BY <1>2 DEF FindInv
  <1>5. Named(disk, path) = Nothing
    BY <1>1, <1>3, <1>4, FindsComponent, Zenon
  <1>6. Named(disk', path') = Nothing /\ Nothing.kind = "end"
    BY <1>1, <1>5, FoundFields, Zenon
  <1>7. message' \notin {"", Usage}
    BY <1>1, Zenon DEF Usage
  <1>8. Told'
    BY <1>1, <1>4, <1>6, <1>7, Zenon DEF Told, Asked
  <1> QED
    BY <1>1, <1>8, Zenon DEF ShellInv

\* It finds one, which may be the last.
LEMMA FindStepKeepsShellInv ==
    ASSUME disk \in Disks, ShellInv, FindStep
    PROVE  ShellInv'
  <1>1. /\ at = "find" /\ s <= Len(path) /\ file.type = "dir" /\ Matches # {}
        /\ file' = file.entries[Min(Matches)]
        /\ IF sep > Len(path) THEN at' = "found" ELSE s' = sep + 1 /\ sep' = Slash(path, sep + 1) /\ at' = at
        /\ UNCHANGED <<disk, command, path, answer, message>>
    BY DEF FindStep, Searching, mount
  <1>2. FindInv
    BY <1>1 DEF ShellInv
  <1>3. PICK n \in Nat : n < Depth(path) /\ FindsAt(n)
    BY <1>2 DEF FindInv
  <1>4. Asked
    BY <1>2 DEF FindInv
  <1>5. /\ sep = CutAt(path, n + 1)
        /\ Mirrors(disk, file', Reached(disk, path, n + 1))
        /\ Reached(disk, path, n + 1).kind # "end"
    BY <1>1, <1>3, <1>4, FindsComponent
  <1>6. path \in Seq(STRING) /\ Depth(path) \in Nat /\ Len(path) \in Nat
    BY <1>4, PathAssumption, CutsType, Zenon DEF Asked
  <1>7. n + 1 \in Nat /\ n + 1 \in 0..Depth(path) /\ n + 1 # 0
    BY <1>3, <1>6
  <1>8. sep \in 1..Len(path) + 1 /\ (sep = Len(path) + 1 <=> n + 1 = Depth(path))
    BY <1>5, <1>6, <1>7, CutAtType, LastCut
  <1>9. Asked'
    BY <1>1, <1>4, Zenon DEF Asked
  <1>10. CASE sep > Len(path)
    <2>1. n + 1 = Depth(path)
      BY <1>6, <1>8, <1>10
    <2>2. Named(disk, path) = Reached(disk, path, n + 1)
      BY <2>1 DEF Named
    <2>3. FoundInv'
      BY <1>1, <1>5, <1>9, <2>2 DEF FoundInv
    <2> QED
      BY <1>1, <1>10, <2>3 DEF ShellInv, Answered
  <1>11. CASE ~ (sep > Len(path))
    <2>1. n + 1 < Depth(path)
      BY <1>6, <1>7, <1>8, <1>11
    <2>2. FindsAt(n + 1)'
      BY <1>1, <1>5, <1>7, <1>11 DEF FindsAt
    <2>3. FindInv'
      BY <1>1, <1>7, <1>9, <2>1, <2>2 DEF FindInv
    <2> QED
      BY <1>1, <1>11, <2>3 DEF ShellInv, Answered
  <1> QED
    BY <1>10, <1>11

\* There is nothing after the last slash.
LEMMA FindEndsKeepsShellInv ==
    ASSUME disk \in Disks, ShellInv, FindEnds
    PROVE  ShellInv'
  <1>1. /\ at = "find" /\ s > Len(path)
        /\ IF file.type = "dir" THEN at' = "found" /\ message' = message
           ELSE at' = "prompt" /\ message' = "Not a directory"
        /\ UNCHANGED <<disk, command, path, file, answer>>
    BY Zenon DEF FindEnds, Refuse, mount, shell
  <1>2. FindInv
    BY <1>1, Zenon DEF ShellInv
  <1>3. PICK n \in Nat : n < Depth(path) /\ FindsAt(n)
    BY <1>2 DEF FindInv
  <1>4. Asked
    BY <1>2 DEF FindInv
  <1> DEFINE e == Reached(disk, path, n)
  <1>5. e \in Found /\ e.kind # "end" /\ Mirrors(disk, file, e) /\ s = CutAt(path, n) + 1
    BY <1>3, ReachedFacts DEF FindsAt
  <1>6. path \in Seq(STRING) /\ Depth(path) \in Nat /\ Len(path) \in Nat
    BY <1>4, PathAssumption, CutsType, Zenon DEF Asked
  <1>7. n \in 0..Depth(path) /\ n + 1 \in 0..Depth(path)
    BY <1>3, <1>6
  <1>8. CutAt(path, n) = Len(path)
    <2>1. CutAt(path, n) \in 1..Len(path) + 1
      BY <1>6, <1>7, CutAtType
    <2>2. CutAt(path, n) # Len(path) + 1
      BY <1>3, <1>6, <1>7, LastCut
    <2>3. s = CutAt(path, n) + 1 /\ s > Len(path)
      BY <1>1, <1>5, Zenon
    <2> DEFINE x == CutAt(path, n)
    <2> HIDE DEF x
    <2>4. x \in 1..Len(path) + 1 /\ x # Len(path) + 1 /\ x + 1 > Len(path)
      BY <2>1, <2>2, <2>3 DEF x
    <2>5. x = Len(path)
      BY <1>6, <2>4
    <2> QED
      BY <2>5 DEF x
  <1>9. CutAt(path, n + 1) = Len(path) + 1 /\ n + 1 = Depth(path)
    <2>1. CutAt(path, n) < CutAt(path, n + 1)
      BY <1>3, <1>6, CutsGrow
    <2>2. CutAt(path, n + 1) \in 1..Len(path) + 1
      BY <1>6, <1>7, CutAtType
    <2>3. CutAt(path, n + 1) = Len(path) + 1
      BY <1>6, <1>8, <2>1, <2>2
    <2> QED
      BY <1>6, <1>7, <2>3, LastCut
  <1>10. Component(path, n + 1) = << >>
    <2>1. Component(path, n + 1) = SubSeq(path, Len(path) + 1, Len(path) + 1 - 1)
      BY <1>8, <1>9, ComponentIs
    <2> QED
      BY <1>6, <2>1
  <1>11. Named(disk, path) = Below(disk, e, Component(path, n + 1), n + 1 = Depth(path))
    BY <1>9, ReachedFacts DEF Named
  <1>12. file.type = e.kind
    <2> HIDE DEF e
    <2>1. Says(disk, file, e)
      BY <1>5, MirrorsBelow
    <2> QED
      BY <2>1 DEF Says
  <1> DEFINE last == n + 1 = Depth(path)
             word == Component(path, n + 1)
  <1>13. Named(disk, path) = IF e.kind = "dir" THEN e ELSE Nothing
    <2>1. last /\ word = << >> /\ Named(disk, path) = Below(disk, e, word, last)
      BY <1>9, <1>10, <1>11
    <2> HIDE DEF e, last, word
    <2>2. e.kind = "dir" => Below(disk, e, word, last) = e
      BY <1>5, <2>1, BelowIs, Zenon
    <2>3. e.kind # "dir" => Below(disk, e, word, last) = Nothing
      BY <1>5, BelowIs, Zenon
    <2> QED
      BY <2>1, <2>2, <2>3
  <1> HIDE DEF e
  <1>14. CASE e.kind = "dir"
    <2>1. FoundInv'
      BY <1>1, <1>4, <1>5, <1>12, <1>13, <1>14, Zenon DEF FoundInv, Asked
    <2> QED
      BY <1>1, <1>12, <1>14, <2>1 DEF ShellInv, Answered
  <1>15. CASE e.kind # "dir"
    <2>1. Named(disk', path').kind = "end"
      BY <1>1, <1>13, <1>15, FoundFields, Zenon
    <2>2. at' = "prompt" /\ message' = "Not a directory"
      BY <1>1, <1>12, <1>15, Zenon
    <2>3. message' \notin {"", Usage}
      BY <2>2, Zenon DEF Usage
    <2>4. Told'
      BY <1>1, <1>4, <2>1, <2>3, Zenon DEF Told, Asked
    <2> QED
      BY <2>2, <2>4, Zenon DEF ShellInv
  <1> QED
    BY <1>14, <1>15

\* cat prints the file, ls its size.
LEMMA AnswersKeepShellInv ==
    ASSUME disk \in Disks, ShellInv, Cat \/ Ls
    PROVE  ShellInv'
  <1> DEFINE e == Named(disk, path)
  <1>1. at = "found" /\ UNCHANGED <<disk, command, path>>
    BY Zenon DEF Cat, Ls, Refuse, mount
  <1>2. FoundInv /\ Asked
    BY <1>1 DEF ShellInv, FoundInv
  <1>3. e' = e
    BY <1>1
  <1>4. e \in Found /\ e.kind \in {"file", "dir"} /\ Mirrors(disk, file, e)
    <2>1. path \in Seq(STRING) /\ Depth(path) \in Nat
      BY <1>2, PathAssumption, CutsType, Zenon DEF Asked
    <2>2. e \in Found
      BY <2>1, ReachedFacts DEF Named
    <2>3. e.kind # "end" /\ Mirrors(disk, file, e)
      BY <1>2 DEF FoundInv
    <2> HIDE DEF e
    <2> QED
      BY <2>2, <2>3, FoundFields
  <1> HIDE DEF e
  <1>5. Says(disk, file, e)
    BY <1>4, MirrorsBelow
  <1>6. /\ file.type = e.kind
        /\ e.kind = "file" => /\ file.size = e.size
                              /\ file.data = [u \in 1..e.size |-> UnitOf(disk, e.first, u - 1)]
    BY <1>5 DEF Says
  <1>7. CASE e.kind = "file"
    <2>1. /\ at' = "prompt" /\ message' = message
          /\ answer' = IF command = "cat" THEN file.data ELSE <<[path |-> path, size |-> file.size]>>
      BY <1>6, <1>7 DEF Cat, Ls
    <2>2. Told'
      <3>1. /\ command' \in {"ls", "cat"}
            /\ IF command' = "cat" THEN message' \in {"", Usage} ELSE message' = ""
            /\ answer' = IF command' = "cat"
                         THEN [u \in 1..e.size |-> UnitOf(disk, e.first, u - 1)]
                         ELSE <<[path |-> path, size |-> e.size]>>
        BY <1>1, <1>2, <1>6, <1>7, <2>1, Zenon DEF Asked
      <3>2. Named(disk', path') = e /\ path' \in Paths
        BY <1>1, <1>2, Zenon DEF e, Asked
      <3> QED
        BY <1>1, <1>7, <3>1, <3>2, Zenon DEF Told
    <2> QED
      BY <2>1, <2>2 DEF ShellInv
  <1>8. CASE e.kind = "dir"
    <2>1. Named(disk', path') = e
      BY <1>1 DEF e
    <2>2. CASE command = "cat"
      <3>1. at' = "prompt" /\ message' = "Not a regular file" /\ answer' = answer
        BY <1>6, <1>8, <2>2, Zenon DEF Cat, Ls, Refuse
      <3>2. message' \notin {"", Usage}
        BY <3>1, Zenon DEF Usage
      <3>3. Told'
        BY <1>1, <1>2, <1>8, <2>1, <2>2, <3>1, <3>2, Zenon DEF Told, Asked
      <3> QED
        BY <3>1, <3>3, Zenon DEF ShellInv
    <2>3. CASE command = "ls"
      <3>1. at' = "list" /\ message' = message
        BY <1>6, <1>8, <2>3 DEF Cat, Ls
      <3>2. Lists'
        BY <1>1, <1>2, <1>8, <2>1, <2>3, <3>1, Zenon DEF Lists, Asked
      <3> QED
        BY <3>1, <3>2 DEF ShellInv, Answered
    <2> QED
      BY <1>2, <2>2, <2>3, Zenon DEF Asked
  <1> QED
    BY <1>4, <1>7, <1>8

\* The listing of a directory changes nothing of this.
LEMMA ListingKeepsShellInv ==
    ASSUME ShellInv, ListBelow \/ ListEnds
    PROVE  ShellInv'
  <1>1. /\ at = "list" /\ at' \in {"list", "prompt"}
        /\ UNCHANGED <<disk, command, path, message>>
    BY Zenon DEF ListBelow, ListEnds, Listing, mount
  <1>2. Lists
    BY <1>1 DEF ShellInv
  <1>3. Lists'
    BY <1>1, <1>2, Zenon DEF Lists
  <1>4. Told'
    BY <1>3, Zenon DEF Lists, Told
  <1> QED
    BY <1>1, <1>3, <1>4 DEF ShellInv

\* A line that is no ls or cat of a path has no answer, and neither has a
\* tree that is being read.
LEMMA OthersKeepShellInv ==
    ASSUME ShellInv, Quit \/ TypeTooLittle \/ TypeInvalid \/ UNCHANGED vars
    PROVE  ShellInv'
  <1>1. CASE TypeInvalid
    <2>1. at' = "prompt" /\ path' = << >>
      BY <1>1, Zenon DEF TypeInvalid
    <2> QED
      BY <2>1 DEF ShellInv, Answered, IsAbsolute
  <1>2. CASE Quit \/ TypeTooLittle
    <2>1. at' \in {"end", "crashed"}
      BY <1>2 DEF Quit, TypeTooLittle
    <2> QED
      BY <2>1 DEF ShellInv, Answered
  <1>3. CASE UNCHANGED vars
    <2>1. UNCHANGED <<disk, at, command, path, s, sep, file, answer, message>>
      BY <1>3 DEF vars
    <2> QED
      BY <2>1, Zenon DEF ShellInv, Answered, FindInv, FoundInv, Asked, FindsAt, Told, Lists
  <1> QED
    BY <1>1, <1>2, <1>3

\* Nothing has been asked before the tree has been read.
LEMMA ReadsKeepShellInv ==
    ASSUME at = "scan" => path = << >>, at \in {"size", "copy"} => path = << >>, Reads
    PROVE  ShellInv' /\ path' = << >>
  <1>1. /\ at \in {"scan", "size", "copy"} /\ at' \in {"scan", "size", "copy", "prompt", "crashed"}
        /\ path' = path
    BY DEF Reads, DirEnds, Skip, ReadEntry, SizeStep, SizeEnds, CopyStep, CopyFaults, CopyEnds,
           Scanning, Copying, shell
  <1> QED
    BY <1>1 DEF ShellInv, Answered, IsAbsolute

-----------------------------------------------------------------------------

\* On a disk all of whose clusters are counted the tree is what is on it.
LabInv ==
    /\ disk \in Disks
    /\ at \in {"scan", "size", "copy"} => path = << >>
    /\ CountsAllClusters => ReadInv /\ ShellInv

\* It holds when the program starts.
LEMMA StartedLabInv == Started => LabInv
  <1> SUFFICES ASSUME Started PROVE LabInv
    OBVIOUS
  <1>1. disk \in Disks /\ ReadInv
    BY StartedReads
  <1>2. at = "scan" /\ path = << >>
    BY Zenon DEF Started
  <1>3. ShellInv
    BY <1>2 DEF ShellInv, Answered
  <1> QED
    BY <1>1, <1>2, <1>3 DEF LabInv

\* Every step keeps it.
LEMMA StepKeepsLabInv == LabInv /\ [Step]_vars => LabInv'
  <1> SUFFICES ASSUME LabInv, [Step]_vars PROVE LabInv'
    OBVIOUS
  <1>1. disk \in Disks /\ disk' = disk
    BY Zenon DEF LabInv, Step, Reads, Types, Answers, DirEnds, Skip, ReadEntry, SizeStep, SizeEnds,
           CopyStep, CopyFaults, CopyEnds, Quit, TypeTooLittle, TypeInvalid, Type, NoSuchFile, FindStep,
           FindEnds, Cat, Ls, ListBelow, ListEnds, Refuse, mount, vars
  <1>2. at' \in {"scan", "size", "copy"} => path' = << >>
    <2>1. CASE Reads
      BY <2>1 DEF LabInv, Reads, DirEnds, Skip, ReadEntry, SizeStep, SizeEnds, CopyStep,
                  CopyFaults, CopyEnds, Scanning, Copying, shell
    <2>2. CASE Types \/ Answers
      BY <2>2, Zenon DEF Types, Answers, Quit, TypeTooLittle, TypeInvalid, Type, NoSuchFile, FindStep,
                  FindEnds, Cat, Ls, ListBelow, ListEnds, Refuse, Searching, Listing, mount
    <2>3. CASE UNCHANGED vars
      BY <2>3 DEF LabInv, vars
    <2> QED
      BY <2>1, <2>2, <2>3 DEF Step
  <1>3. ASSUME CountsAllClusters' PROVE ReadInv' /\ ShellInv'
    <2>1. CountsAllClusters /\ CountsAll(disk)
      BY <1>1, <1>3 DEF CountsAllClusters, CountsAll
    <2>2. ReadInv /\ ShellInv
      BY <2>1 DEF LabInv
    <2>3. CASE Reads
      <3>1. ReadInv'
        BY <1>1, <2>1, <2>2, <2>3, SkipKeepsReadInv, ReadEntryKeepsReadInv, SizeStepKeepsReadInv,
           SizeEndsKeepsReadInv, CopyStepKeepsReadInv, CopyFaultsKeepsReadInv,
           CopyEndsKeepsReadInv, DirEndsKeepsReadInv
           DEF Reads
      <3>2. ShellInv'
        <4>1. (at = "scan" => path = << >>) /\ (at \in {"size", "copy"} => path = << >>)
          BY DEF LabInv
        <4> QED
          BY <2>3, <4>1, ReadsKeepShellInv
      <3> QED
        BY <3>1, <3>2
    <2>4. CASE Types \/ Answers \/ UNCHANGED vars
      <3>1. ReadInv'
        BY <2>2, <2>4, ShellKeepsReadInv
      <3>2. ShellInv'
        BY <1>1, <2>2, <2>4, TypeKeepsShellInv, NoSuchFileKeepsShellInv, FindStepKeepsShellInv,
           FindEndsKeepsShellInv, AnswersKeepShellInv, ListingKeepsShellInv, OthersKeepShellInv
           DEF Types, Answers
      <3> QED
        BY <3>1, <3>2
    <2> QED
      BY <2>3, <2>4 DEF Step
  <1> QED
    BY <1>1, <1>2, <1>3 DEF LabInv

\* cat prints the file that its path names, whatever is on the disk.
THEOREM CatPrints == Shell => []CatPrintsTheFile
  <1>1. LabInv => CatPrintsTheFile
    <2> SUFFICES ASSUME LabInv, Answered, command = "cat", CountsAllClusters
                 PROVE  LET e == Named(disk, path)
                        IN  IF e.kind = "file"
                            THEN /\ answer = [u \in 1..e.size |-> UnitOf(disk, e.first, u - 1)]
                                 /\ message \in {"", Usage}
                            ELSE answer = << >> /\ message \notin {"", Usage}
      BY Zenon DEF CatPrintsTheFile
    <2>1. Told
      BY DEF LabInv, ShellInv
    <2> DEFINE e == Named(disk, path)
    <2>2. e.kind \in {"file", "dir", "end"}
      <3>1. path \in Seq(STRING) /\ Depth(path) \in Nat
        BY <2>1, PathAssumption, CutsType, Zenon DEF Told
      <3>2. e \in Found
        BY <3>1, ReachedFacts DEF LabInv, Named
      <3> HIDE DEF e
      <3> QED
        BY <3>2, FoundFields
    <2> QED
      BY <2>1, <2>2, Zenon DEF Told
  <1> QED
    BY <1>1, StartedLabInv, StepKeepsLabInv, PTL DEF Shell

-----------------------------------------------------------------------------
(* Paths that name directories *)

\* The path q begins with the path p.
Starts(p, q) == Len(p) <= Len(q) /\ \A pos \in 1..Len(p) : q[pos] = p[pos]

\* A path that begins and ends with a slash.
DirPath(p) == p \in Seq(STRING) /\ IsAbsolute(p) /\ p[Len(p)] = "/"

\* The path of a directory in the directory of a path.
BelowPath(p, name) == p \o name \o <<"/">>

\* What a path is with a name and a slash after it.
LEMMA BelowPathIs ==
    ASSUME NEW p, DirPath(p), NEW name \in Name
    PROVE  /\ Len(p) \in Nat \ {0} /\ Len(name) \in Nat \ {0}
           /\ DirPath(BelowPath(p, name))
           /\ Len(BelowPath(p, name)) = Len(p) + Len(name) + 1
           /\ Starts(p, BelowPath(p, name))
           /\ \A pos \in 1..Len(name) : BelowPath(p, name)[Len(p) + pos] = name[pos]
           /\ \A pos \in 1..Len(name) : name[pos] # "/"
  <1> DEFINE q == BelowPath(p, name)
  <1>1. /\ p \in Seq(STRING) /\ Len(p) \in Nat \ {0} /\ p[1] = "/" /\ p[Len(p)] = "/"
    BY CutsType DEF DirPath, IsAbsolute
  <1>2. name \in Seq(STRING) /\ Len(name) \in Nat \ {0}
    BY DEF Name
  <1>3. \A pos \in 1..Len(name) : name[pos] # "/"
    BY <1>2 DEF Name, Range
  <1>4. q \in Seq(STRING) /\ Len(q) = Len(p) + Len(name) + 1
    BY <1>1, <1>2 DEF BelowPath
  <1>5. \A pos \in 1..Len(p) : q[pos] = p[pos]
    BY <1>1, <1>2 DEF BelowPath
  <1>6. \A pos \in 1..Len(name) : q[Len(p) + pos] = name[pos]
    BY <1>1, <1>2 DEF BelowPath
  <1>7. q[Len(q)] = "/"
    BY <1>1, <1>2, <1>4 DEF BelowPath
  <1> HIDE DEF q
  <1>8. Starts(p, q) /\ DirPath(q)
    <2>1. q[1] = "/" /\ q # << >>
      BY <1>1, <1>2, <1>4, <1>5
    <2> QED
      BY <1>1, <1>2, <1>4, <1>5, <1>7, <2>1 DEF Starts, DirPath, IsAbsolute
  <1> QED
    BY <1>1, <1>2, <1>3, <1>4, <1>6, <1>8 DEF q

\* A path begins with what its beginning begins with.
LEMMA StartsWithin ==
    ASSUME NEW p \in Seq(STRING), NEW q \in Seq(STRING), NEW r \in Seq(STRING),
           Starts(p, q), Starts(q, r)
    PROVE  Starts(p, r)
  <1>1. Len(p) \in Nat /\ Len(q) \in Nat /\ Len(r) \in Nat
    OBVIOUS
  <1>2. \A pos \in 1..Len(p) : pos \in 1..Len(q)
    BY <1>1 DEF Starts
  <1> QED
    BY <1>1, <1>2 DEF Starts

\* A path goes on in one way only.
LEMMA SameName ==
    ASSUME NEW p, DirPath(p), NEW x \in Name, NEW y \in Name, NEW r \in Seq(STRING),
           Starts(BelowPath(p, x), r), Starts(BelowPath(p, y), r)
    PROVE  x = y
  <1> DEFINE l == Len(p)
             lx == Len(x)
             ly == Len(y)
  <1>1. /\ l \in Nat /\ lx \in Nat /\ ly \in Nat
        /\ BelowPath(p, x)[l + lx + 1] = "/" /\ BelowPath(p, y)[l + ly + 1] = "/"
        /\ Len(BelowPath(p, x)) = l + lx + 1 /\ Len(BelowPath(p, y)) = l + ly + 1
    <2>1. /\ Len(p) \in Nat /\ Len(x) \in Nat /\ DirPath(BelowPath(p, x))
          /\ Len(BelowPath(p, x)) = Len(p) + Len(x) + 1
      BY BelowPathIs
    <2>2. /\ Len(y) \in Nat /\ DirPath(BelowPath(p, y))
          /\ Len(BelowPath(p, y)) = Len(p) + Len(y) + 1
      BY BelowPathIs
    <2> QED
      BY <2>1, <2>2 DEF DirPath
  <1>2. /\ \A pos \in 1..lx : BelowPath(p, x)[l + pos] = x[pos] /\ x[pos] # "/"
        /\ \A pos \in 1..ly : BelowPath(p, y)[l + pos] = y[pos] /\ y[pos] # "/"
    BY BelowPathIs
  <1>3. x \in Seq(STRING) /\ y \in Seq(STRING)
    BY DEF Name
  <1> HIDE DEF l, lx, ly
  <1>4. /\ r[l + lx + 1] = "/" /\ r[l + ly + 1] = "/"
        /\ \A pos \in 1..lx : r[l + pos] = x[pos]
        /\ \A pos \in 1..ly : r[l + pos] = y[pos]
    <2>1. \A pos \in 1..l + lx + 1 : r[pos] = BelowPath(p, x)[pos]
      BY <1>1 DEF Starts
    <2>2. \A pos \in 1..l + ly + 1 : r[pos] = BelowPath(p, y)[pos]
      BY <1>1 DEF Starts
    <2>3. l + lx + 1 \in 1..l + lx + 1 /\ l + ly + 1 \in 1..l + ly + 1
      BY <1>1
    <2>4. \A pos \in 1..lx : l + pos \in 1..l + lx + 1
      BY <1>1
    <2>5. \A pos \in 1..ly : l + pos \in 1..l + ly + 1
      BY <1>1
    <2> QED
      BY <1>1, <1>2, <2>1, <2>2, <2>3, <2>4, <2>5
  <1>5. ~ (lx < ly)
    <2> SUFFICES ASSUME lx < ly PROVE FALSE
      OBVIOUS
    <2>1. lx + 1 \in 1..ly /\ l + (lx + 1) = l + lx + 1
      BY <1>1
    <2> QED
      BY <1>2, <1>4, <2>1
  <1>6. ~ (ly < lx)
    <2> SUFFICES ASSUME ly < lx PROVE FALSE
      OBVIOUS
    <2>1. ly + 1 \in 1..lx /\ l + (ly + 1) = l + ly + 1
      BY <1>1
    <2> QED
      BY <1>2, <1>4, <2>1
  <1>7. lx = ly
    BY <1>1, <1>5, <1>6
  <1>8. \A pos \in 1..lx : x[pos] = y[pos]
    BY <1>4, <1>7
  <1> QED
    BY <1>3, <1>7, <1>8 DEF lx, ly

\* Paths that are the same up to a cut of both have the same cuts up to it.
LEMMA SameCuts ==
    ASSUME NEW p \in Seq(STRING), NEW q \in Seq(STRING), NEW m \in Cuts(p) \cap Cuts(q),
           \A pos \in 1..m - 1 : p[pos] = q[pos]
    PROVE  /\ Rank(Cuts(p), m) = Rank(Cuts(q), m)
           /\ \A n \in 0..Rank(Cuts(p), m) : CutAt(p, n) = CutAt(q, n)
           /\ \A n \in 0..Rank(Cuts(p), m) - 1 : Component(p, n + 1) = Component(q, n + 1)
  <1>1. /\ Len(p) \in Nat /\ Len(q) \in Nat /\ m \in 1..Len(p) + 1 /\ m \in 1..Len(q) + 1
        /\ DOMAIN p = 1..Len(p) /\ DOMAIN q = 1..Len(q)
        /\ Cuts(p) \in SUBSET Int /\ IsFiniteSet(Cuts(p)) /\ Cuts(q) \in SUBSET Int
        /\ IsFiniteSet(Cuts(q))
    BY CutsType
  <1>2. \A l \in 1..m - 1 : l \in Cuts(p) <=> l \in Cuts(q)
    BY <1>1 DEF Cuts
  <1>3. \A l \in Cuts(p) : l < m => l \in Cuts(q)
    BY <1>1, <1>2, CutsType
  <1>4. \A l \in Cuts(q) : l < m => l \in Cuts(p)
    BY <1>1, <1>2, CutsType
  <1>5. \A l \in Cuts(p) : l <= m => /\ l \in Cuts(q)
                                     /\ {pos \in Cuts(p) : pos < l} = {pos \in Cuts(q) : pos < l}
    <2> SUFFICES ASSUME NEW l \in Cuts(p), l <= m
                 PROVE  /\ l \in Cuts(q)
                        /\ {pos \in Cuts(p) : pos < l} = {pos \in Cuts(q) : pos < l}
      OBVIOUS
    <2>1. l \in Cuts(q)
      BY <1>1, <1>3
    <2>2. \A pos \in Cuts(p) : pos < l => pos < m
      BY <1>1
    <2>3. \A pos \in Cuts(q) : pos < l => pos < m
      BY <1>1
    <2> QED
      BY <1>3, <1>4, <2>1, <2>2, <2>3
  <1>6. \A l \in Cuts(p) : l <= m => l \in Cuts(q) /\ Rank(Cuts(p), l) = Rank(Cuts(q), l)
    BY <1>5 DEF Rank
  <1>7. Rank(Cuts(p), m) = Rank(Cuts(q), m)
    BY <1>1, <1>6
  <1>8. ASSUME NEW n \in 0..Rank(Cuts(p), m) PROVE CutAt(p, n) = CutAt(q, n)
    <2> DEFINE l == CutAt(p, n)
    <2>1. Rank(Cuts(p), m) \in 0..Depth(p) /\ Depth(p) \in Nat
      BY CutOfRank, CutsType
    <2>2. l \in Cuts(p) /\ Rank(Cuts(p), l) = n
      <3>1. n \in 0..Depth(p)
        BY <1>8, <2>1
      <3> QED
        BY <3>1, CutAtType
    <2> HIDE DEF l
    <2>3. l <= m
      <3> SUFFICES ASSUME m < l PROVE FALSE
        BY <1>1, <2>2
      <3>1. l \in Int
        BY <1>1, <2>2
      <3>2. Rank(Cuts(p), m) < Rank(Cuts(p), l)
        BY <1>1, <3>1, RankGrows
      <3> QED
        BY <1>8, <2>1, <2>2, <3>2
    <2>4. l \in Cuts(q) /\ Rank(Cuts(q), l) = n
      BY <1>6, <2>2, <2>3
    <2>5. CutAt(q, n) = l
      BY <2>4, CutOfRank
    <2> QED
      BY <2>5 DEF l
  <1>9. ASSUME NEW n \in 0..Rank(Cuts(p), m) - 1 PROVE Component(p, n + 1) = Component(q, n + 1)
    <2>1. Rank(Cuts(p), m) \in 0..Depth(p) /\ Depth(p) \in Nat
      BY CutOfRank, CutsType
    <2>2. n \in Nat /\ n \in 0..Rank(Cuts(p), m) /\ n + 1 \in 0..Rank(Cuts(p), m)
      BY <1>9, <2>1
    <2>3. CutAt(p, n) = CutAt(q, n) /\ CutAt(p, n + 1) = CutAt(q, n + 1)
      BY <1>8, <2>2
    <2>4. \A pos \in CutAt(p, n) + 1..CutAt(p, n + 1) - 1 : pos \in 1..m - 1
      <3>1. CutAt(p, n + 1) \in Cuts(p) /\ Rank(Cuts(p), CutAt(p, n + 1)) = n + 1
            /\ CutAt(p, n) \in 1..Len(p) + 1
        <4>1. n \in 0..Depth(p) /\ n + 1 \in 0..Depth(p)
          BY <2>1, <2>2
        <4> QED
          BY <4>1, CutAtType
      <3> DEFINE l == CutAt(p, n + 1)
      <3>2. l \in Cuts(p) /\ Rank(Cuts(p), l) = n + 1
        BY <3>1
      <3> HIDE DEF l
      <3>3. l <= m
        <4> SUFFICES ASSUME m < l PROVE FALSE
          BY <1>1, <3>2
        <4>1. l \in Int
          BY <1>1, <3>2
        <4>2. Rank(Cuts(p), m) < Rank(Cuts(p), l)
          BY <1>1, <4>1, RankGrows
        <4> QED
          BY <2>1, <2>2, <3>2, <4>2
      <3>4. CutAt(p, n + 1) = l
        BY DEF l
      <3> QED
        BY <1>1, <3>1, <3>2, <3>3, <3>4
    <2> DEFINE x == CutAt(p, n) + 1
               y == CutAt(p, n + 1) - 1
    <2>5. /\ Component(p, n + 1) = SubSeq(p, x, y)
          /\ Component(q, n + 1) = SubSeq(q, x, y)
      BY <2>2, <2>3, ComponentIs
    <2>6. x \in Int /\ y \in Int
      <3>1. n \in 0..Depth(p) /\ n + 1 \in 0..Depth(p)
        BY <2>1, <2>2
      <3>2. CutAt(p, n) \in 1..Len(p) + 1 /\ CutAt(p, n + 1) \in 1..Len(p) + 1
        BY <3>1, CutAtType
      <3> QED
        BY <1>1, <3>2
    <2>7. \A pos \in x..y : p[pos] = q[pos]
      BY <2>4
    <2> HIDE DEF x, y
    <2>8. SubSeq(p, x, y) = SubSeq(q, x, y)
      <3>1. CASE x <= y
        <4>1. x \in x..y /\ y \in x..y
          BY <2>6, <3>1
        <4>2. x \in 1..m - 1 /\ y \in 1..m - 1
          BY <2>4, <4>1 DEF x, y
        <4>3. x \in 1..Len(p) /\ y \in 1..Len(p) /\ x \in 1..Len(q) /\ y \in 1..Len(q)
          BY <1>1, <4>2
        <4>4. /\ SubSeq(p, x, y) \in Seq(STRING) /\ Len(SubSeq(p, x, y)) = y - x + 1
              /\ \A pos \in 1..y - x + 1 : SubSeq(p, x, y)[pos] = p[x + pos - 1]
          BY <3>1, <4>3
        <4>5. /\ SubSeq(q, x, y) \in Seq(STRING) /\ Len(SubSeq(q, x, y)) = y - x + 1
              /\ \A pos \in 1..y - x + 1 : SubSeq(q, x, y)[pos] = q[x + pos - 1]
          BY <3>1, <4>3
        <4>6. \A pos \in 1..y - x + 1 : x + pos - 1 \in x..y
          BY <2>6
        <4>7. \A pos \in 1..y - x + 1 : SubSeq(p, x, y)[pos] = SubSeq(q, x, y)[pos]
          BY <2>7, <4>4, <4>5, <4>6
        <4> QED
          BY <4>4, <4>5, <4>7, SMTT(30)
      <3>2. CASE y < x
        BY <2>6, <3>2
      <3> QED
        BY <2>6, <3>1, <3>2
    <2> QED
      BY <2>5, <2>8
  <1> QED
    BY <1>7, <1>8, <1>9

\* The same components lead to the same place.
LEMMA SameReached ==
    ASSUME NEW d \in Disks, NEW p, NEW q, NEW n \in Nat, n < Depth(p), n < Depth(q),
           Depth(p) \in Nat, Depth(q) \in Nat,
           \A l \in 0..n - 1 : Component(p, l + 1) = Component(q, l + 1)
    PROVE  Reached(d, p, n) = Reached(d, q, n)
  <1> DEFINE S == {l \in Nat : l <= n => Reached(d, p, l) = Reached(d, q, l)}
  <1>1. 0 \in S
    BY ReachedFacts
  <1>2. \A l \in Nat : l \in S => l + 1 \in S
    <2> SUFFICES ASSUME NEW l \in Nat, l \in S, l + 1 <= n
                 PROVE  Reached(d, p, l + 1) = Reached(d, q, l + 1)
      OBVIOUS
    <2>1. Reached(d, p, l) = Reached(d, q, l)
      OBVIOUS
    <2>2. Component(p, l + 1) = Component(q, l + 1)
      OBVIOUS
    <2>3. (l + 1 = Depth(p)) = FALSE /\ (l + 1 = Depth(q)) = FALSE
      OBVIOUS
    <2>4. Reached(d, p, l + 1) = Below(d, Reached(d, p, l), Component(p, l + 1), l + 1 = Depth(p))
      BY ReachedFacts
    <2>5. Reached(d, q, l + 1) = Below(d, Reached(d, q, l), Component(q, l + 1), l + 1 = Depth(q))
      BY ReachedFacts
    <2> QED
      BY <2>1, <2>2, <2>3, <2>4, <2>5
  <1> HIDE DEF S
  <1>3. n \in S
    BY <1>1, <1>2, NatSetInduction
  <1> QED
    BY <1>3 DEF S

\* A cut that is directly followed by another.
LEMMA CutAfter ==
    ASSUME NEW p \in Seq(STRING), NEW n \in 0..Depth(p), NEW m \in Cuts(p), CutAt(p, n) < m,
           \A l \in Cuts(p) : CutAt(p, n) < l => m <= l
    PROVE  n < Depth(p) /\ CutAt(p, n + 1) = m
  <1>1. /\ Len(p) \in Nat /\ Depth(p) \in Nat /\ \A l \in Cuts(p) : l \in 1..Len(p) + 1
    BY CutsType
  <1>2. CutAt(p, n) # Len(p) + 1
    BY <1>1, CutAtType
  <1>3. n # Depth(p)
    BY <1>2, LastCut
  <1>4. n < Depth(p) /\ n \in Nat /\ n + 1 \in 0..Depth(p)
    BY <1>1, <1>3
  <1>5. CutAt(p, n + 1) <= m /\ CutAt(p, n) < CutAt(p, n + 1)
    BY <1>4, CutsGrow
  <1>6. CutAt(p, n + 1) \in Cuts(p)
    BY <1>4, CutAtType
  <1>7. m <= CutAt(p, n + 1)
    BY <1>5, <1>6
  <1> QED
    BY <1>1, <1>4, <1>5, <1>6, <1>7

\* A name that no slash follows or that is not empty is looked for.
LEMMA BelowByName ==
    ASSUME NEW d \in Disks, NEW e \in Found, NEW name
    PROVE  /\ name # << >> => Below(d, e, name, TRUE) = Below(d, e, name, FALSE)
           /\ Below(d, e, << >>, TRUE) = IF e.kind = "dir" THEN e ELSE Nothing
  BY DEF Below

\* What a path with a slash at its end names.
LEMMA NamedDirPath ==
    ASSUME NEW d \in Disks, NEW p, DirPath(p)
    PROVE  \E n \in Nat :
             /\ Depth(p) = n + 1 /\ CutAt(p, n) = Len(p) /\ Rank(Cuts(p), Len(p)) = n
             /\ Len(p) \in Cuts(p) /\ Reached(d, p, n) \in Found
             /\ Named(d, p) = IF Reached(d, p, n).kind = "dir" THEN Reached(d, p, n) ELSE Nothing
  <1>1. /\ p \in Seq(STRING) /\ p[Len(p)] = "/" /\ Len(p) \in Nat \ {0} /\ Depth(p) \in Nat
        /\ DOMAIN p = 1..Len(p) /\ \A l \in Cuts(p) : l \in 1..Len(p) + 1
    BY FirstCut, CutsType DEF DirPath
  <1>2. Len(p) \in Cuts(p) /\ Len(p) + 1 \in Cuts(p)
    <2>1. Len(p) \in DOMAIN p
      BY <1>1
    <2> QED
      BY <1>1, <2>1, Zenon DEF Cuts
  <1> DEFINE n == Rank(Cuts(p), Len(p))
  <1>3. n \in 0..Depth(p) /\ CutAt(p, n) = Len(p)
    BY <1>1, <1>2, CutOfRank
  <1> HIDE DEF n
  <1>4. n < Depth(p) /\ CutAt(p, n + 1) = Len(p) + 1
    <2>1. CutAt(p, n) < Len(p) + 1 /\ \A l \in Cuts(p) : CutAt(p, n) < l => Len(p) + 1 <= l
      BY <1>1, <1>3
    <2> QED
      BY <1>1, <1>2, <1>3, <2>1, CutAfter
  <1>5. n \in Nat /\ n + 1 = Depth(p)
    <2>1. n \in Nat /\ n + 1 \in 0..Depth(p)
      BY <1>1, <1>3, <1>4
    <2> QED
      BY <1>1, <1>4, <2>1, LastCut
  <1>6. Component(p, n + 1) = << >>
    <2>1. Component(p, n + 1) = SubSeq(p, Len(p) + 1, Len(p) + 1 - 1)
      BY <1>3, <1>4, <1>5, ComponentIs
    <2> QED
      BY <1>1, <2>1
  <1>7. Reached(d, p, n) \in Found
    BY <1>5, ReachedFacts
  <1>8. Named(d, p) = Below(d, Reached(d, p, n), Component(p, n + 1), n + 1 = Depth(p))
    BY <1>5, ReachedFacts DEF Named
  <1>9. (n + 1 = Depth(p)) = TRUE
    BY <1>5
  <1>10. Named(d, p) = Below(d, Reached(d, p, n), << >>, TRUE)
    BY <1>6, <1>8, <1>9
  <1>11. Named(d, p) = IF Reached(d, p, n).kind = "dir" THEN Reached(d, p, n) ELSE Nothing
    BY <1>7, <1>10, BelowByName
  <1> QED
    BY <1>2, <1>3, <1>5, <1>7, <1>11 DEF n

\* A name and a slash lead from a directory to the entry of that name.
LEMMA NamedBelowPath ==
    ASSUME NEW d \in Disks, NEW p, DirPath(p), Named(d, p).kind = "dir", NEW name \in Name
    PROVE  LET got == Below(d, Named(d, p), name, FALSE)
           IN  got \in Found /\ Named(d, BelowPath(p, name)) = IF got.kind = "dir" THEN got ELSE Nothing
  <1> DEFINE q == BelowPath(p, name)
             e == Named(d, p)
             got == Below(d, e, name, FALSE)
  <1>1. /\ p \in Seq(STRING) /\ Len(p) \in Nat \ {0} /\ DOMAIN p = 1..Len(p)
    BY FirstCut, CutsType DEF DirPath
  <1>2. /\ DirPath(q) /\ Len(name) \in Nat \ {0} /\ Len(q) = Len(p) + Len(name) + 1
        /\ Starts(p, q)
        /\ \A pos \in 1..Len(name) : q[Len(p) + pos] = name[pos] /\ name[pos] # "/"
    BY BelowPathIs
  <1>3. q \in Seq(STRING) /\ Len(q) \in Nat /\ DOMAIN q = 1..Len(q) /\ Depth(q) \in Nat
        /\ \A l \in Cuts(q) : l \in 1..Len(q) + 1
    BY <1>2, CutsType DEF DirPath
  <1>4. PICK n \in Nat :
          /\ Depth(p) = n + 1 /\ CutAt(p, n) = Len(p) /\ Rank(Cuts(p), Len(p)) = n
          /\ Len(p) \in Cuts(p) /\ Reached(d, p, n) \in Found
          /\ e = IF Reached(d, p, n).kind = "dir" THEN Reached(d, p, n) ELSE Nothing
    BY NamedDirPath
  <1>5. e = Reached(d, p, n) /\ e \in Found
    <2>1. e.kind = "dir"
      OBVIOUS
    <2> HIDE DEF e
    <2> QED
      BY <1>4, <2>1, FoundFields
  <1> HIDE DEF q, e
  <1>6. PICK nth \in Nat :
          /\ Depth(q) = nth + 1 /\ CutAt(q, nth) = Len(q) /\ Rank(Cuts(q), Len(q)) = nth
          /\ Len(q) \in Cuts(q) /\ Reached(d, q, nth) \in Found
          /\ Named(d, q) = IF Reached(d, q, nth).kind = "dir" THEN Reached(d, q, nth) ELSE Nothing
    BY <1>2, NamedDirPath
  <1>7. \A pos \in 1..Len(p) : p[pos] = q[pos]
    BY <1>2 DEF Starts
  <1>8. Len(p) \in Cuts(q)
    <2>1. q[Len(p)] = "/" /\ Len(p) \in 1..Len(q)
      <3>1. Len(p) \in 1..Len(p) /\ p[Len(p)] = "/"
        BY <1>1 DEF DirPath
      <3> QED
        BY <1>1, <1>2, <1>3, <1>7, <3>1
    <2> QED
      BY <1>3, <2>1 DEF Cuts
  <1>9. /\ Rank(Cuts(q), Len(p)) = n
        /\ \A pos \in 0..n - 1 : Component(p, pos + 1) = Component(q, pos + 1)
    <2>1. Len(p) \in Cuts(p) \cap Cuts(q) /\ \A pos \in 1..Len(p) - 1 : p[pos] = q[pos]
      BY <1>1, <1>4, <1>7, <1>8
    <2> DEFINE m == Len(p)
    <2>2. m \in Cuts(p) \cap Cuts(q) /\ \A pos \in 1..m - 1 : p[pos] = q[pos]
      BY <2>1
    <2>3. Rank(Cuts(p), m) = n
      BY <1>4
    <2> HIDE DEF m
    <2>4. /\ Rank(Cuts(p), m) = Rank(Cuts(q), m)
          /\ \A pos \in 0..Rank(Cuts(p), m) - 1 : Component(p, pos + 1) = Component(q, pos + 1)
      BY <1>1, <1>3, <2>2, SameCuts
    <2> QED
      BY <2>3, <2>4 DEF m
  <1>10. CutAt(q, n) = Len(p) /\ n \in 0..Depth(q)
    BY <1>3, <1>8, <1>9, CutOfRank
  \* The next slash is the last character.
  <1>11. n < Depth(q) /\ CutAt(q, n + 1) = Len(q)
    <2>1. ASSUME NEW l \in Cuts(q), Len(p) < l PROVE Len(q) <= l
      <3> SUFFICES ASSUME l < Len(q) PROVE FALSE
        BY <1>3
      <3>1. l \in 1..Len(q) /\ l - Len(p) \in 1..Len(name) /\ l = Len(p) + (l - Len(p))
        BY <1>1, <1>2, <1>3, <2>1
      <3>2. q[l] = "/"
        BY <1>3, <3>1 DEF Cuts
      <3> QED
        BY <1>2, <3>1, <3>2
    <2>2. Len(q) \in Cuts(q) /\ CutAt(q, n) < Len(q)
      BY <1>1, <1>2, <1>6, <1>10
    <2> QED
      BY <1>3, <1>10, <2>1, <2>2, CutAfter
  <1>12. nth = n + 1
    <2>1. n + 1 \in 0..Depth(q)
      BY <1>3, <1>10, <1>11
    <2>2. Rank(Cuts(q), CutAt(q, n + 1)) = n + 1
      BY <1>3, <2>1, CutAtType
    <2> QED
      BY <1>6, <1>11, <2>2
  <1>13. Component(q, n + 1) = name
    <2>1. Component(q, n + 1) = SubSeq(q, Len(p) + 1, Len(q) - 1)
      BY <1>10, <1>11, ComponentIs
    <2>2. name \in Seq(STRING)
      BY DEF Name
    <2>3. Len(q) - 1 = Len(p) + Len(name)
      BY <1>1, <1>2
    <2> DEFINE x == Len(p)
               y == Len(name)
    <2> HIDE DEF x, y
    <2>4. /\ x \in Nat /\ y \in Nat /\ x + 1 \in 1..Len(q) /\ x + y \in 1..Len(q)
          /\ Component(q, n + 1) = SubSeq(q, x + 1, x + y)
          /\ \A pos \in 1..y : q[x + pos] = name[pos]
      BY <1>1, <1>2, <1>3, <2>1, <2>3 DEF x, y
    <2>5. /\ SubSeq(q, x + 1, x + y) \in Seq(STRING) /\ Len(SubSeq(q, x + 1, x + y)) = y
          /\ \A pos \in 1..y : SubSeq(q, x + 1, x + y)[pos] = q[x + pos]
      <3> DEFINE l == x + 1
                 r == x + y
      <3>1. /\ l \in 1..Len(q) + 1 /\ r \in l - 1..Len(q) /\ q \in Seq(STRING)
            /\ r - l + 1 = y /\ \A pos \in 1..y : l + pos - 1 = x + pos
        BY <1>3, <2>4, SMTT(30)
      <3> HIDE DEF l, r
      <3>2. /\ SubSeq(q, l, r) \in Seq(STRING) /\ Len(SubSeq(q, l, r)) = r - l + 1
            /\ \A pos \in 1..r - l + 1 : SubSeq(q, l, r)[pos] = q[l + pos - 1]
        BY <3>1, SubSeqProperties
      <3>3. SubSeq(q, l, r) \in Seq(STRING) /\ Len(SubSeq(q, l, r)) = y
        BY <3>1, <3>2
      <3>4. \A pos \in 1..y : SubSeq(q, l, r)[pos] = q[x + pos]
        BY <3>1, <3>2
      <3> QED
        BY <3>3, <3>4 DEF l, r
    <2> DEFINE part == SubSeq(q, x + 1, x + y)
    <2>6. part \in Seq(STRING) /\ Len(part) = Len(name) /\ \A pos \in 1..Len(name) : part[pos] = name[pos]
      BY <2>4, <2>5 DEF y
    <2> HIDE DEF part
    <2>7. part = name
      BY <2>2, <2>6
    <2> QED
      BY <2>4, <2>7 DEF part
  <1>14. Reached(d, q, n) = e
    <2>1. n < Depth(p) /\ Depth(p) \in Nat
      BY <1>4
    <2> QED
      BY <1>3, <1>5, <1>9, <1>11, <2>1, SameReached
  <1>15. Reached(d, q, nth) = got
    <2>1. Reached(d, q, n + 1) = Below(d, e, name, n + 1 = Depth(q))
      BY <1>13, <1>14, ReachedFacts
    <2>2. (n + 1 = Depth(q)) = FALSE
      BY <1>6, <1>12
    <2> QED
      BY <1>12, <2>1, <2>2
  <1> HIDE DEF got
  <1>16. got \in Found /\ Named(d, q) = IF got.kind = "dir" THEN got ELSE Nothing
    BY <1>6, <1>15
  <1> QED
    BY <1>16 DEF q, got, e

\* list_files begins with the path typed and a slash.
LEMMA NamedAsDirectory ==
    ASSUME NEW d \in Disks, NEW p \in Seq(STRING), IsAbsolute(p), Named(d, p).kind = "dir"
    PROVE  DirPath(AsDirectory(p)) /\ Named(d, AsDirectory(p)) = Named(d, p)
  <1>1. /\ Len(p) \in Nat \ {0} /\ Depth(p) \in Nat \ {0} /\ DOMAIN p = 1..Len(p)
        /\ p[1] = "/" /\ p # << >> /\ Len(p) + 1 \in Cuts(p)
    BY FirstCut, CutsType DEF IsAbsolute
  <1>2. Last(p) = p[Len(p)]
    BY DEF Last
  <1>3. CASE Last(p) = "/"
    BY <1>1, <1>2, <1>3 DEF AsDirectory, DirPath, IsAbsolute
  <1>4. CASE Last(p) # "/"
    <2> DEFINE q == Append(p, "/")
    <2>1. AsDirectory(p) = q
      BY <1>4 DEF AsDirectory
    <2>2. /\ q \in Seq(STRING) /\ Len(q) = Len(p) + 1 /\ q[Len(p) + 1] = "/"
          /\ \A pos \in 1..Len(p) : q[pos] = p[pos]
      BY <1>1
    <2> HIDE DEF q
    <2>3. DirPath(q)
      <3>1. q # << >> /\ q[1] = "/"
        BY <1>1, <2>2
      <3> QED
        BY <2>2, <3>1 DEF DirPath, IsAbsolute
    <2> DEFINE m == Len(p) + 1
    <2>4. m \in Cuts(p) \cap Cuts(q) /\ \A pos \in 1..m - 1 : p[pos] = q[pos]
      <3>1. DOMAIN q = 1..Len(q)
        BY <2>2
      <3>2. m \in Cuts(q)
        BY <1>1, <2>2, <3>1 DEF Cuts
      <3> QED
        BY <1>1, <2>2, <3>2
    <2> DEFINE n == Depth(p)
    <2>5. Rank(Cuts(p), m) = n /\ m = Len(q)
      BY <1>1, <2>2, CutOfRank
    <2> HIDE DEF m
    <2>6. /\ Rank(Cuts(q), m) = n
          /\ \A pos \in 0..n - 1 : Component(p, pos + 1) = Component(q, pos + 1)
      BY <2>2, <2>4, <2>5, SameCuts
    <2>7. PICK nth \in Nat :
            /\ Depth(q) = nth + 1 /\ CutAt(q, nth) = Len(q) /\ Rank(Cuts(q), Len(q)) = nth
            /\ Reached(d, q, nth) \in Found
            /\ Named(d, q) = IF Reached(d, q, nth).kind = "dir" THEN Reached(d, q, nth) ELSE Nothing
      BY <2>3, NamedDirPath
    <2>8. nth = n /\ n \in Nat \ {0} /\ Depth(q) = n + 1
      BY <1>1, <2>5, <2>6, <2>7
    <2> DEFINE comp == Component(p, n)
    \* The last component is not empty.
    <2>9. comp # << >>
      <3> DEFINE x == CutAt(p, n - 1)
      <3>1. n - 1 \in Nat /\ n - 1 \in 0..Depth(p) /\ n \in 0..Depth(p) /\ (n - 1) + 1 = n
        BY <2>8
      <3>2. x \in Cuts(p) /\ x \in 1..Len(p) + 1
        BY <3>1, CutAtType
      <3>3. x # Len(p) + 1
        BY <3>1, LastCut
      <3>4. p[x] = "/"
        BY <3>2, <3>3 DEF Cuts
      <3>5. CutAt(p, n) = Len(p) + 1
        BY <3>1, LastCut
      <3>6. comp = SubSeq(p, x + 1, Len(p) + 1 - 1)
        <4>1. Component(p, (n - 1) + 1) = SubSeq(p, CutAt(p, n - 1) + 1, CutAt(p, (n - 1) + 1) - 1)
          BY <3>1, ComponentIs
        <4> QED
          BY <3>1, <3>5, <4>1
      <3> HIDE DEF x, comp
      <3>7. x < Len(p)
        BY <1>1, <1>2, <1>4, <3>2, <3>3, <3>4
      <3>8. Len(comp) = Len(p) - x
        <4>1. x + 1 \in 1..Len(p) /\ x \in Nat /\ Len(p) + 1 - 1 = Len(p)
          BY <1>1, <3>2, <3>7
        <4> QED
          BY <1>1, <3>6, <4>1
      <3>9. Len(comp) # 0
        <4> DEFINE y == Len(p)
        <4>1. y \in Nat /\ x \in Int /\ x < y /\ Len(comp) = y - x
          BY <1>1, <3>2, <3>7, <3>8
        <4> HIDE DEF y
        <4> QED
          BY <4>1
      <3> QED
        BY <3>9, EmptyIsSeq
    <2>10. Reached(d, p, n - 1) = Reached(d, q, n - 1)
      <3> DEFINE l == n - 1
      <3>1. /\ l \in Nat /\ l < Depth(p) /\ l < Depth(q) /\ Depth(p) \in Nat /\ Depth(q) \in Nat
            /\ \A pos \in 0..l - 1 : Component(p, pos + 1) = Component(q, pos + 1)
        BY <2>6, <2>8
      <3> HIDE DEF l, n
      <3>2. Reached(d, p, l) = Reached(d, q, l)
        BY <3>1, SameReached
      <3> QED
        BY <3>2 DEF l
    <2> DEFINE e == Reached(d, p, n - 1)
    <2>11. n - 1 \in Nat /\ (n - 1) + 1 = n /\ e \in Found
      <3>1. n - 1 \in Nat /\ (n - 1) + 1 = n
        BY <2>8
      <3> QED
        BY <3>1, ReachedFacts
    <2>12. Named(d, p) = Below(d, e, comp, TRUE)
      <3>1. Reached(d, p, (n - 1) + 1) =
              Below(d, Reached(d, p, n - 1), Component(p, (n - 1) + 1), (n - 1) + 1 = Depth(p))
        BY <2>11, ReachedFacts
      <3>2. ((n - 1) + 1 = Depth(p)) = TRUE
        BY <2>11
      <3> QED
        BY <2>11, <3>1, <3>2 DEF Named
    <2>13. Reached(d, q, n) = Below(d, e, comp, FALSE)
      <3>1. Reached(d, q, (n - 1) + 1) =
              Below(d, Reached(d, q, n - 1), Component(q, (n - 1) + 1), (n - 1) + 1 = Depth(q))
        BY <2>11, ReachedFacts
      <3>2. ((n - 1) + 1 = Depth(q)) = FALSE
        BY <2>8, <2>11
      <3>3. Component(q, n) = comp
        <4>1. n - 1 \in 0..n - 1
          BY <2>8
        <4> QED
          BY <2>6, <2>11, <4>1
      <3> QED
        BY <2>10, <2>11, <3>1, <3>2, <3>3
    <2> HIDE DEF n, e, comp
    <2>14. Reached(d, q, n) = Named(d, p)
      BY <2>9, <2>11, <2>12, <2>13, BelowByName
    <2>15. Named(d, q) = Named(d, p)
      BY <2>7, <2>8, <2>14
    <2> QED
      BY <2>1, <2>3, <2>15
  <1> QED
    BY <1>3, <1>4

-----------------------------------------------------------------------------
(* What a section says of its directory *)

\* No directory has two entries of one name; a chain that does not begin at a
\* cluster has none at all.
LEMMA UniqueEntries ==
    ASSUME NEW d \in Disks, CountsAll(d), NamesAreUnique(d), NEW first \in Nat \cup {RootDirectory}
    PROVE  \A l, m \in DOMAIN DirEntries(d, first) :
             DirEntries(d, first)[l].name = DirEntries(d, first)[m].name => l = m
  <1>1. CASE first \in {RootDirectory} \cup 2..NClusters(d)
    BY <1>1 DEF NamesAreUnique
  <1>2. CASE first \notin {RootDirectory} \cup 2..NClusters(d)
    <2>1. first \in Nat /\ first # RootDirectory /\ NClusters(d) \in Nat
      BY <1>2, DiskType
    <2>2. ClusterOf(d, first, 0) = first /\ ~ClusterIsValid(d, first)
      BY <1>2, <2>1, ChainFacts DEF ClusterIsValid
    <2>3. \A u \in Nat : UnitOf(d, first, u) = Zero
      <3>1. 0 * ClusterSize = 0
        BY Fat12Assumption
      <3>2. ~ClusterIsValid(d, ClusterOf(d, first, 0))
        BY <2>2
      <3>3. ASSUME NEW u \in Nat PROVE UnitOf(d, first, u) = Zero
        <4>1. u >= 0 * ClusterSize
          BY <3>1
        <4> QED
          BY <2>1, <3>2, <4>1, UnitPastChain
      <3> QED
        BY <3>3
    <2> DEFINE length == NClusters(d) * ClusterSize
               units == [u \in 1..length |-> UnitOf(d, first, u - 1)]
    <2>4. length \in Nat
      BY <2>1, Fat12Assumption
    <2>5. DirEntries(d, first) = EntriesOf(units)
      BY <2>1 DEF DirEntries
    <2> HIDE DEF length
    <2>6. units \in Seq(Unit) /\ \A u \in DOMAIN units : units[u].kind = "end"
      BY <2>3, <2>4, UnitFields
    <2> HIDE DEF units
    <2>7. EntriesAt(units) = {}
      BY <2>6 DEF EntriesAt
    <2>8. EntriesOf(units) \in Seq(Entry) /\ Len(EntriesOf(units)) = 0
      <3>1. Cardinality(EntriesAt(units)) = 0
        BY <2>7, FS_EmptySet
      <3> QED
        BY <2>6, <3>1, EntriesOfType
    <2>9. DOMAIN DirEntries(d, first) = {}
      BY <2>5, <2>8
    <2> QED
      BY <2>9
  <1> QED
    BY <1>1, <1>2

\* An entry is the one of its name.
LEMMA FindsEntry ==
    ASSUME NEW d \in Disks, CountsAll(d), NamesAreUnique(d), NEW e \in Found, e.kind = "dir",
           e.name \notin Dots, NEW n \in DOMAIN DirEntries(d, e.first)
    PROVE  Below(d, e, DirEntries(d, e.first)[n].name, FALSE) = DirEntries(d, e.first)[n]
  <1> DEFINE entries == DirEntries(d, e.first)
             name == entries[n].name
  <1>1. e.first \in Nat \cup {RootDirectory}
    BY FoundFields
  <1>2. entries \in Seq(Entry)
    BY <1>1, DirEntriesType
  <1>3. \A l, m \in DOMAIN entries : entries[l].name = entries[m].name => l = m
    BY <1>1, UniqueEntries
  <1>4. Below(d, e, name, FALSE) = IF Finds(entries, name) = {} THEN Nothing
                                   ELSE entries[Min(Finds(entries, name))]
    BY DEF Below, Finds
  <1>n. n \in DOMAIN entries
    OBVIOUS
  <1> HIDE DEF entries
  <1>5. Finds(entries, name) = {n}
    BY <1>3, <1>n DEF Finds
  <1>6. Min({n}) = n
    <2>1. n \in Int
      BY <1>2, <1>n
    <2> QED
      BY <2>1, MinIs
  <1> HIDE DEF name
  <1>7. Below(d, e, name, FALSE) = entries[n]
    BY <1>4, <1>5, <1>6
  <1> QED
    BY <1>7 DEF name, entries

\* The nodes in a node are those of the directory's entries.
LEMMA NodeEntries ==
    ASSUME NEW d \in Disks, NEW e \in Found, e.kind = "dir", NEW node, Mirrors(d, node, e)
    PROVE  /\ node.type = "dir" /\ node.name = e.name
           /\ IsSeq(node.entries) /\ DirEntries(d, e.first) \in Seq(Entry)
           /\ Len(node.entries) \in Nat /\ DOMAIN node.entries = 1..Len(node.entries)
           /\ Len(node.entries) = IF e.name \notin Dots THEN Len(DirEntries(d, e.first)) ELSE 0
           /\ \A n \in 1..Len(node.entries) :
                /\ n \in DOMAIN DirEntries(d, e.first)
                /\ DirEntries(d, e.first)[n] \in Entry
                /\ Mirrors(d, node.entries[n], DirEntries(d, e.first)[n])
                /\ node.entries[n].name = DirEntries(d, e.first)[n].name
                /\ node.entries[n].name \in Name
                /\ IsDirectory(node.entries[n]) <=> DirEntries(d, e.first)[n].kind = "dir"
                                                    /\ DirEntries(d, e.first)[n].name \notin Dots
  <1> DEFINE entries == DirEntries(d, e.first)
  <1>1. /\ Says(d, node, e)
        /\ \A m \in DOMAIN node.entries : Mirrors(d, node.entries[m], entries[m])
    BY MirrorsBelow
  <1>2. entries \in Seq(Entry)
    BY FoundFields, DirEntriesType
  <1> HIDE DEF entries
  <1>3. /\ node.type = "dir" /\ node.name = e.name /\ IsSeq(node.entries)
        /\ Len(node.entries) = IF e.name \notin Dots THEN Len(entries) ELSE 0
    BY <1>1 DEF Says, entries
  <1>4. Len(node.entries) \in Nat /\ DOMAIN node.entries = 1..Len(node.entries)
    BY <1>3, IsSeqFacts
  <1>5. ASSUME NEW n \in 1..Len(node.entries)
        PROVE  /\ n \in DOMAIN entries /\ entries[n] \in Entry
               /\ Mirrors(d, node.entries[n], entries[n])
               /\ node.entries[n].name = entries[n].name /\ node.entries[n].name \in Name
               /\ IsDirectory(node.entries[n]) <=> entries[n].kind = "dir" /\ entries[n].name \notin Dots
    <2>1. n \in 1..Len(entries)
      BY <1>3, <1>4
    <2>2. n \in DOMAIN entries /\ entries[n] \in Entry
      BY <1>2, <2>1
    <2>3. Mirrors(d, node.entries[n], entries[n])
      BY <1>1, <1>4
    <2>4. Says(d, node.entries[n], entries[n])
      BY <2>3, MirrorsBelow
    <2>5. node.entries[n].name = entries[n].name /\ node.entries[n].type = entries[n].kind
      BY <2>4 DEF Says
    <2>6. entries[n].name \in Name
      BY <2>2, UnitFields
    <2> QED
      BY <2>2, <2>3, <2>5, <2>6 DEF IsDirectory
  <1> QED
    BY <1>2, <1>3, <1>4, <1>5 DEF entries

\* The paths of the directories in a node.
DirNames(node) == {n \in 1..Len(node.entries) : IsDirectory(node.entries[n])}

\* They are those of the directory.
LEMMA PathsBelowAre ==
    ASSUME NEW d \in Disks, NEW p, NEW node, Named(d, p) \in Found, Named(d, p).kind = "dir",
           Named(d, p).name \notin Dots, Mirrors(d, node, Named(d, p))
    PROVE  PathsBelow(d, p) = {BelowPath(p, node.entries[n].name) : n \in DirNames(node)}
  <1> DEFINE e == Named(d, p)
             entries == DirEntries(d, e.first)
             T == {m \in DOMAIN entries : entries[m].kind = "dir" /\ entries[m].name \notin Dots}
  <1>1. PathsBelow(d, p) = {BelowPath(p, entries[n].name) : n \in T}
    BY DEF PathsBelow, BelowPath
  <1>2. /\ entries \in Seq(Entry)
        /\ Len(node.entries) = Len(entries)
        /\ \A n \in 1..Len(node.entries) :
             /\ node.entries[n].name = entries[n].name
             /\ IsDirectory(node.entries[n]) <=> entries[n].kind = "dir" /\ entries[n].name \notin Dots
    <2>1. e \in Found /\ e.kind = "dir" /\ e.name \notin Dots /\ Mirrors(d, node, e)
      OBVIOUS
    <2> HIDE DEF e
    <2> QED
      BY <2>1, NodeEntries
  <1> HIDE DEF entries
  <1>3. DOMAIN entries = 1..Len(node.entries)
    BY <1>2
  <1>4. T = DirNames(node) /\ \A n \in T : entries[n].name = node.entries[n].name
    BY <1>2, <1>3 DEF DirNames
  <1> HIDE DEF T
  <1> QED
    BY <1>1, <1>4

\* Different values of a one-to-one mapping are as many as the values mapped.
LEMMA SameNumber ==
    ASSUME NEW S, IsFiniteSet(S), NEW f, DOMAIN f = S, \A x, y \in S : f[x] = f[y] => x = y
    PROVE  Cardinality({f[x] : x \in S}) = Cardinality(S)
  <1> DEFINE T == {f[x] : x \in S}
             g == [x \in S |-> f[x]]
  <1>1. g \in [S -> T]
    OBVIOUS
  <1>2. \A x, y \in S : g[x] = g[y] => x = y
    OBVIOUS
  <1>3. \A t \in T : \E x \in S : g[x] = t
    OBVIOUS
  <1> HIDE DEF g, T
  <1>4. g \in Bijection(S, T)
    BY <1>1, <1>2, <1>3 DEF Bijection, Injection, Surjection, IsInjective
  <1>5. ExistsBijection(S, T)
    BY <1>4 DEF ExistsBijection
  <1>6. Cardinality(T) = Cardinality(S)
    BY <1>5, FS_Bijection
  <1> QED
    BY <1>6 DEF T

\* A section of a node that mirrors what its path names is true.
LEMMA SectionOf ==
    ASSUME NEW d \in Disks, CountsAll(d), NamesAreUnique(d), NEW p, DirPath(p),
           Named(d, p) \in Found, Named(d, p).kind = "dir", NEW node, Mirrors(d, node, Named(d, p))
    PROVE  SectionIsTrue(d, Section(p, node)) /\ Section(p, node).path = p
  <1> DEFINE e == Named(d, p)
             entries == DirEntries(d, e.first)
             sec == Section(p, node)
  <1>1. /\ sec.path = p /\ sec.ndirs = node.ndirs /\ sec.nfiles = node.nfiles
        /\ sec.names = [n \in DOMAIN node.entries |-> node.entries[n].name]
    BY DEF Section
  <1>2. e \in Found /\ e.kind = "dir" /\ Mirrors(d, node, e)
    OBVIOUS
  <1>3. /\ IsSeq(node.entries) /\ entries \in Seq(Entry) /\ Len(node.entries) \in Nat
        /\ DOMAIN node.entries = 1..Len(node.entries)
        /\ Len(node.entries) = IF e.name \notin Dots THEN Len(entries) ELSE 0
        /\ \A n \in 1..Len(node.entries) : /\ n \in DOMAIN entries
                                           /\ node.entries[n].name = entries[n].name
                                           /\ node.entries[n].name \in Name
    <2> HIDE DEF e
    <2> QED
      BY <1>2, NodeEntries
  <1>4. /\ node.ndirs + node.nfiles = Len(node.entries)
        /\ node.ndirs = Cardinality(DirsIn(node))
    <2> HIDE DEF e
    <2>1. Says(d, node, e)
      BY <1>2, MirrorsBelow
    <2> QED
      BY <2>1 DEF Says
  <1>5. \A l, m \in DOMAIN entries : entries[l].name = entries[m].name => l = m
    <2> HIDE DEF e
    <2>1. e.first \in Nat \cup {RootDirectory}
      BY <1>2, FoundFields
    <2> QED
      BY <2>1, UniqueEntries
  <1>6. DirsIn(node) = DirNames(node)
    BY <1>3 DEF DirsIn, DirNames
  <1>7. Len(sec.names) = Len(node.entries)
    <2> DEFINE l == Len(node.entries)
    <2>1. sec.names = [n \in 1..l |-> node.entries[n].name] /\ l \in Nat
      BY <1>1, <1>3
    <2> HIDE DEF l, sec
    <2>2. Len(sec.names) = l
      BY <2>1
    <2> QED
      BY <2>2 DEF l
  <1>8. sec.names = IF e.name \in Dots THEN << >> ELSE [n \in DOMAIN entries |-> entries[n].name]
    <2> HIDE DEF sec, e, entries
    <2>1. CASE e.name \in Dots
      <3>1. DOMAIN node.entries = {}
        BY <1>3, <2>1
      <3>2. sec.names = [n \in {} |-> node.entries[n].name]
        BY <1>1, <3>1
      <3>3. [n \in {} |-> node.entries[n].name] = << >>
        OBVIOUS
      <3> QED
        BY <2>1, <3>2, <3>3
    <2>2. CASE e.name \notin Dots
      <3>1. DOMAIN entries = DOMAIN node.entries
        BY <1>3, <2>2
      <3> QED
        BY <1>1, <1>3, <2>2, <3>1
    <2> QED
      BY <2>1, <2>2
  <1>9. e.name \notin Dots => sec.ndirs = Cardinality(PathsBelow(d, p))
    <2> SUFFICES ASSUME e.name \notin Dots PROVE node.ndirs = Cardinality(PathsBelow(d, p))
      BY <1>1
    <2> DEFINE S == DirNames(node)
               f == [n \in S |-> BelowPath(p, node.entries[n].name)]
    <2>1. PathsBelow(d, p) = {BelowPath(p, node.entries[n].name) : n \in S}
      BY PathsBelowAre
    <2>2. PathsBelow(d, p) = {f[n] : n \in S}
      BY <2>1
    <2>3. IsFiniteSet(S)
      <3>1. S \in SUBSET (1..Len(node.entries))
        BY DEF DirNames
      <3>2. IsFiniteSet(1..Len(node.entries))
        BY <1>3, FS_Interval
      <3> HIDE DEF S
      <3> QED
        BY <3>1, <3>2, FS_Subset
    <2>4. ASSUME NEW x \in S, NEW y \in S, f[x] = f[y] PROVE x = y
      <3>1. /\ x \in 1..Len(node.entries) /\ y \in 1..Len(node.entries)
            /\ BelowPath(p, node.entries[x].name) = BelowPath(p, node.entries[y].name)
        BY <2>4 DEF DirNames
      <3>2. node.entries[x].name \in Name /\ node.entries[y].name \in Name
        BY <1>3, <3>1
      <3> DEFINE r == BelowPath(p, node.entries[x].name)
      <3>3. r \in Seq(STRING)
        BY <3>2, BelowPathIs DEF DirPath
      <3>4. Starts(r, r)
        BY <3>3 DEF Starts
      <3>5. node.entries[x].name = node.entries[y].name
        <4>1. Starts(BelowPath(p, node.entries[x].name), r)
          BY <3>4
        <4>2. Starts(BelowPath(p, node.entries[y].name), r)
          BY <3>1, <3>4
        <4> HIDE DEF r
        <4> QED
          BY <3>2, <3>3, <4>1, <4>2, SameName
      <3> HIDE DEF entries
      <3> QED
        BY <1>3, <1>5, <3>1, <3>5
    <2>5. Cardinality({f[n] : n \in S}) = Cardinality(S)
      <3>1. DOMAIN f = S /\ \A x, y \in S : f[x] = f[y] => x = y
        BY <2>4
      <3> HIDE DEF f, S
      <3> QED
        BY <2>3, <3>1, SameNumber
    <2> QED
      BY <1>4, <1>6, <2>2, <2>5
  <1>10. /\ Named(d, sec.path).kind = "dir"
         /\ sec.names = IF Named(d, sec.path).name \in Dots THEN << >>
                        ELSE [n \in DOMAIN DirEntries(d, Named(d, sec.path).first) |->
                                DirEntries(d, Named(d, sec.path).first)[n].name]
         /\ sec.ndirs + sec.nfiles = Len(sec.names)
         /\ Named(d, sec.path).name \notin Dots => sec.ndirs = Cardinality(PathsBelow(d, sec.path))
    <2> HIDE DEF sec
    <2> QED
      BY <1>1, <1>4, <1>7, <1>8, <1>9
  <1> HIDE DEF sec
  <1>11. SectionIsTrue(d, sec)
    BY <1>10 DEF SectionIsTrue
  <1> QED
    BY <1>1, <1>11 DEF sec

-----------------------------------------------------------------------------
(* The listing: cs are the calls of list_files, ps the paths they are for, *)
(* and ans the sections printed.                                           *)

\* The name of an entry of a call.
NameAt(f, n) == f.node.entries[n].name

\* A call is for a directory, which has its section.
CallTrue(d, f, p, ans) ==
    /\ DOMAIN f = {"node", "len", "next"}
    /\ DirPath(p) /\ f.len = Len(p)
    /\ Named(d, p) \in Found /\ Named(d, p).kind = "dir"
    /\ Mirrors(d, f.node, Named(d, p))
    /\ f.next \in 1..Len(f.node.entries) + 1
    /\ \E l \in 1..Len(ans) : ans[l].path = p

\* A call is for a directory in the one of the call before it, the entry
\* before that call's next.
Nested(cs, ps) ==
    \A nth \in 1..Len(cs) : \A m \in 1..nth - 1 :
        cs[m].next > 1 /\ Starts(BelowPath(ps[m], NameAt(cs[m], cs[m].next - 1)), ps[nth])

\* The sections are true, each comes after the one it is in, and no two are
\* of one path.
Sections(d, ans) ==
    /\ IsSeq(ans)
    /\ \A l \in 1..Len(ans) : SectionIsTrue(d, ans[l]) /\ DirPath(ans[l].path)
    /\ \A l \in 2..Len(ans) : \E other \in 1..l - 1 : ans[l].path \in PathsBelow(d, ans[other].path)
    /\ \A other, l \in 1..Len(ans) : ans[other].path = ans[l].path => other = l

\* A call will come to the path.
Awaited(cs, ps, p) ==
    \E m \in 1..Len(cs) : \E n \in cs[m].next..Len(cs[m].node.entries) :
        IsDirectory(cs[m].node.entries[n]) /\ p = BelowPath(ps[m], NameAt(cs[m], n))

\* The directories in those printed are printed or will be.
Covered(d, cs, ps, ans) ==
    \A l \in 1..Len(ans) : Named(d, ans[l].path).name \notin Dots =>
        \A p \in PathsBelow(d, ans[l].path) :
            (\E other \in l + 1..Len(ans) : ans[other].path = p) \/ Awaited(cs, ps, p)

\* What is printed below the directory of a call is below an entry the call
\* is past.
Passed(cs, ps, ans) ==
    \A l \in 1..Len(ans) : \A m \in 1..Len(cs) :
        Starts(ps[m], ans[l].path) /\ ans[l].path # ps[m] =>
            \E n \in 1..cs[m].next - 1 : Starts(BelowPath(ps[m], NameAt(cs[m], n)), ans[l].path)

\* The inductive invariant of the listing.
ListInv(d, cs, ps, ans) ==
    /\ IsSeq(cs) /\ IsSeq(ps) /\ Len(ps) = Len(cs)
    /\ \A m \in 1..Len(cs) : CallTrue(d, cs[m], ps[m], ans)
    /\ Nested(cs, ps)
    /\ Sections(d, ans)
    /\ Covered(d, cs, ps, ans)
    /\ Passed(cs, ps, ans)

\* The next entry of a call.
Advanced(f, g) == /\ DOMAIN g = {"node", "len", "next"} /\ g.node = f.node /\ g.len = f.len
                  /\ g.next = f.next + 1

\* A call that goes on to the next entry stays true.
LEMMA AdvancedIsTrue ==
    ASSUME NEW d, NEW f, NEW p, NEW ans, CallTrue(d, f, p, ans), NEW g, Advanced(f, g),
           f.next \in 1..Len(f.node.entries)
    PROVE  CallTrue(d, g, p, ans)
  <1>1. g.node = f.node /\ g.next \in 1..Len(g.node.entries) + 1
    BY DEF Advanced
  <1> QED
    BY <1>1 DEF CallTrue, Advanced

\* A call stays true when a section is added.
LEMMA CallStaysTrue ==
    ASSUME NEW d, NEW f, NEW p, NEW ans, CallTrue(d, f, p, ans), NEW more, Len(ans) \in Nat,
           Len(more) = Len(ans) + 1, \A l \in 1..Len(ans) : more[l] = ans[l]
    PROVE  CallTrue(d, f, p, more)
  <1>1. PICK l \in 1..Len(ans) : ans[l].path = p
    BY DEF CallTrue
  <1>2. l \in 1..Len(more) /\ more[l].path = p
    BY <1>1
  <1> QED
    BY <1>2 DEF CallTrue

\* list_files returns.
LEMMA ListReturns ==
    ASSUME NEW d, NEW cs, NEW ps, NEW ans, ListInv(d, cs, ps, ans),
           NEW t \in Nat \ {0}, Len(cs) = t, cs[t].next \notin 1..Len(cs[t].node.entries),
           NEW gs, IsSeq(gs), Len(gs) = t - 1, \A m \in 1..t - 1 : gs[m] = cs[m],
           NEW qs, IsSeq(qs), Len(qs) = t - 1, \A m \in 1..t - 1 : qs[m] = ps[m]
    PROVE  ListInv(d, gs, qs, ans)
  <1>1. \A m \in 1..t - 1 : m \in 1..t
    OBVIOUS
  <1>2. \A m \in 1..Len(gs) : CallTrue(d, gs[m], qs[m], ans)
    BY <1>1 DEF ListInv
  <1>3. Nested(gs, qs)
    <2> SUFFICES ASSUME NEW nth \in 1..t - 1, NEW m \in 1..nth - 1
                 PROVE  gs[m].next > 1 /\ Starts(BelowPath(qs[m], NameAt(gs[m], gs[m].next - 1)), qs[nth])
      BY DEF Nested
    <2>1. nth \in 1..Len(cs) /\ m \in 1..t - 1
      OBVIOUS
    <2>2. cs[m].next > 1 /\ Starts(BelowPath(ps[m], NameAt(cs[m], cs[m].next - 1)), ps[nth])
      BY <2>1 DEF ListInv, Nested
    <2>3. gs[m] = cs[m] /\ qs[m] = ps[m] /\ qs[nth] = ps[nth]
      BY <2>1
    <2> QED
      BY <2>2, <2>3
  <1>4. \A p : Awaited(cs, ps, p) => Awaited(gs, qs, p)
    <2> SUFFICES ASSUME NEW p, Awaited(cs, ps, p) PROVE Awaited(gs, qs, p)
      OBVIOUS
    <2>1. PICK m \in 1..t : \E n \in cs[m].next..Len(cs[m].node.entries) :
            IsDirectory(cs[m].node.entries[n]) /\ p = BelowPath(ps[m], NameAt(cs[m], n))
      BY DEF Awaited
    <2>2. m # t
      <3> SUFFICES ASSUME m = t PROVE FALSE
        OBVIOUS
      <3>1. CallTrue(d, cs[t], ps[t], ans) /\ t \in 1..t
        BY DEF ListInv
      <3>2. cs[t].next \in 1..Len(cs[t].node.entries) + 1
        BY <3>1 DEF CallTrue
      <3>3. cs[t].next > Len(cs[t].node.entries)
        BY <3>2
      <3>4. PICK n \in cs[t].next..Len(cs[t].node.entries) : TRUE
        BY <2>1
      <3> QED
        BY <3>2, <3>3, <3>4
    <2>3. m \in 1..t - 1 /\ m \in 1..Len(gs) /\ gs[m] = cs[m] /\ qs[m] = ps[m]
      BY <2>2
    <2> QED
      BY <2>1, <2>3 DEF Awaited
  <1>5. Covered(d, gs, qs, ans)
    BY <1>4 DEF ListInv, Covered
  <1>6. Passed(gs, qs, ans)
    <2> SUFFICES ASSUME NEW l \in 1..Len(ans), NEW m \in 1..t - 1,
                        Starts(qs[m], ans[l].path), ans[l].path # qs[m]
                 PROVE  \E n \in 1..gs[m].next - 1 :
                          Starts(BelowPath(qs[m], NameAt(gs[m], n)), ans[l].path)
      BY DEF Passed
    <2>1. m \in 1..Len(cs) /\ gs[m] = cs[m] /\ qs[m] = ps[m]
      OBVIOUS
    <2>2. \E n \in 1..cs[m].next - 1 : Starts(BelowPath(ps[m], NameAt(cs[m], n)), ans[l].path)
      BY <2>1 DEF ListInv, Passed
    <2> QED
      BY <2>1, <2>2
  <1> QED
    BY <1>2, <1>3, <1>5, <1>6 DEF ListInv

\* list_files goes past an entry that it does not list.
LEMMA ListSkips ==
    ASSUME NEW d, NEW cs, NEW ps, NEW ans, ListInv(d, cs, ps, ans),
           NEW t \in Nat \ {0}, Len(cs) = t,
           NEW n, n = cs[t].next, n \in 1..Len(cs[t].node.entries),
           ~IsDirectory(cs[t].node.entries[n]),
           NEW gs, IsSeq(gs), Len(gs) = t, \A m \in 1..t - 1 : gs[m] = cs[m],
           Advanced(cs[t], gs[t])
    PROVE  ListInv(d, gs, ps, ans)
  <1>1. gs[t].node = cs[t].node /\ gs[t].next = n + 1 /\ t \in 1..t
    BY DEF Advanced
  <1>2. \A m \in 1..t : CallTrue(d, gs[m], ps[m], ans)
    <2> TAKE m \in 1..t
    <2>1. CallTrue(d, cs[m], ps[m], ans)
      BY DEF ListInv
    <2>2. CASE m = t
      BY <2>1, <2>2, AdvancedIsTrue
    <2>3. CASE m # t
      BY <2>1, <2>3
    <2> QED
      BY <2>2, <2>3
  <1>3. Nested(gs, ps)
    <2> SUFFICES ASSUME NEW nth \in 1..t, NEW m \in 1..nth - 1
                 PROVE  gs[m].next > 1 /\ Starts(BelowPath(ps[m], NameAt(gs[m], gs[m].next - 1)), ps[nth])
      BY DEF Nested
    <2>1. nth \in 1..Len(cs) /\ m \in 1..t - 1
      OBVIOUS
    <2>2. cs[m].next > 1 /\ Starts(BelowPath(ps[m], NameAt(cs[m], cs[m].next - 1)), ps[nth])
      BY <2>1 DEF ListInv, Nested
    <2> QED
      BY <2>1, <2>2
  <1>4. \A p : Awaited(cs, ps, p) => Awaited(gs, ps, p)
    <2> SUFFICES ASSUME NEW p, Awaited(cs, ps, p) PROVE Awaited(gs, ps, p)
      OBVIOUS
    <2>1. PICK m \in 1..t : \E nth \in cs[m].next..Len(cs[m].node.entries) :
            IsDirectory(cs[m].node.entries[nth]) /\ p = BelowPath(ps[m], NameAt(cs[m], nth))
      BY DEF Awaited
    <2>2. PICK nth \in cs[m].next..Len(cs[m].node.entries) :
            IsDirectory(cs[m].node.entries[nth]) /\ p = BelowPath(ps[m], NameAt(cs[m], nth))
      BY <2>1
    <2>3. CASE m = t
      <3>1. nth \in gs[t].next..Len(gs[t].node.entries)
        <4>1. nth # n
          BY <2>2, <2>3
        <4>2. nth \in n..Len(cs[t].node.entries)
          BY <2>2, <2>3
        <4> QED
          BY <1>1, <4>1, <4>2
      <3>2. IsDirectory(gs[t].node.entries[nth]) /\ p = BelowPath(ps[t], NameAt(gs[t], nth))
        BY <1>1, <2>2, <2>3 DEF NameAt
      <3> QED
        BY <1>1, <3>1, <3>2 DEF Awaited
    <2>4. CASE m # t
      <3>1. m \in 1..Len(gs) /\ gs[m] = cs[m]
        BY <2>4
      <3> QED
        BY <2>2, <3>1 DEF Awaited
    <2> QED
      BY <2>3, <2>4
  <1>5. Covered(d, gs, ps, ans)
    BY <1>4 DEF ListInv, Covered
  <1>6. Passed(gs, ps, ans)
    <2> SUFFICES ASSUME NEW l \in 1..Len(ans), NEW m \in 1..t,
                        Starts(ps[m], ans[l].path), ans[l].path # ps[m]
                 PROVE  \E nth \in 1..gs[m].next - 1 :
                          Starts(BelowPath(ps[m], NameAt(gs[m], nth)), ans[l].path)
      BY DEF Passed
    <2>1. PICK nth \in 1..cs[m].next - 1 : Starts(BelowPath(ps[m], NameAt(cs[m], nth)), ans[l].path)
      BY DEF ListInv, Passed
    <2>2. CASE m = t
      <3>1. nth \in 1..gs[t].next - 1
        BY <1>1, <2>1, <2>2
      <3> QED
        BY <1>1, <2>1, <2>2, <3>1 DEF NameAt
    <2>3. CASE m # t
      BY <2>1, <2>3
    <2> QED
      BY <2>2, <2>3
  <1> QED
    BY <1>2, <1>3, <1>5, <1>6 DEF ListInv

\* The directory that list_files goes to next.
LEMMA NextDirectory ==
    ASSUME NEW d \in Disks, CountsAll(d), NamesAreUnique(d),
           NEW f, NEW p, NEW ans, CallTrue(d, f, p, ans),
           NEW n \in 1..Len(f.node.entries), NEW e, e = f.node.entries[n], IsDirectory(e),
           NEW q, q = BelowPath(p, e.name)
    PROVE  /\ e.name \in Name /\ DirPath(q)
           /\ Named(d, q) \in Found /\ Named(d, q).kind = "dir" /\ Named(d, q).name \notin Dots
           /\ Mirrors(d, e, Named(d, q))
           /\ q \in PathsBelow(d, p)
           /\ SectionIsTrue(d, Section(q, e)) /\ Section(q, e).path = q
           /\ \A nth \in 1..Len(f.node.entries) : NameAt(f, nth) \in Name /\ (NameAt(f, nth) = e.name => nth = n)
  <1> DEFINE D == Named(d, p)
             entries == DirEntries(d, D.first)
             got == entries[n]
  <1>1. DirPath(p) /\ D \in Found /\ D.kind = "dir" /\ Mirrors(d, f.node, D)
    BY DEF CallTrue
  <1>2. /\ Len(f.node.entries) = IF D.name \notin Dots THEN Len(entries) ELSE 0
        /\ entries \in Seq(Entry) /\ Len(f.node.entries) \in Nat
        /\ \A nth \in 1..Len(f.node.entries) :
             /\ nth \in DOMAIN entries /\ entries[nth] \in Entry
             /\ Mirrors(d, f.node.entries[nth], entries[nth])
             /\ f.node.entries[nth].name = entries[nth].name
             /\ f.node.entries[nth].name \in Name
             /\ IsDirectory(f.node.entries[nth]) <=> entries[nth].kind = "dir" /\ entries[nth].name \notin Dots
    <2> HIDE DEF D
    <2> QED
      BY <1>1, NodeEntries
  <1>3. /\ n \in DOMAIN entries /\ got \in Entry /\ Mirrors(d, e, got) /\ e.name = got.name
        /\ e.name \in Name /\ got.kind = "dir" /\ got.name \notin Dots
    BY <1>2
  <1>4. D.name \notin Dots
    BY <1>2
  <1>5. Below(d, D, got.name, FALSE) = got
    <2> HIDE DEF D
    <2> QED
      BY <1>1, <1>3, <1>4, FindsEntry
  <1>6. Named(d, q) = got
    <2>1. Named(d, BelowPath(p, e.name)) = IF Below(d, D, e.name, FALSE).kind = "dir"
                                           THEN Below(d, D, e.name, FALSE) ELSE Nothing
      BY <1>1, <1>3, NamedBelowPath
    <2> HIDE DEF D, got
    <2> QED
      BY <1>3, <1>5, <2>1
  <1>7. DirPath(q)
    BY <1>1, <1>3, BelowPathIs
  <1>8. got \in Found
    BY <1>3, FoundFields
  <1>9. q \in PathsBelow(d, p)
    <2>1. n \in DirNames(f.node)
      BY DEF DirNames
    <2>2. PathsBelow(d, p) = {BelowPath(p, f.node.entries[nth].name) : nth \in DirNames(f.node)}
      BY <1>1, <1>4, PathsBelowAre
    <2> QED
      BY <2>1, <2>2
  <1>10. SectionIsTrue(d, Section(q, e)) /\ Section(q, e).path = q
    <2>1. Named(d, q) \in Found /\ Named(d, q).kind = "dir" /\ Mirrors(d, e, Named(d, q))
      <3> HIDE DEF got
      <3> QED
        BY <1>3, <1>6, <1>8
    <2> QED
      BY <1>7, <2>1, SectionOf
  <1>11. \A nth \in 1..Len(f.node.entries) : NameAt(f, nth) \in Name /\ (NameAt(f, nth) = e.name => nth = n)
    <2>1. \A l, m \in DOMAIN entries : entries[l].name = entries[m].name => l = m
      <3>1. D.first \in Nat \cup {RootDirectory}
        <4> HIDE DEF D
        <4> QED
          BY <1>1, FoundFields
      <3> HIDE DEF D
      <3> QED
        BY <3>1, UniqueEntries
    <2> HIDE DEF entries
    <2> QED
      BY <1>2, <1>3, <2>1 DEF NameAt
  <1>12. /\ Named(d, q) \in Found /\ Named(d, q).kind = "dir" /\ Named(d, q).name \notin Dots
         /\ Mirrors(d, e, Named(d, q))
    <2> HIDE DEF got
    <2> QED
      BY <1>3, <1>6, <1>8
  <1> QED
    BY <1>3, <1>7, <1>9, <1>10, <1>11, <1>12

\* Nothing below a directory is printed before list_files comes to it.
LEMMA NotYetPrinted ==
    ASSUME NEW d \in Disks, CountsAll(d), NamesAreUnique(d),
           NEW cs, NEW ps, NEW ans, ListInv(d, cs, ps, ans),
           NEW t \in 1..Len(cs), NEW n, n = cs[t].next, n \in 1..Len(cs[t].node.entries),
           IsDirectory(cs[t].node.entries[n]), NEW l \in 1..Len(ans)
    PROVE  ~Starts(BelowPath(ps[t], cs[t].node.entries[n].name), ans[l].path)
  <1> DEFINE f == cs[t]
             p == ps[t]
             name == cs[t].node.entries[n].name
             q == BelowPath(p, name)
             x == ans[l].path
  <1>1. CallTrue(d, f, p, ans) /\ DirPath(p)
    BY DEF ListInv, CallTrue
  <1>2. DirPath(x)
    BY DEF ListInv, Sections
  <1>3. name \in Name /\ \A nth \in 1..Len(f.node.entries) : NameAt(f, nth) \in Name /\ (NameAt(f, nth) = name => nth = n)
    <2>1. n \in 1..Len(f.node.entries) /\ IsDirectory(f.node.entries[n])
      OBVIOUS
    <2> DEFINE e == f.node.entries[n]
    <2> HIDE DEF f
    <2>2. e = f.node.entries[n] /\ IsDirectory(e)
      BY <2>1
    <2> HIDE DEF e
    <2>3. e.name \in Name
          /\ \A nth \in 1..Len(f.node.entries) : NameAt(f, nth) \in Name /\ (NameAt(f, nth) = e.name => nth = n)
      BY <1>1, <2>1, <2>2, NextDirectory, SMTT(30)
    <2> QED
      BY <2>3 DEF e, f
  <1>4. /\ Len(p) \in Nat /\ Len(name) \in Nat \ {0} /\ DirPath(q) /\ Len(q) = Len(p) + Len(name) + 1
        /\ Starts(p, q)
    <2> HIDE DEF p, name
    <2> QED
      BY <1>1, <1>3, BelowPathIs
  <1>5. \A nth \in 1..n - 1 : nth \in 1..Len(f.node.entries)
    BY DEF ListInv
  <1>p. Starts(p, x) /\ x # p => \E nth \in 1..n - 1 : Starts(BelowPath(p, NameAt(f, nth)), x)
    BY DEF ListInv, Passed
  <1> SUFFICES ASSUME Starts(q, x) PROVE FALSE
    OBVIOUS
  <1> HIDE DEF f, p, name, q, x
  <1>6. p \in Seq(STRING) /\ q \in Seq(STRING) /\ x \in Seq(STRING)
    BY <1>1, <1>2, <1>4 DEF DirPath
  <1>7. Starts(p, x)
    BY <1>4, <1>6, StartsWithin
  <1>8. x # p
    BY <1>4 DEF Starts
  <1>9. PICK nth \in 1..n - 1 : Starts(BelowPath(p, NameAt(f, nth)), x)
    BY <1>7, <1>8, <1>p
  <1>10. NameAt(f, nth) \in Name /\ (NameAt(f, nth) = name => nth = n)
    BY <1>3, <1>5
  <1>11. NameAt(f, nth) = name
    <2>1. Starts(BelowPath(p, name), x)
      BY DEF q
    <2> QED
      BY <1>1, <1>3, <1>6, <1>9, <1>10, <2>1, SameName
  <1> QED
    BY <1>10, <1>11

\* The state after list_files has gone to the directory e.
Descends(cs, ps, ans, t, e, q, gs, qs, more) ==
    /\ Len(cs) = t /\ cs[t].next \in 1..Len(cs[t].node.entries)
    /\ e = cs[t].node.entries[cs[t].next] /\ IsDirectory(e)
    /\ q = BelowPath(ps[t], e.name)
    /\ IsSeq(gs) /\ Len(gs) = t + 1 /\ (\A m \in 1..t - 1 : gs[m] = cs[m])
    /\ Advanced(cs[t], gs[t]) /\ gs[t + 1] = Call(q, e)
    /\ IsSeq(qs) /\ Len(qs) = t + 1 /\ (\A m \in 1..t : qs[m] = ps[m]) /\ qs[t + 1] = q
    /\ IsSeq(more) /\ Len(more) = Len(ans) + 1
    /\ \A l \in 1..Len(ans) : more[l] = ans[l]
    /\ more[Len(ans) + 1] = Section(q, e)

\* list_files goes to a directory.
LEMMA ListEnters ==
    ASSUME NEW d \in Disks, CountsAll(d), NamesAreUnique(d),
           NEW cs, NEW ps, NEW ans, ListInv(d, cs, ps, ans), NEW t \in Nat \ {0},
           NEW e, NEW q, NEW gs, NEW qs, NEW more, Descends(cs, ps, ans, t, e, q, gs, qs, more)
    PROVE  ListInv(d, gs, qs, more)
  <1> DEFINE z == Len(ans)
             n == cs[t].next
  <1>0. /\ Len(cs) = t /\ n \in 1..Len(cs[t].node.entries)
        /\ e = cs[t].node.entries[n] /\ IsDirectory(e) /\ q = BelowPath(ps[t], e.name)
    BY DEF Descends
  <1>a. /\ IsSeq(gs) /\ Len(gs) = t + 1 /\ (\A m \in 1..t - 1 : gs[m] = cs[m])
        /\ Advanced(cs[t], gs[t]) /\ gs[t + 1] = Call(q, e)
    BY DEF Descends
  <1>b. IsSeq(qs) /\ Len(qs) = t + 1 /\ (\A m \in 1..t : qs[m] = ps[m]) /\ qs[t + 1] = q
    BY DEF Descends
  <1>10. /\ IsSeq(more) /\ Len(ans) = z /\ Len(more) = z + 1 /\ (\A l \in 1..z : more[l] = ans[l])
         /\ more[z + 1] = Section(q, e)
    BY DEF Descends
  <1>1. z \in Nat /\ t \in 1..t /\ t \in 1..Len(cs)
    BY <1>0, IsSeqFacts, SMTT(30) DEF ListInv, Sections
  <1>2. CallTrue(d, cs[t], ps[t], ans)
    BY <1>1 DEF ListInv
  <1> HIDE DEF n
  <1>3. /\ e.name \in Name /\ DirPath(q)
        /\ Named(d, q) \in Found /\ Named(d, q).kind = "dir" /\ Named(d, q).name \notin Dots
        /\ Mirrors(d, e, Named(d, q))
        /\ q \in PathsBelow(d, ps[t])
        /\ SectionIsTrue(d, Section(q, e)) /\ Section(q, e).path = q
    <2> DEFINE f == cs[t]
               p == ps[t]
    <2>1. /\ CallTrue(d, f, p, ans) /\ n \in 1..Len(f.node.entries) /\ IsDirectory(e)
          /\ e = f.node.entries[n] /\ q = BelowPath(p, e.name)
      BY <1>0, <1>2
    <2> HIDE DEF f, p
    <2>2. /\ e.name \in Name /\ DirPath(q)
          /\ Named(d, q) \in Found /\ Named(d, q).kind = "dir" /\ Named(d, q).name \notin Dots
          /\ Mirrors(d, e, Named(d, q))
          /\ q \in PathsBelow(d, p)
          /\ SectionIsTrue(d, Section(q, e)) /\ Section(q, e).path = q
      BY <2>1, NextDirectory
    <2> QED
      BY <2>2 DEF p
  <1>4. \A l \in 1..z : ~Starts(q, ans[l].path)
    <2>1. \A l \in 1..z : ~Starts(BelowPath(ps[t], cs[t].node.entries[n].name), ans[l].path)
      BY <1>0, <1>1, NotYetPrinted DEF n
    <2> QED
      BY <1>0, <2>1
  <1>5. Starts(q, q) /\ Starts(ps[t], q)
    <2>1. DirPath(ps[t])
      BY <1>2 DEF CallTrue
    <2>2. Starts(ps[t], q)
      <3> DEFINE p == ps[t]
      <3>1. DirPath(p) /\ q = BelowPath(p, e.name)
        BY <1>0, <2>1
      <3> HIDE DEF p
      <3>2. Starts(p, q)
        BY <1>3, <3>1, BelowPathIs
      <3> QED
        BY <3>2 DEF p
    <2>3. q \in Seq(STRING)
      BY <1>3 DEF DirPath
    <2>4. Starts(q, q)
      BY <2>3 DEF Starts
    <2> QED
      BY <2>2, <2>4
  <1>6. gs[t].node = cs[t].node /\ gs[t].next = n + 1 /\ n \in Nat \ {0}
    <2>1. Len(cs[t].node.entries) \in Nat
      BY <1>2, NodeEntries DEF CallTrue
    <2> QED
      <3>1. gs[t].node = cs[t].node /\ gs[t].next = cs[t].next + 1
        BY <1>a DEF Advanced
      <3>2. n \in Nat \ {0}
        BY <1>0, <2>1
      <3> QED
        BY <3>1, <3>2 DEF n
  <1>7. more[z + 1].path = q /\ \A l \in 1..z : more[l].path = ans[l].path
    BY <1>3, <1>10
  <1>8. gs[t + 1].node = e /\ gs[t + 1].next = 1 /\ gs[t + 1].len = Len(q)
        /\ DOMAIN gs[t + 1] = {"node", "len", "next"}
    BY <1>a DEF Call
  <1>c. Len(e.entries) \in Nat
    BY <1>3, NodeEntries
  <1>9. PathsBelow(d, q) = {BelowPath(q, e.entries[nth].name) : nth \in DirNames(e)}
    BY <1>3, PathsBelowAre
  <1> HIDE DEF z
  <1>11. \A m \in 1..t + 1 : CallTrue(d, gs[m], qs[m], more)
    <2> TAKE m \in 1..t + 1
    <2>1. CASE m = t + 1
      <3>1. z + 1 \in 1..Len(more) /\ more[z + 1].path = q
        BY <1>1, <1>7, <1>10
      <3>2. 1 \in 1..Len(e.entries) + 1
        BY <1>c
      <3>3. CallTrue(d, gs[t + 1], q, more)
        BY <1>3, <1>8, <3>1, <3>2 DEF CallTrue
      <3> QED
        BY <1>b, <2>1, <3>3
    <2>2. CASE m = t
      <3>1. CallTrue(d, gs[t], ps[t], ans)
        <4>1. cs[t].next \in 1..Len(cs[t].node.entries)
          BY <1>0 DEF n
        <4> QED
          BY <1>2, <1>a, <4>1, AdvancedIsTrue
      <3>2. CallTrue(d, gs[t], ps[t], more)
        BY <1>1, <1>10, <3>1, CallStaysTrue
      <3> QED
        BY <1>1, <1>b, <2>2, <3>2
    <2>3. CASE m \in 1..t - 1
      <3>1. CallTrue(d, cs[m], ps[m], ans)
        BY <1>0, <2>3 DEF ListInv
      <3>2. CallTrue(d, cs[m], ps[m], more)
        BY <1>1, <1>10, <3>1, CallStaysTrue
      <3>3. m \in 1..t
        BY <2>3
      <3> QED
        BY <1>a, <1>b, <2>3, <3>2, <3>3
    <2> QED
      BY <2>1, <2>2, <2>3
  <1>12. Nested(gs, qs)
    <2> SUFFICES ASSUME NEW nth \in 1..t + 1, NEW m \in 1..nth - 1
                 PROVE  gs[m].next > 1 /\ Starts(BelowPath(qs[m], NameAt(gs[m], gs[m].next - 1)), qs[nth])
      BY <1>a, <1>b DEF Nested
    <2>1. CASE nth \in 1..t
      <3>1. m \in 1..t - 1 /\ m \in 1..t /\ nth \in 1..Len(cs)
        BY <1>0, <2>1
      <3>2. cs[m].next > 1 /\ Starts(BelowPath(ps[m], NameAt(cs[m], cs[m].next - 1)), ps[nth])
        BY <3>1 DEF ListInv, Nested
      <3> QED
        BY <1>a, <1>b, <2>1, <3>1, <3>2
    <2>2. CASE nth = t + 1 /\ m = t
      <3>1. gs[t].next > 1 /\ gs[t].next - 1 = n
        BY <1>6
      <3>2. NameAt(gs[t], n) = e.name
        BY <1>0, <1>6 DEF NameAt
      <3>3. qs[t] = ps[t] /\ qs[t + 1] = q /\ q = BelowPath(ps[t], e.name)
        BY <1>0, <1>1, <1>b
      <3> QED
        BY <1>5, <2>2, <3>1, <3>2, <3>3
    <2>3. CASE nth = t + 1 /\ m \in 1..t - 1
      <3>1. m \in 1..t /\ t \in 1..Len(cs) /\ gs[m] = cs[m] /\ qs[m] = ps[m] /\ qs[nth] = q
        BY <1>0, <1>1, <1>a, <1>b, <2>3
      <3> DEFINE y == BelowPath(ps[m], NameAt(cs[m], cs[m].next - 1))
      <3>2. cs[m].next > 1 /\ Starts(y, ps[t])
        BY <2>3, <3>1 DEF ListInv, Nested
      <3>3. y \in Seq(STRING)
        <4>1. CallTrue(d, cs[m], ps[m], ans)
          BY <3>1 DEF ListInv
        <4>2. cs[m].next - 1 \in 1..Len(cs[m].node.entries)
          <5>1. cs[m].next \in 1..Len(cs[m].node.entries) + 1 /\ Len(cs[m].node.entries) \in Nat
            BY <4>1, NodeEntries DEF CallTrue
          <5> QED
            BY <3>2, <5>1
        <4>3. NameAt(cs[m], cs[m].next - 1) \in Name
          <5> DEFINE E == Named(d, ps[m])
          <5>1. E \in Found /\ E.kind = "dir" /\ Mirrors(d, cs[m].node, E)
            BY <4>1 DEF CallTrue
          <5> HIDE DEF E
          <5>2. \A other \in 1..Len(cs[m].node.entries) : cs[m].node.entries[other].name \in Name
            BY <5>1, NodeEntries
          <5> QED
            BY <4>2, <5>2 DEF NameAt
        <4>4. DirPath(ps[m])
          BY <4>1 DEF CallTrue
        <4> QED
          BY <4>3, <4>4, BelowPathIs DEF DirPath
      <3> HIDE DEF y
      <3>4. ps[t] \in Seq(STRING) /\ q \in Seq(STRING)
        BY <1>2, <1>3 DEF CallTrue, DirPath
      <3>5. Starts(y, q)
        BY <1>5, <3>2, <3>3, <3>4, StartsWithin
      <3> QED
        BY <3>1, <3>2, <3>5 DEF y
    <2> QED
      BY <2>1, <2>2, <2>3
  <1>13. Sections(d, more)
    <2>1. \A l \in 1..z + 1 : SectionIsTrue(d, more[l]) /\ DirPath(more[l].path)
      <3> TAKE l \in 1..z + 1
      <3>1. CASE l = z + 1
        BY <1>3, <1>10, <3>1
      <3>2. CASE l \in 1..z
        BY <1>10, <3>2 DEF ListInv, Sections
      <3> QED
        BY <1>1, <3>1, <3>2
    <2>2. \A l \in 2..z + 1 : \E other \in 1..l - 1 : more[l].path \in PathsBelow(d, more[other].path)
      <3> TAKE l \in 2..z + 1
      <3>1. CASE l = z + 1
        <4>1. PICK other \in 1..z : ans[other].path = ps[t]
          BY <1>2, <1>10 DEF CallTrue
        <4>2. more[other].path = ps[t] /\ other \in 1..l - 1
          BY <1>1, <1>7, <3>1, <4>1
        <4> QED
          BY <1>3, <1>7, <3>1, <4>2
      <3>2. CASE l \in 2..z
        <4>1. PICK other \in 1..l - 1 : ans[l].path \in PathsBelow(d, ans[other].path)
          BY <1>10, <3>2 DEF ListInv, Sections
        <4>2. other \in 1..z /\ l \in 1..z
          BY <1>1, <3>2
        <4> QED
          BY <1>7, <4>1, <4>2
      <3> QED
        BY <1>1, <3>1, <3>2
    <2>3. \A other, l \in 1..z + 1 : more[other].path = more[l].path => other = l
      <3>1. \A l \in 1..z : more[l].path # q
        BY <1>4, <1>5, <1>7
      <3>2. \A other, l \in 1..z : more[other].path = more[l].path => other = l
        BY <1>7, <1>10 DEF ListInv, Sections
      <3>3. \A l \in 1..z + 1 : l \in 1..z \/ l = z + 1
        BY <1>1
      <3> QED
        <4> TAKE other, l \in 1..z + 1
        <4> HAVE more[other].path = more[l].path
        <4>1. CASE other \in 1..z /\ l \in 1..z
          BY <3>2, <4>1
        <4>2. CASE other = z + 1 /\ l \in 1..z
          BY <1>7, <3>1, <4>2
        <4>3. CASE other \in 1..z /\ l = z + 1
          BY <1>7, <3>1, <4>3
        <4> QED
          BY <3>3, <4>1, <4>2, <4>3
    <2> QED
      BY <1>10, <2>1, <2>2, <2>3 DEF Sections
  <1>14. Covered(d, gs, qs, more)
    <2> SUFFICES ASSUME NEW l \in 1..z + 1, Named(d, more[l].path).name \notin Dots,
                        NEW p \in PathsBelow(d, more[l].path)
                 PROVE  (\E other \in l + 1..z + 1 : more[other].path = p) \/ Awaited(gs, qs, p)
      BY <1>10 DEF Covered
    <2>1. CASE l = z + 1
      <3>1. p \in PathsBelow(d, q)
        BY <1>7, <2>1
      <3>2. PICK nth \in DirNames(e) : p = BelowPath(q, e.entries[nth].name)
        BY <1>9, <3>1
      <3>3. nth \in 1..Len(e.entries) /\ IsDirectory(e.entries[nth])
        BY <3>2 DEF DirNames
      <3>4. t + 1 \in 1..Len(gs) /\ qs[t + 1] = q
        BY <1>1, <1>a, <1>b
      <3>5. nth \in gs[t + 1].next..Len(gs[t + 1].node.entries)
            /\ IsDirectory(gs[t + 1].node.entries[nth])
            /\ p = BelowPath(qs[t + 1], NameAt(gs[t + 1], nth))
        BY <1>8, <1>c, <3>2, <3>3, <3>4 DEF NameAt
      <3> QED
        BY <3>4, <3>5 DEF Awaited
    <2>2. CASE l \in 1..z
      <3>1. p \in PathsBelow(d, ans[l].path) /\ Named(d, ans[l].path).name \notin Dots
        BY <1>7, <2>2
      <3>2. (\E other \in l + 1..z : ans[other].path = p) \/ Awaited(cs, ps, p)
        BY <1>10, <2>2, <3>1 DEF ListInv, Covered
      <3>3. CASE \E other \in l + 1..z : ans[other].path = p
        <4>1. PICK other \in l + 1..z : ans[other].path = p
          BY <3>3
        <4>2. other \in l + 1..z + 1 /\ other \in 1..z
          BY <1>1, <2>2
        <4> QED
          BY <1>7, <4>1, <4>2
      <3>4. CASE Awaited(cs, ps, p)
        <4>1. PICK m \in 1..t : \E nth \in cs[m].next..Len(cs[m].node.entries) :
                IsDirectory(cs[m].node.entries[nth]) /\ p = BelowPath(ps[m], NameAt(cs[m], nth))
          BY <1>0, <3>4 DEF Awaited
        <4>2. PICK nth \in cs[m].next..Len(cs[m].node.entries) :
                IsDirectory(cs[m].node.entries[nth]) /\ p = BelowPath(ps[m], NameAt(cs[m], nth))
          BY <4>1
        <4>3. CASE m = t /\ nth = n
          <5>1. p = q
            BY <1>0, <4>2, <4>3 DEF NameAt
          <5>2. z + 1 \in l + 1..z + 1
            BY <1>1, <2>2
          <5> QED
            BY <1>7, <5>1, <5>2
        <4>4. CASE m = t /\ nth # n
          <5>1. nth \in gs[t].next..Len(gs[t].node.entries)
            <6>1. nth \in n..Len(cs[t].node.entries)
              BY <4>2, <4>4 DEF n
            <6> QED
              BY <1>6, <4>4, <6>1
          <5>2. IsDirectory(gs[t].node.entries[nth]) /\ p = BelowPath(qs[t], NameAt(gs[t], nth))
            BY <1>1, <1>6, <1>b, <4>2, <4>4 DEF NameAt
          <5>3. t \in 1..Len(gs)
            BY <1>1, <1>a
          <5> QED
            BY <5>1, <5>2, <5>3 DEF Awaited
        <4>5. CASE m # t
          <5>1. m \in 1..Len(gs) /\ gs[m] = cs[m] /\ qs[m] = ps[m]
            BY <1>a, <1>b, <4>5
          <5> QED
            BY <4>2, <5>1 DEF Awaited
        <4> QED
          BY <4>3, <4>4, <4>5
      <3> QED
        BY <3>2, <3>3, <3>4
    <2> QED
      BY <1>1, <2>1, <2>2
  <1>15. Passed(gs, qs, more)
    <2> SUFFICES ASSUME NEW l \in 1..z + 1, NEW m \in 1..t + 1,
                        Starts(qs[m], more[l].path), more[l].path # qs[m]
                 PROVE  \E nth \in 1..gs[m].next - 1 :
                          Starts(BelowPath(qs[m], NameAt(gs[m], nth)), more[l].path)
      BY <1>10, <1>a DEF Passed
    <2>1. CASE m = t + 1
      <3>1. l # z + 1
        BY <1>7, <1>b, <2>1
      <3>2. l \in 1..z /\ Starts(q, ans[l].path)
        BY <1>1, <1>7, <1>b, <2>1, <3>1
      <3> QED
        BY <1>4, <3>2
    <2>2. CASE m \in 1..t /\ l = z + 1
      <3>1. CASE m = t
        <4>1. n \in 1..gs[t].next - 1
          BY <1>6
        <4>2. NameAt(gs[t], n) = e.name /\ qs[t] = ps[t]
          BY <1>0, <1>1, <1>6, <1>b DEF NameAt
        <4>3. Starts(BelowPath(qs[t], NameAt(gs[t], n)), more[l].path)
          BY <1>0, <1>5, <1>7, <2>2, <4>2
        <4> QED
          BY <3>1, <4>1, <4>3
      <3>2. CASE m # t
        <4>1. m \in 1..t + 1 - 1 /\ t + 1 \in 1..Len(gs) /\ gs[m] = cs[m] /\ m \in 1..t - 1
          BY <1>1, <1>a, <2>2, <3>2
        <4>2. gs[m].next > 1 /\ Starts(BelowPath(qs[m], NameAt(gs[m], gs[m].next - 1)), qs[t + 1])
          BY <1>12, <4>1 DEF Nested
        <4>3. gs[m].next - 1 \in 1..gs[m].next - 1
          <5>1. CallTrue(d, gs[m], qs[m], more)
            BY <1>11
          <5>2. gs[m].next \in Int
            <6>1. Len(gs[m].node.entries) \in Nat
              BY <5>1, NodeEntries DEF CallTrue
            <6> QED
              BY <5>1, <6>1 DEF CallTrue
          <5> QED
            BY <4>2, <5>2
        <4> QED
          BY <1>7, <1>b, <2>2, <4>2, <4>3
      <3> QED
        BY <3>1, <3>2
    <2>3. CASE m \in 1..t /\ l \in 1..z
      <3>1. Starts(ps[m], ans[l].path) /\ ans[l].path # ps[m] /\ qs[m] = ps[m] /\ more[l].path = ans[l].path
        BY <1>7, <1>b, <2>3
      <3>2. PICK nth \in 1..cs[m].next - 1 : Starts(BelowPath(ps[m], NameAt(cs[m], nth)), ans[l].path)
        BY <1>0, <1>10, <2>3, <3>1 DEF ListInv, Passed
      <3>3. CASE m = t
        <4>1. nth \in 1..gs[t].next - 1
          BY <1>6, <3>2, <3>3 DEF n
        <4>2. NameAt(gs[t], nth) = NameAt(cs[t], nth)
          BY <1>6 DEF NameAt
        <4> QED
          BY <3>1, <3>2, <3>3, <4>1, <4>2
      <3>4. CASE m # t
        <4>1. gs[m] = cs[m]
          BY <1>a, <2>3, <3>4
        <4> QED
          BY <3>1, <3>2, <4>1
      <3> QED
        BY <3>3, <3>4
    <2> QED
      BY <1>1, <2>1, <2>2, <2>3
  <1> QED
    BY <1>a, <1>b, <1>11, <1>12, <1>13, <1>14, <1>15 DEF ListInv

\* ls lists, or it has listed everything.
IsListing(d, p, cs, ps, ans) ==
    ListInv(d, cs, ps, ans) /\ ans # << >> /\ ans[1].path = AsDirectory(p)

\* While ls lists, some paths make the calls and the sections a listing, and
\* when it has ended no call is left.
LsInv ==
    /\ at = "list" => \E ps : IsListing(disk, path, calls, ps, answer) /\ calls # << >> /\ buf = ps[Len(calls)]
    /\ Answered /\ command = "ls" /\ Named(disk, path).kind = "dir" => IsListing(disk, path, << >>, << >>, answer)

\* The first section is the one of the directory asked for.
LEMMA LsKeepsLsInv ==
    ASSUME disk \in Disks, CountsAll(disk), NamesAreUnique(disk), ShellInv, Ls
    PROVE  LsInv'
  <1> DEFINE base == AsDirectory(path)
             e == Named(disk, path)
             ss == <<Section(base, file)>>
             cs == <<Call(base, file)>>
             ps == <<base>>
  <1>1. at = "found" /\ command = "ls" /\ UNCHANGED <<disk, command, path>>
    BY DEF Ls, mount
  <1>2. FoundInv /\ Asked
    BY <1>1 DEF ShellInv, FoundInv
  <1>3. path \in Seq(STRING) /\ IsAbsolute(path) /\ Depth(path) \in Nat
    BY <1>2, PathAssumption, CutsType, Zenon DEF Asked
  <1>4. e \in Found
    BY <1>3, ReachedFacts DEF Named
  <1>5. Mirrors(disk, file, e) /\ e.kind # "end"
    BY <1>2 DEF FoundInv
  <1>6. file.type = e.kind
    <2> HIDE DEF e
    <2>1. Says(disk, file, e)
      BY <1>5, MirrorsBelow
    <2> QED
      BY <2>1 DEF Says
  <1>7. CASE file.type = "file"
    <2>1. at' = "prompt" /\ Named(disk', path').kind # "dir"
      BY <1>1, <1>6, <1>7 DEF Ls
    <2> QED
      BY <2>1 DEF LsInv
  <1>8. CASE file.type # "file"
    <2>1. at' = "list" /\ buf' = base /\ calls' = cs /\ answer' = ss
      BY <1>8 DEF Ls
    <2>2. e.kind = "dir"
      <3> HIDE DEF e
      <3> QED
        BY <1>4, <1>5, <1>6, <1>8, FoundFields
    <2>3. DirPath(base) /\ Named(disk, base) = e
      BY <1>3, <2>2, NamedAsDirectory
    <2> HIDE DEF base
    <2>4. Named(disk, base) \in Found /\ Named(disk, base).kind = "dir" /\ Mirrors(disk, file, Named(disk, base))
      BY <1>4, <1>5, <2>2, <2>3
    <2>5. SectionIsTrue(disk, Section(base, file)) /\ Section(base, file).path = base
      BY <2>3, <2>4, SectionOf
    <2>6. /\ IsSeq(cs) /\ Len(cs) = 1 /\ cs[1] = Call(base, file) /\ cs # << >>
          /\ IsSeq(ps) /\ Len(ps) = 1 /\ ps[1] = base
          /\ IsSeq(ss) /\ Len(ss) = 1 /\ ss[1] = Section(base, file) /\ ss # << >>
      <3>1. cs \in Seq({Call(base, file)}) /\ ps \in Seq({base}) /\ ss \in Seq({Section(base, file)})
        OBVIOUS
      <3> QED
        BY <3>1 DEF IsSeq
    <2>7. /\ DOMAIN cs[1] = {"node", "len", "next"} /\ cs[1].node = file /\ cs[1].len = Len(base)
          /\ cs[1].next = 1
      BY <2>6 DEF Call
    <2> HIDE DEF cs, ps, ss, e
    <2>8. Len(file.entries) \in Nat
      BY <2>4, NodeEntries
    <2>9. \A m \in 1..1 : m = 1
      OBVIOUS
    <2>10. \A m \in 1..Len(cs) : CallTrue(disk, cs[m], ps[m], ss)
      <3>1. 1 \in 1..Len(file.entries) + 1 /\ 1 \in 1..Len(ss) /\ ss[1].path = base
        BY <2>5, <2>6, <2>8
      <3>2. CallTrue(disk, cs[1], base, ss)
        BY <2>3, <2>4, <2>7, <3>1 DEF CallTrue
      <3> QED
        BY <2>6, <2>9, <3>2
    <2>11. Nested(cs, ps)
      BY <2>6, <2>9 DEF Nested
    <2>12. Sections(disk, ss)
      BY <2>3, <2>5, <2>6, <2>9 DEF Sections
    <2>13. Covered(disk, cs, ps, ss)
      <3> SUFFICES ASSUME Named(disk, base).name \notin Dots, NEW p \in PathsBelow(disk, base)
                   PROVE  Awaited(cs, ps, p)
        BY <2>5, <2>6, <2>9 DEF Covered
      <3>1. PathsBelow(disk, base) = {BelowPath(base, file.entries[n].name) : n \in DirNames(file)}
        BY <2>4, PathsBelowAre
      <3>2. PICK n \in DirNames(file) : p = BelowPath(base, file.entries[n].name)
        BY <3>1
      <3>3. n \in 1..Len(file.entries) /\ IsDirectory(file.entries[n])
        BY <3>2 DEF DirNames
      <3>4. 1 \in 1..Len(cs) /\ n \in cs[1].next..Len(cs[1].node.entries)
            /\ IsDirectory(cs[1].node.entries[n]) /\ p = BelowPath(ps[1], NameAt(cs[1], n))
        BY <2>6, <2>7, <3>2, <3>3 DEF NameAt
      <3> QED
        BY <3>4 DEF Awaited
    <2>14. Passed(cs, ps, ss)
      BY <2>5, <2>6, <2>9 DEF Passed
    <2>15. ListInv(disk, cs, ps, ss)
      BY <2>6, <2>10, <2>11, <2>12, <2>13, <2>14 DEF ListInv
    <2>16. ss[1].path = base /\ buf' = ps[Len(cs)]
      BY <2>1, <2>5, <2>6
    <2>17. IsListing(disk', path', calls', ps, answer') /\ calls' # << >> /\ buf' = ps[Len(calls')]
      BY <1>1, <2>1, <2>6, <2>15, <2>16 DEF IsListing, base
    <2> QED
      BY <2>1, <2>17 DEF LsInv, Answered
  <1> QED
    BY <1>7, <1>8

\* The listing goes on.
LEMMA ListBelowKeepsLsInv ==
    ASSUME disk \in Disks, CountsAll(disk), NamesAreUnique(disk), LsInv, ListBelow
    PROVE  LsInv'
  <1> DEFINE t == Len(calls)
             f == calls[t]
             n == f.next
             e == f.node.entries[n]
             g == [f EXCEPT !.next = @ + 1]
  <1>1. /\ at = "list" /\ at' = "list" /\ calls # << >> /\ n \in DOMAIN f.node.entries
        /\ UNCHANGED <<disk, command, path>>
        /\ IF IsDirectory(e)
           THEN /\ buf' = buf \o e.name \o <<"/">>
                /\ calls' = Append([calls EXCEPT ![t].next = @ + 1], Call(buf', e))
                /\ answer' = Append(answer, Section(buf', e))
           ELSE /\ calls' = [calls EXCEPT ![t].next = @ + 1]
                /\ UNCHANGED <<buf, answer>>
    BY Zenon DEF ListBelow, Listing, AllListed, Listed, mount
  <1>2. PICK ps : IsListing(disk, path, calls, ps, answer) /\ buf = ps[t]
    BY <1>1, Zenon DEF LsInv
  <1>3. ListInv(disk, calls, ps, answer) /\ answer # << >> /\ answer[1].path = AsDirectory(path)
    BY <1>2 DEF IsListing
  <1>4. IsSeq(calls) /\ IsSeq(ps) /\ Len(ps) = t /\ IsSeq(answer)
    BY <1>3 DEF ListInv, Sections
  <1>5. t \in Nat \ {0} /\ t \in 1..t /\ Len(answer) \in Nat \ {0} /\ 1 \in 1..Len(answer)
    <2>1. t \in Nat /\ t # 0 /\ Len(answer) \in Nat /\ Len(answer) # 0
      BY <1>1, <1>3, <1>4, IsSeqFacts, Zenon
    <2> QED
      BY <2>1
  <1>6. CallTrue(disk, f, ps[t], answer)
    BY <1>3, <1>5 DEF ListInv
  <1>7. DOMAIN f = {"node", "len", "next"} /\ n \in 1..Len(f.node.entries)
    <2>1. DOMAIN f.node.entries = 1..Len(f.node.entries)
      BY <1>6, NodeEntries DEF CallTrue
    <2> QED
      BY <1>1, <1>6, <2>1, Zenon DEF CallTrue
  <1>8. [calls EXCEPT ![t].next = @ + 1] = With(calls, t, g)
    BY DEF With
  <1>9. Advanced(f, g)
    <2> HIDE DEF f
    <2> QED
      BY <1>7 DEF Advanced
  <1> HIDE DEF g
  <1> DEFINE W == With(calls, t, g)
  <1>10. IsSeq(W) /\ Len(W) = t /\ W[t] = g /\ \A m \in 1..t - 1 : W[m] = calls[m]
    <2>1. /\ IsSeq(With(calls, t, g)) /\ Len(With(calls, t, g)) = Len(calls)
          /\ \A m \in 1..Len(calls) : With(calls, t, g)[m] = IF m = t THEN g ELSE calls[m]
      BY <1>4, <1>5, WithIsSeq
    <2> QED
      BY <1>5, <2>1
  <1> HIDE DEF W
  <1>11. CASE ~IsDirectory(e)
    <2>1. calls' = W /\ answer' = answer /\ buf' = buf
      BY <1>1, <1>8, <1>11 DEF W
    <2>2. ListInv(disk, W, ps, answer)
      <3>1. /\ Len(calls) = t /\ n = calls[t].next /\ n \in 1..Len(calls[t].node.entries)
            /\ ~IsDirectory(calls[t].node.entries[n]) /\ Advanced(calls[t], W[t])
        BY <1>7, <1>9, <1>10, <1>11
      <3> HIDE DEF t, n, f, e
      <3> QED
        BY <1>3, <1>5, <1>10, <3>1, ListSkips
    <2>3. W # << >> /\ buf' = ps[Len(W)]
      BY <1>2, <1>5, <1>10, <2>1, IsSeqFacts
    <2>4. IsListing(disk', path', calls', ps, answer') /\ calls' # << >> /\ buf' = ps[Len(calls')]
      BY <1>1, <1>3, <2>1, <2>2, <2>3, Zenon DEF IsListing
    <2> QED
      BY <1>1, <2>4, Zenon DEF LsInv, Answered
  <1>12. CASE IsDirectory(e)
    <2> DEFINE q == BelowPath(ps[t], e.name)
               gs == Append(W, Call(q, e))
               qs == Append(ps, q)
               more == Append(answer, Section(q, e))
    <2>1. buf' = q /\ calls' = gs /\ answer' = more
      BY <1>1, <1>2, <1>8, <1>12, Zenon DEF W, BelowPath
    <2>2. /\ IsSeq(gs) /\ Len(gs) = t + 1 /\ gs[t + 1] = Call(q, e)
          /\ \A m \in 1..t : gs[m] = W[m]
      <3> HIDE DEF q, t, e
      <3> QED
        BY <1>10, AppendIsSeq
    <2>3. /\ IsSeq(qs) /\ Len(qs) = t + 1 /\ qs[t + 1] = q
          /\ \A m \in 1..t : qs[m] = ps[m]
      <3> HIDE DEF q, t, e
      <3> QED
        BY <1>4, AppendIsSeq
    <2>4. /\ IsSeq(more) /\ Len(more) = Len(answer) + 1 /\ more[Len(answer) + 1] = Section(q, e)
          /\ \A m \in 1..Len(answer) : more[m] = answer[m]
      <3> HIDE DEF q, t, e
      <3> QED
        BY <1>4, AppendIsSeq
    <2> HIDE DEF gs, qs, more
    <2>5. Descends(calls, ps, answer, t, e, q, gs, qs, more)
      <3>1. /\ Len(calls) = t /\ calls[t].next \in 1..Len(calls[t].node.entries)
            /\ e = calls[t].node.entries[calls[t].next] /\ IsDirectory(e)
            /\ q = BelowPath(ps[t], e.name)
        BY <1>7, <1>12
      <3>2. (\A m \in 1..t - 1 : gs[m] = calls[m]) /\ Advanced(calls[t], gs[t])
        <4>1. gs[t] = g
          BY <1>5, <1>10, <2>2
        <4>2. \A m \in 1..t - 1 : m \in 1..t
          BY <1>5
        <4> QED
          BY <1>9, <1>10, <2>2, <4>1, <4>2
      <3> HIDE DEF q, t, e
      <3> QED
        BY <2>2, <2>3, <2>4, <3>1, <3>2 DEF Descends
    <2>6. ListInv(disk, gs, qs, more)
      <3> HIDE DEF q, t, e
      <3> QED
        BY <1>3, <1>5, <2>5, ListEnters
    <2>7. gs # << >> /\ buf' = qs[Len(gs)]
      <3>1. Len(gs) # 0
        BY <1>5, <2>2
      <3> QED
        BY <2>1, <2>2, <2>3, <3>1, IsSeqFacts
    <2>8. more # << >> /\ more[1].path = AsDirectory(path)
      <3>1. Len(more) # 0
        BY <1>5, <2>4
      <3> QED
        BY <1>3, <1>5, <2>4, <3>1, IsSeqFacts
    <2>9. IsListing(disk', path', calls', qs, answer') /\ calls' # << >> /\ buf' = qs[Len(calls')]
      BY <1>1, <2>1, <2>6, <2>7, <2>8, Zenon DEF IsListing
    <2> QED
      BY <1>1, <2>9, Zenon DEF LsInv, Answered
  <1> QED
    BY <1>11, <1>12

\* It comes back.
LEMMA ListEndsKeepsLsInv ==
    ASSUME disk \in Disks, CountsAll(disk), NamesAreUnique(disk), LsInv, ListEnds
    PROVE  LsInv'
  <1> DEFINE t == Len(calls)
             f == calls[t]
  <1>1. /\ at = "list" /\ calls # << >> /\ f.next \notin DOMAIN f.node.entries
        /\ UNCHANGED <<disk, command, path, answer>>
        /\ calls' = Front(calls)
        /\ IF t = 1 THEN at' = "prompt"
           ELSE buf' = SubSeq(buf, 1, Last(calls').len) /\ at' = at
    BY DEF ListEnds, Listing, AllListed, Listed, mount
  <1>2. PICK ps : IsListing(disk, path, calls, ps, answer) /\ buf = ps[t]
    BY <1>1 DEF LsInv
  <1>3. ListInv(disk, calls, ps, answer) /\ answer # << >> /\ answer[1].path = AsDirectory(path)
    BY <1>2 DEF IsListing
  <1>4. IsSeq(calls) /\ IsSeq(ps) /\ Len(ps) = t
    BY <1>3 DEF ListInv
  <1>5. t \in Nat \ {0} /\ t \in 1..t /\ ps # << >>
    <2>1. t \in Nat /\ t # 0
      BY <1>1, <1>4, IsSeqFacts
    <2> QED
      BY <1>4, <2>1, IsSeqFacts
  <1>6. CallTrue(disk, f, ps[t], answer)
    BY <1>3, <1>5 DEF ListInv
  <1>7. f.next \notin 1..Len(f.node.entries)
    <2>1. DOMAIN f.node.entries = 1..Len(f.node.entries)
      BY <1>6, NodeEntries DEF CallTrue
    <2> QED
      BY <1>1, <2>1
  <1> DEFINE gs == Front(calls)
             qs == Front(ps)
  <1>8. IsSeq(gs) /\ Len(gs) = t - 1 /\ \A m \in 1..t - 1 : gs[m] = calls[m]
    BY <1>1, <1>4, FrontIsSeq
  <1>9. IsSeq(qs) /\ Len(qs) = t - 1 /\ \A m \in 1..t - 1 : qs[m] = ps[m]
    BY <1>4, <1>5, FrontIsSeq
  <1> HIDE DEF gs, qs
  <1>10. ListInv(disk, gs, qs, answer)
    <2>1. /\ Len(calls) = t /\ calls[t].next \notin 1..Len(calls[t].node.entries)
          /\ t \in Nat \ {0}
      BY <1>5, <1>7
    <2>2. ListInv(disk, calls, ps, answer)
      BY <1>3
    <2> HIDE DEF t, f
    <2> QED
      BY <1>8, <1>9, <2>1, <2>2, ListReturns
  <1>11. calls' = gs
    BY <1>1 DEF gs
  <1>12. CASE t = 1
    <2>1. gs = << >> /\ qs = << >>
      <3>1. Len(gs) = 0 /\ Len(qs) = 0
        BY <1>8, <1>9, <1>12
      <3> QED
        BY <1>8, <1>9, <3>1, IsSeqFacts
    <2>2. IsListing(disk', path', << >>, << >>, answer')
      BY <1>1, <1>3, <1>10, <2>1 DEF IsListing
    <2> QED
      BY <1>1, <1>12, <2>2 DEF LsInv
  <1>13. CASE t # 1
    <2>1. t - 1 \in 1..t - 1 /\ t - 1 \in 1..t /\ t - 1 = Len(gs)
      BY <1>5, <1>8, <1>13
    <2>2. gs # << >>
      BY <1>8, <2>1, IsSeqFacts
    <2>3. Last(gs) = calls[t - 1]
      BY <1>8, <2>1 DEF Last
    <2> DEFINE p == ps[t - 1]
    <2>4. CallTrue(disk, calls[t - 1], p, answer)
      BY <1>3, <2>1 DEF ListInv
    <2>5. Last(gs).len = Len(p) /\ DirPath(p) /\ DirPath(ps[t])
      BY <1>6, <2>3, <2>4 DEF CallTrue
    <2> DEFINE y == BelowPath(p, NameAt(calls[t - 1], calls[t - 1].next - 1))
    <2>6. calls[t - 1].next > 1 /\ Starts(y, ps[t])
      BY <1>3, <1>5, <2>1 DEF ListInv, Nested
    <2>7. NameAt(calls[t - 1], calls[t - 1].next - 1) \in Name
      <3> DEFINE h == calls[t - 1]
                 E == Named(disk, p)
      <3>1. E \in Found /\ E.kind = "dir" /\ Mirrors(disk, h.node, E) /\ h.next \in 1..Len(h.node.entries) + 1
        BY <2>4 DEF CallTrue
      <3>2. h.next > 1
        BY <2>6
      <3> HIDE DEF E, h
      <3>3. Len(h.node.entries) \in Nat /\ \A n \in 1..Len(h.node.entries) : h.node.entries[n].name \in Name
        BY <3>1, NodeEntries
      <3>4. h.next - 1 \in 1..Len(h.node.entries)
        BY <3>1, <3>2, <3>3
      <3>5. NameAt(h, h.next - 1) \in Name
        BY <3>3, <3>4 DEF NameAt
      <3> QED
        BY <3>5 DEF h
    <2>8. Starts(p, ps[t])
      <3> DEFINE name == NameAt(calls[t - 1], calls[t - 1].next - 1)
                 r == ps[t]
      <3>1. name \in Name /\ DirPath(p) /\ y = BelowPath(p, name) /\ Starts(y, r) /\ r \in Seq(STRING)
        BY <2>5, <2>6, <2>7 DEF DirPath
      <3> HIDE DEF name, p, y, r
      <3>2. Starts(p, y) /\ y \in Seq(STRING) /\ p \in Seq(STRING)
        BY <3>1, BelowPathIs DEF DirPath
      <3>3. Starts(p, r)
        BY <3>1, <3>2, StartsWithin
      <3> QED
        BY <3>3 DEF r
    <2>9. buf' = p
      <3>1. buf' = SubSeq(ps[t], 1, Len(p))
        BY <1>1, <1>2, <1>11, <1>13, <2>5
      <3> DEFINE r == ps[t]
      <3>2. r \in Seq(STRING) /\ p \in Seq(STRING) /\ Starts(p, r)
        BY <2>5, <2>8 DEF DirPath
      <3> HIDE DEF r, p
      <3> DEFINE part == SubSeq(r, 1, Len(p))
      <3>3. part \in Seq(STRING) /\ Len(part) = Len(p) /\ \A pos \in 1..Len(p) : part[pos] = r[pos]
        BY <3>2 DEF Starts
      <3>4. \A pos \in 1..Len(p) : part[pos] = p[pos]
        BY <3>2, <3>3 DEF Starts
      <3> HIDE DEF part
      <3>5. part = p
        BY <3>2, <3>3, <3>4
      <3> QED
        BY <3>1, <3>5 DEF part, r
    <2>10. buf' = qs[Len(gs)]
      BY <1>9, <2>1, <2>9
    <2>11. IsListing(disk', path', calls', qs, answer') /\ calls' # << >> /\ buf' = qs[Len(calls')]
      BY <1>1, <1>3, <1>10, <1>11, <2>2, <2>10 DEF IsListing
    <2> QED
      BY <1>1, <1>13, <2>11 DEF LsInv, Answered
  <1> QED
    BY <1>12, <1>13

\* No other step lists.
LEMMA OthersKeepLsInv ==
    ASSUME LsInv, ShellInv', at \in {"scan", "size", "copy"} => path = << >>,
           Reads \/ Types \/ NoSuchFile \/ FindStep \/ FindEnds \/ Cat \/ UNCHANGED vars
    PROVE  LsInv'
  <1>1. CASE Reads
    <2>1. path' = << >> /\ at' # "list"
      BY <1>1 DEF Reads, DirEnds, Skip, ReadEntry, SizeStep, SizeEnds, CopyStep,
                  CopyFaults, CopyEnds, Scanning, Copying, shell
    <2> QED
      BY <2>1 DEF LsInv, Answered, IsAbsolute
  <1>2. CASE Types
    <2>1. at' # "list" /\ (at' = "prompt" => ~IsAbsolute(path'))
      BY <1>2, Zenon DEF Types, Quit, TypeTooLittle, TypeInvalid, Type, IsAbsolute
    <2> QED
      BY <2>1 DEF LsInv, Answered
  <1>3. CASE NoSuchFile \/ FindStep \/ FindEnds \/ Cat
    <2>1. /\ at' # "list"
          /\ at' = "prompt" => message' # "" \/ command' = "cat"
      BY <1>3, Zenon DEF NoSuchFile, FindStep, FindEnds, Cat, Refuse, Searching
    <2>2. Answered' => Told'
      BY DEF ShellInv
    <2> QED
      BY <2>1, <2>2, Zenon DEF LsInv, Answered, Told
  <1>4. CASE UNCHANGED vars
    <2>1. UNCHANGED <<disk, at, command, path, calls, buf, answer>>
      BY <1>4 DEF vars
    <2> QED
      BY <2>1 DEF LsInv, Answered, IsListing
  <1> QED
    BY <1>1, <1>2, <1>3, <1>4

\* The inductive invariant of the shell.
ListingInv == LabInv /\ (CountsAllClusters /\ NamesAreUnique(disk) => LsInv)

\* ls lists the directories below the one its path names.
THEOREM LsLists == Shell => []LsListsDirectories
  <1>1. Started => ListingInv
    <2> SUFFICES ASSUME Started PROVE LabInv /\ LsInv
      BY DEF ListingInv
    <2>1. at = "scan"
      BY Zenon DEF Started
    <2> QED
      BY <2>1, StartedLabInv DEF LsInv, Answered
  <1>2. ListingInv /\ [Step]_vars => ListingInv'
    <2> SUFFICES ASSUME ListingInv, [Step]_vars, (CountsAllClusters /\ NamesAreUnique(disk))'
                 PROVE  LsInv'
      BY StepKeepsLabInv DEF ListingInv
    <2>1. LabInv /\ LabInv'
      BY StepKeepsLabInv DEF ListingInv
    <2>2. disk' = disk
      BY Zenon DEF Step, Reads, Types, Answers, DirEnds, Skip, ReadEntry, SizeStep, SizeEnds,
             CopyStep, CopyFaults, CopyEnds, Quit, TypeTooLittle, TypeInvalid, Type, NoSuchFile, FindStep,
             FindEnds, Cat, Ls, ListBelow, ListEnds, Refuse, mount, vars
    <2>3. /\ disk \in Disks /\ CountsAllClusters /\ CountsAll(disk) /\ NamesAreUnique(disk)
          /\ CountsAllClusters'
      BY <2>1, <2>2 DEF LabInv, CountsAllClusters, CountsAll
    <2>4. LsInv /\ ShellInv /\ ShellInv' /\ (at \in {"scan", "size", "copy"} => path = << >>)
      BY <2>1, <2>3 DEF ListingInv, LabInv
    <2>5. CASE Ls
      BY <2>3, <2>4, <2>5, LsKeepsLsInv
    <2>6. CASE ListBelow
      BY <2>3, <2>4, <2>6, ListBelowKeepsLsInv
    <2>7. CASE ListEnds
      BY <2>3, <2>4, <2>7, ListEndsKeepsLsInv
    <2>8. CASE Reads \/ Types \/ NoSuchFile \/ FindStep \/ FindEnds \/ Cat \/ UNCHANGED vars
      BY <2>4, <2>8, OthersKeepLsInv
    <2> QED
      BY <2>5, <2>6, <2>7, <2>8 DEF Step, Answers
  <1>3. ListingInv => LsListsDirectories
    <2> DEFINE e == Named(disk, path)
    <2> SUFFICES ASSUME ListingInv, Answered, command = "ls", CountsAllClusters, NamesAreUnique(disk)
                 PROVE  CASE e.kind = "file" -> answer = <<[path |-> path, size |-> e.size]>>
                          [] e.kind = "dir" ->
                                /\ answer # << >> /\ answer[1].path = AsDirectory(path)
                                /\ \A m \in DOMAIN answer : SectionIsTrue(disk, answer[m])
                                /\ \A m \in DOMAIN answer : Named(disk, answer[m].path).name \notin Dots =>
                                      \A p \in PathsBelow(disk, answer[m].path) :
                                         \E l \in DOMAIN answer : l > m /\ answer[l].path = p
                                /\ \A m \in 2..Len(answer) : \E l \in 1..m - 1 :
                                      answer[m].path \in PathsBelow(disk, answer[l].path)
                                /\ \A l, m \in DOMAIN answer : answer[l].path = answer[m].path => l = m
                          [] OTHER -> answer = << >> /\ message # ""
      BY Zenon DEF LsListsDirectories
    <2>1. Told /\ LsInv
      BY DEF ListingInv, LabInv, ShellInv
    <2>2. e.kind \in {"file", "dir", "end"}
      <3>1. path \in Seq(STRING) /\ Depth(path) \in Nat
        BY <2>1, PathAssumption, CutsType, Zenon DEF Told
      <3>2. e \in Found
        BY <3>1, ReachedFacts DEF ListingInv, LabInv, Named
      <3> HIDE DEF e
      <3> QED
        BY <3>2, FoundFields
    <2>3. e.kind = "file" => answer = <<[path |-> path, size |-> e.size]>>
      BY <2>1, Zenon DEF Told
    <2>4. e.kind = "end" => answer = << >> /\ message # ""
      BY <2>1, Zenon DEF Told
    <2>5. ASSUME e.kind = "dir"
          PROVE  /\ answer # << >> /\ answer[1].path = AsDirectory(path)
                 /\ \A m \in DOMAIN answer : SectionIsTrue(disk, answer[m])
                 /\ \A m \in DOMAIN answer : Named(disk, answer[m].path).name \notin Dots =>
                       \A p \in PathsBelow(disk, answer[m].path) :
                          \E l \in DOMAIN answer : l > m /\ answer[l].path = p
                 /\ \A m \in 2..Len(answer) : \E l \in 1..m - 1 :
                       answer[m].path \in PathsBelow(disk, answer[l].path)
                 /\ \A l, m \in DOMAIN answer : answer[l].path = answer[m].path => l = m
      <3>1. ListInv(disk, << >>, << >>, answer) /\ answer # << >> /\ answer[1].path = AsDirectory(path)
        BY <2>1, <2>5 DEF LsInv, IsListing
      <3>2. Sections(disk, answer) /\ Covered(disk, << >>, << >>, answer)
        BY <3>1 DEF ListInv
      <3>3. DOMAIN answer = 1..Len(answer) /\ Len(answer) \in Nat
        BY <3>2, IsSeqFacts DEF Sections
      <3>4. \A p : ~Awaited(<< >>, << >>, p)
        <4>1. 1..Len(<< >>) = {}
          BY EmptyIsSeq
        <4> QED
          BY <4>1 DEF Awaited
      <3>5. ASSUME NEW m \in DOMAIN answer, Named(disk, answer[m].path).name \notin Dots,
                   NEW p \in PathsBelow(disk, answer[m].path)
            PROVE  \E l \in DOMAIN answer : l > m /\ answer[l].path = p
        <4>1. PICK l \in m + 1..Len(answer) : answer[l].path = p
          BY <3>2, <3>3, <3>4, <3>5 DEF Covered
        <4>2. l \in DOMAIN answer /\ l > m
          BY <3>3
        <4> QED
          BY <4>1, <4>2
      <3> QED
        BY <3>1, <3>2, <3>3, <3>5 DEF Sections
    <2> HIDE DEF e
    <2> QED
      BY <2>2, <2>3, <2>4, <2>5, Zenon
  <1> QED
    BY <1>1, <1>2, <1>3, PTL DEF Shell

-----------------------------------------------------------------------------
(* Powers of ten and the numbers that digits mean *)

\* An array of integers.
IntArray(d) == \A p \in DOMAIN d : d[p] \in Int

\* Weight obeys its definition.
LEMMA WeightFacts ==
    /\ Weight \in [Nat -> Int]
    /\ Weight[0] = 1
    /\ \A n \in Nat : Weight[n + 1] = 10 * Weight[n]
  <1> DEFINE next == [n \in Nat |-> [v \in Int |-> 10 * v]]
             step(f, n) == IF n = 0 THEN 1 ELSE 10 * f[n - 1]
  <1>1. next \in [Nat -> [Int -> Int]]
    OBVIOUS
  <1> HIDE DEF next
  <1>2. PICK f : Iterates(f, Int, 1, next)
    <2>1. 1 \in Int
      OBVIOUS
    <2> QED
      BY <1>1, <2>1, RecursiveFunction, Zenon
  <1>3. \A n \in Nat : f[n + 1] = 10 * f[n]
    BY <1>2 DEF next, Iterates
  <1>4. f = [n \in Nat |-> step(f, n)]
    <2>1. \A n \in Nat : f[n] = step(f, n)
      <3> TAKE n \in Nat
      <3>1. CASE n = 0
        BY <1>2, <3>1 DEF Iterates
      <3>2. CASE n # 0
        <4>1. n - 1 \in Nat /\ n = (n - 1) + 1
          BY <3>2
        <4> QED
          BY <1>3, <3>2, <4>1
      <3> QED
        BY <3>1, <3>2
    <2> QED
      BY <1>2, <2>1 DEF Iterates
  <1> DEFINE w == CHOOSE g : g = [n \in Nat |-> step(g, n)]
  <1> HIDE DEF step
  <1>5. w = [n \in Nat |-> step(w, n)]
    BY <1>4
  <1>6. Weight = w
    BY DEF Weight, step
  <1> HIDE DEF w
  <1>7. \A n \in Nat : Weight[n] = step(Weight, n)
    BY <1>5, <1>6
  <1>8. Weight[0] = 1 /\ \A n \in Nat : Weight[n + 1] = 10 * Weight[n]
    BY <1>7 DEF step
  <1>9. \A n \in Nat : Weight[n] \in Int
    <2> DEFINE T == {n \in Nat : Weight[n] \in Int}
    <2>1. 0 \in T /\ \A n \in Nat : n \in T => n + 1 \in T
      BY <1>8
    <2> HIDE DEF T
    <2>2. Nat \subseteq T
      BY <2>1, NatSetInduction
    <2> QED
      BY <2>2 DEF T
  <1> QED
    BY <1>5, <1>6, <1>8, <1>9

\* Upto obeys its definition.
LEMMA UptoFacts ==
    ASSUME NEW d, \A p \in DOMAIN d : d[p] \in Int
    PROVE  /\ \A n \in Nat : Upto(d)[n] \in Int
           /\ Upto(d)[0] = 0
           /\ \A n \in Nat : Upto(d)[n + 1] = Upto(d)[n] + Digit(d, n) * Weight[n]
           /\ \A n \in Nat : Digit(d, n) \in Int
  <1> DEFINE next == [n \in Nat |-> [v \in Int |-> v + Digit(d, n) * Weight[n]]]
             step(f, n) == IF n = 0 THEN 0 ELSE f[n - 1] + Digit(d, n - 1) * Weight[n - 1]
  <1>0. \A n \in Nat : Digit(d, n) \in Int /\ Weight[n] \in Int
    BY WeightFacts DEF Digit
  <1>1. next \in [Nat -> [Int -> Int]]
    BY <1>0
  <1> HIDE DEF next
  <1>2. PICK f : Iterates(f, Int, 0, next)
    <2>1. 0 \in Int
      OBVIOUS
    <2> QED
      BY <1>1, <2>1, RecursiveFunction, Zenon
  <1>3. \A n \in Nat : f[n + 1] = f[n] + Digit(d, n) * Weight[n]
    BY <1>2 DEF next, Iterates
  <1>4. f = [n \in Nat |-> step(f, n)]
    <2>1. \A n \in Nat : f[n] = step(f, n)
      <3> TAKE n \in Nat
      <3>1. CASE n = 0
        BY <1>2, <3>1 DEF Iterates
      <3>2. CASE n # 0
        <4>1. n - 1 \in Nat /\ n = (n - 1) + 1
          BY <3>2
        <4> QED
          BY <1>3, <3>2, <4>1
      <3> QED
        BY <3>1, <3>2
    <2> QED
      BY <1>2, <2>1 DEF Iterates
  <1> DEFINE u == CHOOSE g : g = [n \in Nat |-> step(g, n)]
  <1>6. Upto(d) = u
    BY DEF Upto
  <1> HIDE DEF step
  <1>5. u = [n \in Nat |-> step(u, n)]
    BY <1>4
  <1> HIDE DEF u
  <1>7. \A n \in Nat : Upto(d)[n] = step(Upto(d), n)
    BY <1>5, <1>6
  <1>8. Upto(d)[0] = 0 /\ \A n \in Nat : Upto(d)[n + 1] = Upto(d)[n] + Digit(d, n) * Weight[n]
    <2> HIDE DEF u
    <2>1. \A n \in Nat : n + 1 # 0 /\ (n + 1) - 1 = n /\ n + 1 \in Nat
      OBVIOUS
    <2> QED
      BY <1>7, <2>1 DEF step
  <1>9. \A n \in Nat : Upto(d)[n] \in Int
    <2> DEFINE T == {n \in Nat : Upto(d)[n] \in Int}
    <2>1. 0 \in T /\ \A n \in Nat : n \in T => n + 1 \in T
      BY <1>0, <1>8
    <2> HIDE DEF T
    <2>2. Nat \subseteq T
      BY <2>1, NatSetInduction
    <2> QED
      BY <2>2 DEF T
  <1> QED
    BY <1>0, <1>8, <1>9

\* Powers of ten multiply.
LEMMA WeightSum ==
    ASSUME NEW m \in Nat, NEW n \in Nat
    PROVE  Weight[m + n] = Weight[m] * Weight[n]
  <1> DEFINE T == {q \in Nat : Weight[m + q] = Weight[m] * Weight[q]}
  <1>0. /\ \A q \in Nat : Weight[q] \in Int /\ Weight[q + 1] = 10 * Weight[q]
        /\ Weight[0] = 1
    BY WeightFacts
  <1>1. 0 \in T
    BY <1>0
  <1>2. ASSUME NEW q \in Nat, q \in T
        PROVE  q + 1 \in T
    <2>1. Weight[m + q] = Weight[m] * Weight[q]
      BY <1>2
    <2>2. m + q \in Nat /\ m + (q + 1) = (m + q) + 1
      OBVIOUS
    <2>3. Weight[m + (q + 1)] = 10 * Weight[m + q] /\ Weight[q + 1] = 10 * Weight[q]
      BY <1>0, <2>2
    <2> DEFINE x == Weight[m]
               y == Weight[q]
    <2>4. x \in Int /\ y \in Int
      BY <1>0
    <2>5. Weight[m + (q + 1)] = 10 * (x * y) /\ Weight[q + 1] = 10 * y
      BY <2>1, <2>3
    <2> HIDE DEF x, y
    <2>6. 10 * (x * y) = x * (10 * y)
      BY <2>4
    <2>7. Weight[m + (q + 1)] = x * Weight[q + 1]
      BY <2>5, <2>6
    <2> QED
      BY <2>7 DEF x
  <1> HIDE DEF T
  <1>3. Nat \subseteq T
    BY <1>1, <1>2, NatSetInduction
  <1> QED
    BY <1>3 DEF T

\* They are positive and grow.
LEMMA WeightGrows ==
    /\ \A n \in Nat : Weight[n] >= 1
    /\ \A m, n \in Nat : m <= n => Weight[m] <= Weight[n]
  <1>0. /\ \A q \in Nat : Weight[q] \in Int /\ Weight[q + 1] = 10 * Weight[q]
        /\ Weight[0] = 1
    BY WeightFacts
  <1>1. \A n \in Nat : Weight[n] >= 1
    <2> DEFINE T == {n \in Nat : Weight[n] >= 1}
    <2>1. 0 \in T /\ \A n \in Nat : n \in T => n + 1 \in T
      BY <1>0
    <2> HIDE DEF T
    <2>2. Nat \subseteq T
      BY <2>1, NatSetInduction
    <2> QED
      BY <2>2 DEF T
  <1>2. ASSUME NEW m \in Nat
        PROVE  \A n \in Nat : m <= n => Weight[m] <= Weight[n]
    <2> DEFINE T == {n \in Nat : m <= n => Weight[m] <= Weight[n]}
    <2>1. 0 \in T
      BY <1>0
    <2>2. ASSUME NEW n \in Nat, n \in T
          PROVE  n + 1 \in T
      <3>1. CASE m = n + 1
        BY <1>0, <3>1
      <3>2. CASE m # n + 1
        <4>1. Weight[n] >= 1 /\ Weight[n + 1] = 10 * Weight[n] /\ Weight[n] \in Int /\ Weight[m] \in Int
          BY <1>0, <1>1
        <4>2. m <= n + 1 => Weight[m] <= Weight[n]
          BY <2>2, <3>2
        <4> QED
          BY <4>1, <4>2
      <3> QED
        BY <3>1, <3>2
    <2> HIDE DEF T
    <2>3. Nat \subseteq T
      BY <2>1, <2>2, NatSetInduction
    <2> QED
      BY <2>3 DEF T
  <1> QED
    BY <1>1, <1>2

\* Arrays with the same digits below n.
LEMMA UptoSame ==
    ASSUME NEW d, NEW e, IntArray(d), IntArray(e), NEW n \in Nat,
           \A p \in 0..n - 1 : Digit(d, p) = Digit(e, p)
    PROVE  Upto(d)[n] = Upto(e)[n]
  <1> DEFINE u == Upto(d)
             v == Upto(e)
             T == {q \in Nat : q <= n => u[q] = v[q]}
  <1>0. /\ u[0] = 0 /\ \A q \in Nat : u[q + 1] = u[q] + Digit(d, q) * Weight[q]
        /\ v[0] = 0 /\ \A q \in Nat : v[q + 1] = v[q] + Digit(e, q) * Weight[q]
    BY UptoFacts DEF IntArray
  <1> HIDE DEF u, v
  <1>1. 0 \in T /\ \A q \in Nat : q \in T => q + 1 \in T
    BY <1>0
  <1> HIDE DEF T
  <1>2. Nat \subseteq T
    BY <1>1, NatSetInduction
  <1> QED
    BY <1>2 DEF T, u, v

\* The digits above m are zero.
LEMMA UptoZeros ==
    ASSUME NEW d, IntArray(d), NEW m \in Nat, NEW n \in Nat, m <= n,
           \A p \in m..n - 1 : Digit(d, p) = 0
    PROVE  Upto(d)[n] = Upto(d)[m]
  <1> DEFINE u == Upto(d)
             T == {q \in Nat : q <= n - m => u[m + q] = u[m]}
  <1>0. /\ \A q \in Nat : u[q + 1] = u[q] + Digit(d, q) * Weight[q]
        /\ \A q \in Nat : u[q] \in Int /\ Weight[q] \in Int
    BY UptoFacts, WeightFacts DEF IntArray
  <1> HIDE DEF u
  <1>1. 0 \in T
    BY <1>0
  <1>2. ASSUME NEW q \in Nat, q \in T
        PROVE  q + 1 \in T
    <2>1. m + (q + 1) = (m + q) + 1 /\ m + q \in Nat
      OBVIOUS
    <2>2. CASE q + 1 <= n - m
      <3>1. Digit(d, m + q) = 0 /\ u[m + q] = u[m]
        BY <1>2, <2>2
      <3>2. u[m + (q + 1)] = u[m + q] + 0 * Weight[m + q]
        BY <1>0, <2>1, <3>1
      <3>3. u[m + q] \in Int /\ Weight[m + q] \in Int
        BY <1>0, <2>1
      <3> QED
        BY <3>1, <3>2, <3>3
    <2> QED
      BY <2>2
  <1> HIDE DEF T
  <1>3. Nat \subseteq T
    BY <1>1, <1>2, NatSetInduction
  <1>4. n - m \in Nat /\ m + (n - m) = n
    OBVIOUS
  <1> QED
    BY <1>3, <1>4 DEF T, u

\* One digit is changed.
LEMMA UptoExcept ==
    ASSUME NEW d, IntArray(d), NEW p \in DOMAIN d, p \in Nat, NEW x \in Int,
           NEW n \in Nat
    PROVE  LET e == [d EXCEPT ![p] = x]
           IN  /\ IntArray(e)
               /\ Upto(e)[n] = IF p < n THEN Upto(d)[n] + (x - d[p]) * Weight[p] ELSE Upto(d)[n]
  <1> DEFINE e == [d EXCEPT ![p] = x]
             u == Upto(d)
             v == Upto(e)
             add == (x - d[p]) * Weight[p]
             T == {q \in Nat : v[q] = IF p < q THEN u[q] + add ELSE u[q]}
  <1>1. IntArray(e) /\ DOMAIN e = DOMAIN d
    BY DEF IntArray
  <1>2. \A q \in Nat : Digit(e, q) = IF q = p THEN x ELSE Digit(d, q)
    BY <1>1 DEF Digit
  <1>3. Digit(d, p) = d[p] /\ d[p] \in Int
    BY DEF Digit, IntArray
  <1> HIDE DEF e
  <1>4. /\ u[0] = 0 /\ \A q \in Nat : u[q + 1] = u[q] + Digit(d, q) * Weight[q]
        /\ v[0] = 0 /\ \A q \in Nat : v[q + 1] = v[q] + Digit(e, q) * Weight[q]
        /\ \A q \in Nat : u[q] \in Int /\ v[q] \in Int /\ Weight[q] \in Int
        /\ \A q \in Nat : Digit(d, q) \in Int
    BY <1>1, UptoFacts, WeightFacts DEF IntArray
  <1> HIDE DEF u, v
  <1>5. add \in Int
    BY <1>3, <1>4
  <1>6. x * Weight[p] = d[p] * Weight[p] + add
    <2> DEFINE w == Weight[p]
    <2>1. w \in Int
      BY <1>4
    <2> HIDE DEF w
    <2>2. x * w = d[p] * w + (x - d[p]) * w
      BY <1>3, <2>1
    <2> QED
      BY <2>2 DEF w
  <1> HIDE DEF add
  <1>7. 0 \in T
    BY <1>4
  <1>8. ASSUME NEW q \in Nat, q \in T
        PROVE  q + 1 \in T
    <2>1. CASE q = p
      <3>1. v[q] = u[q]
        BY <1>8, <2>1
      <3>2. v[q + 1] = u[q] + x * Weight[p] /\ u[q + 1] = u[q] + d[p] * Weight[p]
        BY <1>2, <1>3, <1>4, <2>1, <3>1
      <3>3. d[p] * Weight[p] \in Int /\ u[q] \in Int
        BY <1>3, <1>4
      <3>4. v[q + 1] = u[q + 1] + add
        BY <1>5, <1>6, <3>2, <3>3
      <3> QED
        BY <2>1, <3>4
    <2>2. CASE q # p
      <3> DEFINE z == Digit(d, q) * Weight[q]
      <3>1. v[q + 1] = v[q] + z /\ u[q + 1] = u[q] + z
        BY <1>2, <1>4, <2>2
      <3>2. z \in Int /\ u[q] \in Int
        BY <1>4
      <3> HIDE DEF z
      <3>3. v[q] = IF p < q THEN u[q] + add ELSE u[q]
        BY <1>8
      <3> QED
        BY <1>5, <2>2, <3>1, <3>2, <3>3
    <2> QED
      BY <2>1, <2>2
  <1> HIDE DEF T
  <1>9. Nat \subseteq T
    BY <1>7, <1>8, NatSetInduction
  <1>10. v[n] = IF p < n THEN u[n] + add ELSE u[n]
    BY <1>9 DEF T
  <1> QED
    BY <1>1, <1>10 DEF e, u, v, add

\* Decimal digits are a number of at most so many digits.
LEMMA UptoBounds ==
    ASSUME NEW d, IntArray(d), NEW n \in Nat, NEW low \in {-9, 0},
           \A p \in 0..n - 1 : Digit(d, p) \in low..9
    PROVE  /\ Upto(d)[n] < Weight[n]
           /\ Upto(d)[n] > -Weight[n]
           /\ low = 0 => Upto(d)[n] >= 0
  <1> DEFINE u == Upto(d)
             T == {q \in Nat : q <= n => /\ u[q] < Weight[q] /\ u[q] > -Weight[q]
                                         /\ low = 0 => u[q] >= 0}
  <1>0. /\ u[0] = 0 /\ \A q \in Nat : u[q + 1] = u[q] + Digit(d, q) * Weight[q]
        /\ \A q \in Nat : u[q] \in Int /\ Weight[q] \in Int
        /\ Weight[0] = 1 /\ \A q \in Nat : Weight[q + 1] = 10 * Weight[q] /\ Weight[q] >= 1
    BY UptoFacts, WeightFacts, WeightGrows DEF IntArray
  <1> HIDE DEF u
  <1>1. 0 \in T
    BY <1>0
  <1>2. ASSUME NEW q \in Nat, q \in T
        PROVE  q + 1 \in T
    <2>1. CASE q + 1 <= n
      <3> DEFINE x == Digit(d, q)
                 w == Weight[q]
                 t == x * w
      <3>1. x \in low..9 /\ w \in Int /\ w >= 1 /\ u[q] \in Int
        BY <1>0, <2>1
      <3>2. u[q + 1] = u[q] + t /\ Weight[q + 1] = 10 * w
        BY <1>0
      <3>3. u[q] < w /\ u[q] > -w /\ (low = 0 => u[q] >= 0)
        BY <1>2, <2>1
      <3> HIDE DEF x, w
      <3>4. t \in Int /\ t <= 9 * w /\ t >= -9 * w /\ (low = 0 => t >= 0)
        BY <3>1
      <3> HIDE DEF t
      <3> QED
        BY <3>1, <3>2, <3>3, <3>4
    <2> QED
      BY <2>1
  <1> HIDE DEF T
  <1>3. Nat \subseteq T
    BY <1>1, <1>2, NatSetInduction
  <1> QED
    BY <1>3 DEF T, u

\* No digit is negative: the number is at least what one of them means.
LEMMA UptoAtLeast ==
    ASSUME NEW d, IntArray(d), NEW n \in Nat, NEW p \in 0..n - 1,
           \A q \in 0..n - 1 : Digit(d, q) >= 0
    PROVE  Upto(d)[n] >= Digit(d, p) * Weight[p]
  <1> DEFINE u == Upto(d)
             t == Digit(d, p) * Weight[p]
             T == {q \in Nat : q <= n => u[q] >= 0 /\ (p < q => u[q] >= t)}
  <1>0. /\ u[0] = 0 /\ \A q \in Nat : u[q + 1] = u[q] + Digit(d, q) * Weight[q]
        /\ \A q \in Nat : u[q] \in Int /\ Weight[q] \in Int /\ Weight[q] >= 1 /\ Digit(d, q) \in Int
    BY UptoFacts, WeightFacts, WeightGrows DEF IntArray
  <1> HIDE DEF u
  <1>1. 0 \in T
    BY <1>0
  <1>2. ASSUME NEW q \in Nat, q \in T
        PROVE  q + 1 \in T
    <2>1. CASE q + 1 <= n
      <3> DEFINE x == Digit(d, q)
                 w == Weight[q]
                 z == x * w
      <3>1. x \in Int /\ x >= 0 /\ w \in Int /\ w >= 1 /\ u[q] \in Int
        BY <1>0, <2>1
      <3>2. u[q + 1] = u[q] + z
        BY <1>0
      <3>3. u[q] >= 0 /\ (p < q => u[q] >= t)
        BY <1>2, <2>1
      <3>4. p = q => t = z
        OBVIOUS
      <3>5. t \in Int
        BY <1>0
      <3> HIDE DEF x, w, t
      <3>6. z \in Int /\ z >= 0
        BY <3>1
      <3> HIDE DEF z
      <3> QED
        BY <3>1, <3>2, <3>3, <3>4, <3>5, <3>6 DEF T
    <2> QED
      BY <2>1
  <1> HIDE DEF T
  <1>3. Nat \subseteq T
    BY <1>1, <1>2, NatSetInduction
  <1> QED
    BY <1>3 DEF T, u, t

\* The last digit.
LEMMA UptoUnits ==
    ASSUME NEW d, IntArray(d), NEW n \in Nat
    PROVE  \E m \in Int : Upto(d)[n + 1] = Digit(d, 0) + 10 * m
  <1> DEFINE u == Upto(d)
             T == {q \in Nat : \E m \in Int : u[q + 1] = Digit(d, 0) + 10 * m}
  <1>0. /\ u[0] = 0 /\ \A q \in Nat : u[q + 1] = u[q] + Digit(d, q) * Weight[q]
        /\ \A q \in Nat : u[q] \in Int /\ Weight[q] \in Int /\ Digit(d, q) \in Int
        /\ Weight[0] = 1 /\ \A q \in Nat : Weight[q + 1] = 10 * Weight[q]
    BY UptoFacts, WeightFacts DEF IntArray
  <1> HIDE DEF u
  <1>1. 0 \in T
    <2>1. u[0 + 1] = 0 + Digit(d, 0) * 1 /\ Digit(d, 0) \in Int
      BY <1>0
    <2>2. u[0 + 1] = Digit(d, 0) + 10 * 0
      BY <2>1
    <2> QED
      BY <2>2
  <1>2. ASSUME NEW q \in Nat, q \in T
        PROVE  q + 1 \in T
    <2>1. PICK m \in Int : u[q + 1] = Digit(d, 0) + 10 * m
      BY <1>2
    <2> DEFINE x == Digit(d, q + 1)
               w == Weight[q]
    <2>2. u[(q + 1) + 1] = u[q + 1] + x * (10 * w) /\ x \in Int /\ w \in Int /\ Digit(d, 0) \in Int
      BY <1>0
    <2> HIDE DEF x, w
    <2>3. x * (10 * w) = 10 * (x * w) /\ x * w \in Int
      BY <2>2
    <2>4. u[(q + 1) + 1] = Digit(d, 0) + 10 * (m + x * w) /\ m + x * w \in Int
      BY <2>1, <2>2, <2>3
    <2> QED
      BY <2>4
  <1> HIDE DEF T
  <1>3. Nat \subseteq T
    BY <1>1, <1>2, NatSetInduction
  <1> QED
    BY <1>3 DEF T, u

-----------------------------------------------------------------------------
(* The inductive invariant *)

\* Both operands have a sign.
BothNegative == aneg /\ bneg

\* The sum has been printed.
OneLine == printed = <<printed[1]>>

\* The first n elements of c are decimal digits.
AllDigits(n) == \A p \in 0..n - 1 : c[p] \in 0..9

\* The types.
TypeOK ==
    /\ loop \in {"add", "fix", "mul", "carry", "post", "end"}
    /\ a \in [0..N -> 0..9] /\ b \in [0..N -> 0..9]
    /\ aneg \in BOOLEAN /\ bneg \in BOOLEAN /\ cneg \in BOOLEAN
    /\ c \in [0..2 * N -> -20..90]
    /\ i \in 0..N + 1 /\ j \in 0..N - 1 /\ k \in 0..2 * N - 1

\* The columns added so far, and the carry into the next one.
Columns ==
    IF BothNegative
    THEN /\ \A p \in 0..i - 1 : c[p] \in -9..9 /\ (c[p] < 0 <=> BorrowsTwice(p))
         /\ c[i] = IF Borrows(i) THEN -1 ELSE 0
         /\ ~Borrows(i) => \A p \in 0..i - 1 : c[p] = 0
    ELSE /\ AllDigits(i)
         /\ c[i] \in -1..1

\* What is in c is the sum of the digits added so far.
AddInv ==
    loop = "add" =>
        /\ printed = << >> /\ ~cneg /\ i <= N
        /\ \A p \in i + 1..2 * N : c[p] = 0
        /\ Upto(c)[i + 1] = Signed(aneg, Upto(a)[i]) + Signed(bneg, Upto(b)[i])
        /\ Columns

\* By how much the digits increments have reached will be too small: what c
\* will mean if no further digit is incremented is the sum's absolute value
\* plus Weight[N + 1] less this.
Excess == Upto(c)[N + 1] - 2 * Upto(c)[i] + Weight[i] - (A + B)

\* The digits of a negative sum that are below zero before they are
\* complemented.
Incremented(p) ==
    \/ p = 0 /\ (A + B) % 10 = 0
    \/ BothNegative /\ BorrowsTwice(p)

\* The finished sum.
SumInv ==
    /\ ~Spoilt => AllDigits(N + 1) /\ Upto(c)[N + 1] = Signed(cneg, A + B)
    /\ Spoilt  => Upto(c)[N + 1] # Signed(cneg, A + B)

\* The correction has reached digit i: nothing is lost so far exactly when no
\* digit below i was incremented.
Corrected ==
    /\ \A p \in 0..i - 1 : c[p] \in -1..9
    /\ c[i] \in -10..10 /\ \A p \in i + 1..N : c[p] \in -10..9
    /\ c[N] \in {-1, 0} /\ c[N + 1] = 0
    /\ i < N => c[N] = -1
    /\ Excess >= 0 /\ Excess < 4 * Weight[i]
    /\ Excess = 0 <=> \A p \in 0..i - 1 : ~Incremented(p)
    /\ Excess = 0 =>
          /\ AllDigits(i)
          /\ \A p \in i..N - 1 : c[p] < 0 <=> Incremented(p)
          /\ c[i] # 10 /\ c[N] = -1

\* The loop add_loop_fix_c.
FixInv ==
    loop = "fix" =>
        /\ printed = << >> /\ cneg
        /\ A + B < 0
        /\ \A p \in N + 2..2 * N : c[p] = 0
        /\ i <= N => Corrected
        /\ i = N + 1 => SumInv /\ c[N + 1] \in {0, 1}

\* What is in c is the product of the digits multiplied so far.
MulInv ==
    loop \in {"mul", "carry"} =>
        /\ OneLine
        /\ cneg = (aneg # bneg)
        /\ i <= N
        /\ \A p \in 0..2 * N : (loop = "carry" /\ p = k) \/ c[p] \in 0..9
        /\ loop = "mul" => i < N \/ j = 0
        /\ loop = "carry" => i < N /\ c[k] >= 0
        /\ LET done == IF loop = "carry" THEN j + 1 ELSE j
           IN  Upto(c)[2 * N + 1] =
                   Upto(a)[i] * Upto(b)[N] + a[i] * Weight[i] * Upto(b)[done]

\* A result is complete.
PostInv ==
    loop = "post" =>
        /\ printed = << >> \/ OneLine
        /\ printed = << >> =>
              /\ cneg <=> A + B < 0
              /\ \A p \in N + 1..2 * N : c[p] = 0
              /\ SumInv
        /\ printed # << >> =>
              /\ cneg = (aneg # bneg)
              /\ AllDigits(2 * N + 1)
              /\ Upto(c)[2 * N + 1] = Upto(a)[N] * Upto(b)[N]

\* The inductive invariant.
IInv == TypeOK /\ AddInv /\ FixInv /\ MulInv /\ PostInv /\ PrintsSumAndProduct

-----------------------------------------------------------------------------
(* What a line shows *)

\* Max of TopDigit.
LEMMA TopDigitFacts ==
    ASSUME c \in [0..2 * N -> Int]
    PROVE  /\ TopDigit \in 0..2 * N
           /\ \A p \in TopDigit + 1..2 * N : c[p] = 0
           /\ TopDigit = 0 \/ c[TopDigit] # 0
  <1> DEFINE M == 2 * N
             Q == {0} \cup {p \in 0..M : c[p] # 0}
             T == {m \in Nat : m <= M => \E x \in Q : x <= m /\ \A y \in Q : y <= m => x >= y}
  <1>0. M \in Nat /\ N \in Nat \ {0}
    BY DecimalAssumption
  <1>1. 0 \in T
    BY <1>0
  <1>2. ASSUME NEW m \in Nat, m \in T
        PROVE  m + 1 \in T
    <2>1. CASE m + 1 \in Q
      <3>1. \A y \in Q : y <= m + 1 => m + 1 >= y
        BY <1>0
      <3>2. m + 1 <= m + 1
        OBVIOUS
      <3> HIDE DEF Q
      <3> QED
        BY <2>1, <3>1, <3>2
    <2>2. CASE m + 1 \notin Q /\ m + 1 <= M
      <3>1. PICK x \in Q : x <= m /\ \A y \in Q : y <= m => x >= y
        <4>1. m <= M
          BY <1>0, <2>2
        <4> HIDE DEF Q
        <4> QED
          BY <1>2, <4>1
      <3>2. \A y \in Q : y \in Nat
        BY <1>0
      <3> HIDE DEF Q
      <3>3. \A y \in Q : y <= m + 1 => y <= m
        BY <2>2, <3>2
      <3>4. x <= m + 1
        BY <3>1, <3>2
      <3> QED
        BY <3>1, <3>3, <3>4
    <2>3. CASE ~(m + 1 <= M)
      BY <2>3
    <2> QED
      BY <2>1, <2>2, <2>3
  <1>3. Nat \subseteq T
    <2> HIDE DEF T
    <2> QED
      BY <1>1, <1>2, NatSetInduction
  <1>4. PICK x \in Q : \A y \in Q : x >= y
    <2>1. PICK x \in Q : x <= M /\ \A y \in Q : y <= M => x >= y
      <3>1. M \in T /\ M <= M
        <4> HIDE DEF T, M
        <4> QED
          BY <1>0, <1>3
      <3> HIDE DEF Q
      <3> QED
        BY <3>1
    <2>2. \A y \in Q : y <= M
      BY <1>0
    <2> HIDE DEF Q
    <2> QED
      BY <2>1, <2>2
  <1>5. TopDigit \in Q /\ \A y \in Q : TopDigit >= y
    <2>1. TopDigit = CHOOSE z \in Q : \A y \in Q : z >= y
      BY DEF TopDigit, Max
    <2> HIDE DEF Q
    <2> QED
      BY <1>4, <2>1
  <1>6. TopDigit \in 0..M /\ (TopDigit = 0 \/ c[TopDigit] # 0)
    BY <1>0, <1>5
  <1>7. ASSUME NEW p \in TopDigit + 1..M
        PROVE  c[p] = 0
    BY <1>0, <1>5, <1>6
  <1> QED
    BY <1>6, <1>7

\* The line shows the number that the array means, when its elements are
\* digits; it never shows another.
LEMMA LineShows ==
    ASSUME c \in [0..2 * N -> Int], cneg \in BOOLEAN, NEW v \in Int
    PROVE  /\ Shows(Line, v) => v = Signed(cneg, Upto(c)[2 * N + 1])
           /\ AllDigits(2 * N + 1) /\ v = Signed(cneg, Upto(c)[2 * N + 1]) => Shows(Line, v)
  <1> DEFINE t == TopDigit
             neg == cneg /\ ~(t = 0 /\ c[0] = 0)
             digits == [p \in 1..t + 1 |-> c[t + 1 - p]]
             D == [p \in 0..t |-> c[p]]
             S == Upto(c)[2 * N + 1]
  <1>0. N \in Nat \ {0} /\ 2 * N + 1 \in Nat
    BY DecimalAssumption
  <1>1. /\ t \in 0..2 * N
        /\ \A p \in t + 1..2 * N : c[p] = 0
        /\ t = 0 \/ c[t] # 0
    BY TopDigitFacts
  <1>2. Line = [neg |-> neg, digits |-> digits]
    BY DEF Line
  <1> HIDE DEF t
  <1>3. Line.neg = neg /\ Line.digits = digits
    BY <1>2
  <1>4. /\ digits \in Seq(Int) /\ Len(digits) = t + 1
        /\ \A p \in 1..t + 1 : digits[p] = c[t + 1 - p]
    <2>1. \A p \in 1..t + 1 : c[t + 1 - p] \in Int
      BY <1>0, <1>1
    <2>2. t + 1 \in Nat
      BY <1>1
    <2> QED
      BY <2>1, <2>2
  <1> HIDE DEF digits
  <1>5. [p \in 0..(t + 1) - 1 |-> digits[(t + 1) - p]] = D
    <2>1. (t + 1) - 1 = t /\ \A p \in 0..t : (t + 1) - p \in 1..t + 1 /\ t + 1 - ((t + 1) - p) = p
      BY <1>1
    <2> QED
      BY <1>4, <2>1
  <1>6. IntArray(c) /\ IntArray(D)
    BY <1>0, <1>1 DEF IntArray
  <1>7. \A p \in 0..2 * N : Digit(c, p) = c[p]
    BY DEF Digit
  <1>8. \A p \in 0..t : Digit(D, p) = c[p]
    BY DEF Digit
  <1> HIDE DEF D
  <1>9. Upto(D)[t + 1] = S
    <2>1. Upto(D)[t + 1] = Upto(c)[t + 1]
      <3>1. t + 1 \in Nat /\ \A p \in 0..(t + 1) - 1 : p \in 0..t /\ p \in 0..2 * N
        BY <1>0, <1>1
      <3>2. \A p \in 0..(t + 1) - 1 : Digit(D, p) = Digit(c, p)
        BY <1>7, <1>8, <3>1
      <3> QED
        BY <1>6, <3>1, <3>2, UptoSame
    <2>2. Upto(c)[2 * N + 1] = Upto(c)[t + 1]
      <3>1. t + 1 \in Nat /\ t + 1 <= 2 * N + 1
        BY <1>0, <1>1
      <3>2. \A p \in t + 1..(2 * N + 1) - 1 : Digit(c, p) = 0
        BY <1>0, <1>1, <1>7
      <3> QED
        BY <1>0, <1>6, <3>1, <3>2, UptoZeros
    <2> QED
      BY <2>1, <2>2
  <1>10. S \in Int
    BY <1>0, <1>6, UptoFacts DEF IntArray
  <1>11. Shows(Line, v) <=>
            /\ \A p \in 1..t + 1 : digits[p] \in 0..9
            /\ t + 1 = 1 \/ digits[1] # 0
            /\ v = Signed(neg, S)
            /\ v = 0 => ~neg
    BY <1>3, <1>4, <1>5, <1>9, Zenon DEF Shows
  <1>12. t = 0 /\ c[0] = 0 => S = 0
    <2> SUFFICES ASSUME t = 0, c[0] = 0 PROVE S = 0
      OBVIOUS
    <2>1. \A p \in 0..(2 * N + 1) - 1 : Digit(c, p) = 0
      BY <1>0, <1>1, <1>7
    <2>2. S = Upto(c)[0]
      BY <1>0, <1>6, <2>1, UptoZeros
    <2> QED
      BY <1>6, <2>2, UptoFacts DEF IntArray
  <1> HIDE DEF S
  <1>13. Shows(Line, v) => v = Signed(cneg, S)
    BY <1>10, <1>11, <1>12 DEF Signed
  <1>14. ASSUME AllDigits(2 * N + 1), v = Signed(cneg, S)
         PROVE  Shows(Line, v)
    <2>0. \A p \in 0..2 * N : c[p] \in 0..9
      BY <1>0, <1>14 DEF AllDigits
    <2>1. \A p \in 1..t + 1 : digits[p] \in 0..9
      <3>1. \A p \in 1..t + 1 : t + 1 - p \in 0..2 * N
        BY <1>0, <1>1
      <3> QED
        BY <1>4, <2>0, <3>1
    <2>2. t + 1 = 1 \/ digits[1] # 0
      BY <1>1, <1>4
    <2>3. S = 0 => t = 0 /\ c[0] = 0
      <3>1. \A p \in 0..(2 * N + 1) - 1 : Digit(c, p) >= 0
        <4>1. \A p \in 0..(2 * N + 1) - 1 : p \in 0..2 * N
          BY <1>0
        <4> QED
          BY <1>7, <2>0, <4>1
      <3>2. \A p \in 0..2 * N : p \in 0..(2 * N + 1) - 1
        BY <1>0
      <3>3. t \in Nat /\ 0 \in 0..2 * N
        BY <1>0, <1>1
      <3>4. S >= Digit(c, t) * Weight[t] /\ S >= Digit(c, 0) * Weight[0]
        BY <1>0, <1>1, <1>6, <3>1, <3>2, <3>3, UptoAtLeast DEF S
      <3>5. Weight[t] \in Int /\ Weight[t] >= 1 /\ Weight[0] = 1
        BY <3>3, WeightFacts, WeightGrows
      <3>6. Digit(c, t) = c[t] /\ Digit(c, 0) = c[0]
        BY <1>1, <1>7, <3>3
      <3>7. c[t] >= 0 /\ c[t] \in Int /\ c[0] >= 0 /\ c[0] \in Int
        BY <1>1, <2>0, <3>3
      <3>8. c[t] > 0 => c[t] * Weight[t] > 0
        BY <3>5, <3>7
      <3>9. S = 0 => c[t] = 0 /\ c[0] = 0
        BY <1>10, <3>4, <3>5, <3>6, <3>7, <3>8
      <3> QED
        BY <1>1, <3>9
    <2>4. v = Signed(neg, S) /\ (v = 0 => ~neg)
      BY <1>10, <1>12, <1>14, <2>3 DEF Signed
    <2> QED
      BY <1>11, <2>1, <2>2, <2>4
  <1> QED
    BY <1>13, <1>14 DEF S

-----------------------------------------------------------------------------
(* The operands *)

\* The arrays hold integers.
LEMMA ArrayFacts ==
    ASSUME TypeOK
    PROVE  /\ IntArray(a) /\ IntArray(b) /\ IntArray(c)
           /\ \A p \in 0..N : Digit(a, p) = a[p] /\ Digit(b, p) = b[p]
           /\ \A p \in 0..2 * N : Digit(c, p) = c[p]
           /\ \A n \in Nat : Upto(a)[n] \in Int /\ Upto(b)[n] \in Int /\ Upto(c)[n] \in Int
           /\ N \in Nat \ {0} /\ \A p \in 0..N + 1 : p \in Nat
           /\ A \in Int /\ B \in Int
  <1>1. a \in [0..N -> Int] /\ b \in [0..N -> Int] /\ c \in [0..2 * N -> Int]
    <2>1. a \in [0..N -> 0..9] /\ b \in [0..N -> 0..9] /\ c \in [0..2 * N -> -20..90]
      BY DEF TypeOK
    <2>2. 0..9 \subseteq Int /\ -20..90 \subseteq Int
      OBVIOUS
    <2> QED
      BY <2>1, <2>2
  <1>2. IntArray(a) /\ IntArray(b) /\ IntArray(c)
    BY <1>1 DEF IntArray
  <1>3. /\ \A p \in 0..N : Digit(a, p) = a[p] /\ Digit(b, p) = b[p]
        /\ \A p \in 0..2 * N : Digit(c, p) = c[p]
    BY <1>1 DEF Digit
  <1>4. \A n \in Nat : Upto(a)[n] \in Int /\ Upto(b)[n] \in Int /\ Upto(c)[n] \in Int
    BY <1>2, UptoFacts DEF IntArray
  <1>5. N \in Nat \ {0} /\ \A p \in 0..N + 1 : p \in Nat
    BY DecimalAssumption
  <1>6. A \in Int /\ B \in Int
    BY <1>4, <1>5 DEF A, B, Signed
  <1> QED
    BY <1>2, <1>3, <1>4, <1>5, <1>6

\* The numbers of the operands' first digits.
LEMMA OperandFacts ==
    ASSUME TypeOK, NEW n \in 0..N
    PROVE  /\ 0 <= Upto(a)[n] /\ Upto(a)[n] < Weight[n]
           /\ 0 <= Upto(b)[n] /\ Upto(b)[n] < Weight[n]
           /\ n < N => /\ Upto(a)[n + 1] = Upto(a)[n] + a[n] * Weight[n]
                       /\ Upto(b)[n + 1] = Upto(b)[n] + b[n] * Weight[n]
  <1>1. /\ IntArray(a) /\ IntArray(b) /\ n \in Nat /\ N \in Nat
        /\ \A p \in 0..N : Digit(a, p) = a[p] /\ Digit(b, p) = b[p]
    BY ArrayFacts
  <1>2. \A p \in 0..n - 1 : p \in 0..N
    BY <1>1
  <1>3. \A p \in 0..n - 1 : Digit(a, p) \in 0..9 /\ Digit(b, p) \in 0..9
    BY <1>1, <1>2 DEF TypeOK
  <1>4. 0 \in {-9, 0}
    OBVIOUS
  <1>5. 0 <= Upto(a)[n] /\ Upto(a)[n] < Weight[n]
    BY <1>1, <1>3, <1>4, UptoBounds
  <1>6. 0 <= Upto(b)[n] /\ Upto(b)[n] < Weight[n]
    BY <1>1, <1>3, <1>4, UptoBounds
  <1>7. /\ Upto(a)[n + 1] = Upto(a)[n] + a[n] * Weight[n]
        /\ Upto(b)[n + 1] = Upto(b)[n] + b[n] * Weight[n]
    BY <1>1, UptoFacts DEF IntArray
  <1> QED
    BY <1>5, <1>6, <1>7

\* What is said of the operands stays true while they do not change.
LEMMA OperandsKept ==
    ASSUME UNCHANGED <<a, aneg, b, bneg>>
    PROVE  /\ A' = A /\ B' = B /\ (Spoilt' <=> Spoilt)
           /\ BothNegative' <=> BothNegative
           /\ UNCHANGED printed => (PrintsSumAndProduct' <=> PrintsSumAndProduct)
  <1>1. A' = A /\ B' = B
    BY DEF A, B
  <1>2. BothNegative' <=> BothNegative
    BY DEF BothNegative
  <1>3. Spoilt' <=> Spoilt
    BY <1>1 DEF Spoilt, BorrowsTwice, Borrows
  <1>4. UNCHANGED printed => (PrintsSumAndProduct' <=> PrintsSumAndProduct)
    BY <1>1, <1>3 DEF PrintsSumAndProduct
  <1> QED
    BY <1>1, <1>2, <1>3, <1>4

-----------------------------------------------------------------------------
(* The product *)

\* A product of two digits is added.
LEMMA MulDigitInv == IInv /\ MulDigit => IInv'
  <1> SUFFICES ASSUME IInv, MulDigit PROVE IInv'
    OBVIOUS
  <1> USE DEF IInv
  <1>0. /\ loop = "mul" /\ i < N /\ loop' = "carry" /\ k' = i + j
        /\ UNCHANGED <<a, aneg, b, bneg, cneg, i, j, printed>>
        /\ c' = [c EXCEPT ![i + j] = c[i + j] + a[i] * b[j]]
    BY DEF MulDigit
  <1>1. /\ IntArray(c) /\ N \in Nat \ {0} /\ i \in 0..N - 1 /\ j \in 0..N - 1
        /\ i + j \in 0..2 * N - 1 /\ i + j \in 0..2 * N /\ 2 * N + 1 \in Nat
        /\ i \in Nat /\ j \in Nat /\ i \in 0..N /\ j \in 0..N
    <2>1. i \in 0..N + 1 /\ j \in 0..N - 1
      BY DEF TypeOK
    <2> QED
      BY <1>0, <2>1, ArrayFacts
  <1>2. c \in [0..2 * N -> 0..9]
    BY <1>0 DEF MulInv, TypeOK
  <1>3. a[i] \in 0..9 /\ b[j] \in 0..9
    BY <1>1 DEF TypeOK
  <1> DEFINE x == c[i + j] + a[i] * b[j]
  <1>4. x \in 0..90
    <2>1. c[i + j] \in 0..9
      BY <1>1, <1>2
    <2>2. a[i] * b[j] >= 0 /\ a[i] * b[j] <= 81 /\ a[i] * b[j] \in Int
      BY <1>3
    <2> QED
      BY <2>1, <2>2
  <1>5. c' = [c EXCEPT ![i + j] = x]
    BY <1>0
  <1>6. x - c[i + j] = a[i] * b[j]
    <2> DEFINE y == a[i] * b[j]
    <2>1. y \in Int /\ c[i + j] \in Int
      <3>1. c[i + j] \in 0..9
        BY <1>1, <1>2
      <3>2. \A m, n \in 0..9 : m * n \in Int
        OBVIOUS
      <3> QED
        BY <1>3, <3>1, <3>2
    <2>2. x = c[i + j] + y
      OBVIOUS
    <2> HIDE DEF x, y
    <2>3. x - c[i + j] = y
      BY <2>1, <2>2
    <2> QED
      BY <2>3 DEF y
  <1> HIDE DEF x
  <1>7. TypeOK'
    <2>1. c' \in [0..2 * N -> -20..90]
      <3>1. x \in -20..90 /\ \A p \in 0..2 * N : c[p] \in -20..90
        <4>1. 0..9 \subseteq -20..90 /\ 0..90 \subseteq -20..90
          OBVIOUS
        <4>2. \A p \in 0..2 * N : c[p] \in 0..9
          BY <1>2
        <4> QED
          BY <1>4, <4>1, <4>2
      <3>2. c \in [0..2 * N -> -20..90]
        BY <1>2, <3>1
      <3> QED
        BY <1>5, <3>1, <3>2
    <2> QED
      BY <1>0, <1>1, <2>1 DEF TypeOK
  <1>8. Upto(c')[2 * N + 1] = Upto(c)[2 * N + 1] + (a[i] * b[j]) * Weight[i + j]
    <2>1. x \in Int /\ DOMAIN c = 0..2 * N /\ i + j < 2 * N + 1 /\ i + j \in Nat
      BY <1>1, <1>2, <1>4
    <2>2. i + j \in DOMAIN c /\ 2 * N + 1 \in Nat
      BY <1>1, <2>1
    <2>3. Upto([c EXCEPT ![i + j] = x])[2 * N + 1] =
              Upto(c)[2 * N + 1] + (x - c[i + j]) * Weight[i + j]
      BY <1>1, <2>1, <2>2, UptoExcept
    <2> QED
      BY <1>5, <1>6, <2>3
  <1>9. Upto(c')[2 * N + 1] = Upto(a)[i] * Upto(b)[N] + a[i] * Weight[i] * Upto(b)[j + 1]
    <2> DEFINE p == Upto(a)[i] * Upto(b)[N]
               x1 == a[i]
               y1 == b[j]
               v == Weight[i]
               w == Weight[j]
               u == Upto(b)[j]
    <2>1. Weight[i + j] = v * w
      BY <1>1, WeightSum
    <2>2. Upto(b)[j + 1] = u + y1 * w
      BY <1>1, OperandFacts
    <2>3. Upto(c)[2 * N + 1] = p + x1 * v * u
      BY <1>0 DEF MulInv
    <2>4. p \in Int /\ x1 \in Int /\ y1 \in Int /\ v \in Int /\ w \in Int /\ u \in Int
      <3>1. Upto(a)[i] \in Int /\ Upto(b)[N] \in Int
        BY <1>1, ArrayFacts
      <3> QED
        BY <1>1, <1>3, <3>1, ArrayFacts, WeightFacts
    <2> HIDE DEF p, x1, y1, v, w, u
    <2>5. (p + x1 * v * u) + (x1 * y1) * (v * w) = p + x1 * v * (u + y1 * w)
      BY <2>4
    <2> QED
      BY <1>8, <2>1, <2>2, <2>3, <2>5 DEF p, x1, y1, v, w, u
  <1>10. MulInv'
    <2>1. \A p \in 0..2 * N : p = i + j \/ c'[p] \in 0..9
      BY <1>2, <1>5
    <2>2. c'[i + j] >= 0
      BY <1>1, <1>2, <1>4, <1>5
    <2>3. OneLine' /\ cneg = (aneg # bneg)
      BY <1>0 DEF MulInv, OneLine
    <2>4. i < N /\ i <= N
      BY <1>1
    <2> QED
      BY <1>0, <1>9, <2>1, <2>2, <2>3, <2>4 DEF MulInv
  <1>11. AddInv' /\ FixInv' /\ PostInv'
    BY <1>0 DEF AddInv, FixInv, PostInv
  <1>12. PrintsSumAndProduct'
    BY <1>0, OperandsKept
  <1> QED
    BY <1>7, <1>10, <1>11, <1>12

\* The part of the product computed so far has at most 2 * N digits.
LEMMA ProductFits ==
    ASSUME IInv, loop = "carry"
    PROVE  /\ i \in 0..N - 1 /\ j \in 0..N - 1
           /\ c[k] > 9 => k + 1 < 2 * N
  <1> USE DEF IInv
  <1>1. /\ N \in Nat \ {0} /\ i \in 0..N - 1 /\ j \in 0..N - 1 /\ j + 1 \in 0..N
        /\ i \in 0..N /\ i \in Nat /\ j \in Nat /\ j + 1 \in Nat /\ i + 1 \in 0..N
        /\ N \in 0..N /\ 2 * N + 1 \in Nat
    <2>1. i \in 0..N + 1 /\ j \in 0..N - 1 /\ i < N
      BY DEF TypeOK, MulInv
    <2> QED
      BY <2>1, ArrayFacts
  <1> DEFINE S == Upto(c)[2 * N + 1]
             x == a[i]
             u == Upto(a)[i]
             ub == Upto(b)[j + 1]
             vb == Upto(b)[N]
             w == Weight[i]
             W == Weight[N]
  <1>2. S = u * vb + x * w * ub
    BY DEF MulInv
  <1>3. u + x * w < W /\ u >= 0 /\ vb >= 0 /\ vb < W
    <2>1. Upto(a)[i + 1] = u + x * w /\ Upto(a)[i + 1] < Weight[i + 1]
      BY <1>1, OperandFacts
    <2>2. Weight[i + 1] <= W
      BY <1>1, WeightGrows
    <2>3. Upto(a)[i + 1] \in Int /\ Weight[i + 1] \in Int /\ W \in Int
      BY <1>1, ArrayFacts, WeightFacts
    <2>4. u >= 0 /\ vb >= 0 /\ vb < W
      BY <1>1, OperandFacts
    <2> QED
      BY <2>1, <2>2, <2>3, <2>4
  <1>4. 0 <= ub /\ ub <= vb
    <2>1. 0 <= ub
      BY <1>1, OperandFacts
    <2> DEFINE T == {q \in Nat : q <= N - (j + 1) => Upto(b)[(j + 1) + q] >= ub}
    <2>2. 0 \in T
      BY <1>1, ArrayFacts
    <2>3. ASSUME NEW q \in Nat, q \in T
          PROVE  q + 1 \in T
      <3>1. CASE q + 1 <= N - (j + 1)
        <4> DEFINE n == (j + 1) + q
        <4>1. n \in 0..N /\ n < N /\ (j + 1) + (q + 1) = n + 1 /\ n \in Nat
          BY <1>1, <3>1
        <4>2. Upto(b)[n] >= ub
          <5>1. q <= N - (j + 1)
            BY <1>1, <3>1
          <5> QED
            BY <2>3, <5>1
        <4>3. b[n] \in 0..9 /\ Weight[n] \in Int /\ Weight[n] >= 1 /\ Upto(b)[n] \in Int /\ ub \in Int
          BY <1>1, <4>1, WeightFacts, WeightGrows, ArrayFacts DEF TypeOK
        <4> HIDE DEF n
        <4>4. Upto(b)[n + 1] = Upto(b)[n] + b[n] * Weight[n]
          BY <4>1, OperandFacts
        <4>5. b[n] * Weight[n] >= 0 /\ b[n] * Weight[n] \in Int
          BY <4>3
        <4> HIDE DEF ub
        <4>6. Upto(b)[n + 1] >= ub
          BY <4>2, <4>3, <4>4, <4>5
        <4> QED
          BY <4>1, <4>6
      <3> QED
        BY <3>1
    <2> HIDE DEF T
    <2>4. Nat \subseteq T
      BY <2>2, <2>3, NatSetInduction
    <2>5. N - (j + 1) \in Nat /\ (j + 1) + (N - (j + 1)) = N
      BY <1>1
    <2>6. ub <= vb
      <3>1. Upto(b)[N] >= ub
        BY <2>4, <2>5 DEF T
      <3>2. ub \in Int /\ vb \in Int
        BY <1>1, ArrayFacts
      <3> QED
        BY <3>1, <3>2
    <2> QED
      BY <2>1, <2>6
  <1>5. u \in Int /\ x \in 0..9 /\ w \in Int /\ w >= 1 /\ ub \in Int /\ vb \in Int /\ W \in Int /\ W >= 1
    BY <1>1, ArrayFacts, WeightFacts, WeightGrows DEF TypeOK
  <1>6. S < W * W
    <2> HIDE DEF S, u, x, w, W, ub, vb
    <2> DEFINE z == x * w
    <2>1. z \in Int /\ z >= 0 /\ S = u * vb + z * ub
      BY <1>2, <1>5
    <2>2. u + z < W
      BY <1>3
    <2> HIDE DEF z
    <2>3. z * ub <= z * vb
      BY <1>4, <1>5, <2>1
    <2>4. u * vb + z * vb = (u + z) * vb
      BY <1>5, <2>1
    <2>5. (u + z) * vb <= (W - 1) * vb
      BY <1>3, <1>5, <2>1, <2>2
    <2>6. (W - 1) * vb <= (W - 1) * W
      BY <1>3, <1>5
    <2>7. (W - 1) * W = W * W - W
      BY <1>5
    <2> DEFINE p1 == u * vb
               p2 == z * ub
               p3 == z * vb
               p4 == (u + z) * vb
               p5 == (W - 1) * vb
               p6 == W * W
    <2>8. p1 \in Int /\ p2 \in Int /\ p3 \in Int /\ p4 \in Int /\ p5 \in Int /\ p6 \in Int
      BY <1>5, <2>1
    <2>9. S = p1 + p2 /\ p2 <= p3 /\ p1 + p3 = p4 /\ p4 <= p5 /\ p5 <= p6 - W
      BY <2>1, <2>3, <2>4, <2>5, <2>6, <2>7
    <2> HIDE DEF p1, p2, p3, p4, p5, p6
    <2>10. S < p6
      BY <1>5, <2>8, <2>9
    <2> QED
      BY <2>10 DEF p6
  <1>7. ASSUME c[k] > 9
        PROVE  k + 1 < 2 * N
    <2>1. k \in 0..2 * N - 1 /\ k \in 0..(2 * N + 1) - 1 /\ k \in 0..2 * N /\ k \in Nat
      <3>1. k \in 0..2 * N - 1
        BY DEF TypeOK
      <3> QED
        BY <1>1, <3>1
    <2>2. IntArray(c) /\ \A p \in 0..2 * N : Digit(c, p) = c[p]
      BY ArrayFacts
    <2>3. \A p \in 0..(2 * N + 1) - 1 : p \in 0..2 * N
      BY <1>1
    <2>4. c[k] \in Int /\ c[k] >= 10
      <3>1. c[k] \in -20..90
        BY <2>1 DEF TypeOK
      <3> QED
        BY <1>7, <3>1
    <2>5. \A p \in 0..(2 * N + 1) - 1 : Digit(c, p) >= 0
      BY <2>2, <2>3, <2>4 DEF MulInv
    <2>6. S >= c[k] * Weight[k]
      BY <1>1, <2>1, <2>2, <2>5, UptoAtLeast
    <2>7. Weight[k + 1] = 10 * Weight[k] /\ Weight[k] \in Int /\ Weight[k] >= 1
      BY <2>1, WeightFacts, WeightGrows
    <2>8. c[k] * Weight[k] >= 10 * Weight[k]
      BY <2>4, <2>7
    <2>9. W * W = Weight[2 * N] /\ Weight[2 * N] \in Int
      <3>1. N + N = 2 * N /\ 2 * N \in Nat /\ N \in Nat
        BY <1>1
      <3> QED
        BY <3>1, WeightSum, WeightFacts
    <2>10. Weight[k + 1] < Weight[2 * N]
      <3> DEFINE p == c[k] * Weight[k]
      <3>1. p \in Int /\ S \in Int
        BY <1>1, <2>4, <2>7, ArrayFacts
      <3>2. S >= p /\ p >= Weight[k + 1] /\ S < Weight[2 * N]
        BY <1>6, <2>6, <2>7, <2>8, <2>9
      <3> HIDE DEF p, S
      <3>3. Weight[k + 1] \in Int
        BY <2>7
      <3> QED
        BY <2>9, <3>1, <3>2, <3>3
    <2>11. ~(2 * N <= k + 1)
      <3>1. 2 * N \in Nat /\ k + 1 \in Nat
        BY <1>1, <2>1
      <3>2. 2 * N <= k + 1 => Weight[2 * N] <= Weight[k + 1]
        BY <3>1, WeightGrows
      <3> QED
        BY <2>7, <2>9, <2>10, <3>2
    <2> QED
      BY <1>1, <2>1, <2>11
  <1> QED
    BY <1>1, <1>7

\* A digit and the next one are changed.
LEMMA UptoExceptTwo ==
    ASSUME NEW d, IntArray(d), NEW p \in DOMAIN d, p \in Nat, p + 1 \in DOMAIN d,
           NEW x \in Int, NEW y \in Int, NEW n \in Nat
    PROVE  LET e == [d EXCEPT ![p] = x, ![p + 1] = y]
               one == IF p < n THEN (x - d[p]) * Weight[p] ELSE 0
               two == IF p + 1 < n THEN (y - d[p + 1]) * Weight[p + 1] ELSE 0
           IN  Upto(e)[n] = Upto(d)[n] + one + two
  <1> DEFINE f == [d EXCEPT ![p] = x]
             e == [d EXCEPT ![p] = x, ![p + 1] = y]
             one == IF p < n THEN (x - d[p]) * Weight[p] ELSE 0
             two == IF p + 1 < n THEN (y - d[p + 1]) * Weight[p + 1] ELSE 0
  <1>1. IntArray(f) /\ Upto(f)[n] = IF p < n THEN Upto(d)[n] + (x - d[p]) * Weight[p] ELSE Upto(d)[n]
    BY UptoExcept
  <1>2. DOMAIN f = DOMAIN d /\ f[p + 1] = d[p + 1] /\ p + 1 \in Nat
    OBVIOUS
  <1>3. e = [f EXCEPT ![p + 1] = y]
    OBVIOUS
  <1>4. Weight[p] \in Int /\ Weight[p + 1] \in Int /\ d[p] \in Int /\ d[p + 1] \in Int /\ Upto(d)[n] \in Int
    BY <1>2, WeightFacts, UptoFacts DEF IntArray
  <1>5. Upto(f)[n] = Upto(d)[n] + one /\ one \in Int /\ two \in Int
    BY <1>1, <1>4
  <1> HIDE DEF f
  <1>6. Upto([f EXCEPT ![p + 1] = y])[n] =
            IF p + 1 < n THEN Upto(f)[n] + (y - f[p + 1]) * Weight[p + 1] ELSE Upto(f)[n]
    <2>1. p + 1 \in DOMAIN f
      BY <1>2
    <2> QED
      BY <1>1, <1>2, <2>1, UptoExcept
  <1>7. Upto(e)[n] = Upto(f)[n] + two
    <2>1. Upto(f)[n] \in Int
      BY <1>1, UptoFacts DEF IntArray
    <2> HIDE DEF one, e
    <2> QED
      BY <1>2, <1>3, <1>6, <2>1
  <1> HIDE DEF one, two, e
  <1>8. Upto(e)[n] = Upto(d)[n] + one + two
    BY <1>5, <1>7
  <1> QED
    BY <1>8 DEF e, one, two

\* Carrying does not change the number.
LEMMA CarryOnInv == IInv /\ CarryOn => IInv'
  <1> SUFFICES ASSUME IInv, CarryOn PROVE IInv'
    OBVIOUS
  <1> USE DEF IInv
  <1> DEFINE r == c[k] % 10
             q == c[k] \div 10
             y == c[k + 1] + q
  <1>1. /\ loop = "carry" /\ c[k] > 9 /\ loop' = "carry" /\ k' = k + 1
        /\ UNCHANGED <<a, aneg, b, bneg, cneg, i, j, printed>>
        /\ c' = [c EXCEPT ![k] = r, ![k + 1] = y]
    <2>1. k + 1 # k
      BY DEF CarryOn, TypeOK
    <2> QED
      BY <2>1 DEF CarryOn
  <1>2. /\ IntArray(c) /\ N \in Nat \ {0} /\ k \in Nat /\ k + 1 < 2 * N
        /\ k \in 0..2 * N /\ k + 1 \in 0..2 * N /\ 2 * N + 1 \in Nat /\ k + 1 \in 0..2 * N - 1
    <2>1. k \in 0..2 * N - 1 /\ k + 1 < 2 * N
      BY <1>1, ProductFits DEF TypeOK
    <2> QED
      BY <2>1, ArrayFacts
  <1>3. c \in [0..2 * N -> -20..90] /\ \A p \in 0..2 * N : p # k => c[p] \in 0..9
    BY <1>1 DEF TypeOK, MulInv
  <1>4. c[k] \in 10..90 /\ c[k + 1] \in 0..9
    <2>1. c[k] \in -20..90 /\ k + 1 # k
      BY <1>2, <1>3
    <2>2. c[k] \in 10..90
      BY <1>1, <2>1
    <2>3. c[k + 1] \in 0..9
      BY <1>2, <1>3, <2>1
    <2> QED
      BY <2>2, <2>3
  <1>5. r \in 0..9 /\ q \in 0..9 /\ c[k] = 10 * q + r
    BY <1>4
  <1>6. y \in 0..18 /\ y - c[k + 1] = q
    BY <1>4, <1>5
  <1> HIDE DEF r, q, y
  <1>7. TypeOK'
    <2>1. c' \in [0..2 * N -> -20..90]
      <3>1. r \in -20..90 /\ y \in -20..90
        BY <1>5, <1>6
      <3> QED
        BY <1>1, <1>3, <3>1
    <2> QED
      BY <1>1, <1>2, <2>1 DEF TypeOK
  <1>8. Upto(c')[2 * N + 1] = Upto(c)[2 * N + 1]
    <2> DEFINE w == Weight[k]
               one == (r - c[k]) * Weight[k]
               two == (y - c[k + 1]) * Weight[k + 1]
    <2>1. Upto(c')[2 * N + 1] = Upto(c)[2 * N + 1] + one + two
      <3>1. /\ k \in DOMAIN c /\ k + 1 \in DOMAIN c /\ r \in Int /\ y \in Int
            /\ k < 2 * N + 1 /\ k + 1 < 2 * N + 1
        BY <1>2, <1>3, <1>5, <1>6
      <3> DEFINE e == [c EXCEPT ![k] = r, ![k + 1] = y]
      <3>2. Upto(e)[2 * N + 1] = Upto(c)[2 * N + 1]
                + (IF k < 2 * N + 1 THEN (r - c[k]) * Weight[k] ELSE 0)
                + (IF k + 1 < 2 * N + 1 THEN (y - c[k + 1]) * Weight[k + 1] ELSE 0)
        BY <1>2, <3>1, UptoExceptTwo
      <3>3. c' = e
        BY <1>1
      <3> HIDE DEF e
      <3> QED
        BY <3>1, <3>2, <3>3
    <2>2. Weight[k + 1] = 10 * w /\ w \in Int
      BY <1>2, WeightFacts
    <2>3. one = (0 - 10 * q) * w /\ two = q * (10 * w)
      <3>1. r - c[k] = 0 - 10 * q
        BY <1>4, <1>5
      <3> QED
        BY <1>6, <2>2, <3>1
    <2>4. Upto(c)[2 * N + 1] \in Int
      BY <1>2, ArrayFacts
    <2> HIDE DEF one, two, w
    <2>5. (0 - 10 * q) * w = 0 - 10 * (q * w) /\ q * (10 * w) = 10 * (q * w) /\ q * w \in Int
      BY <1>5, <2>2
    <2> QED
      BY <2>1, <2>3, <2>4, <2>5
  <1>9. MulInv'
    <2>1. \A p \in 0..2 * N : p = k + 1 \/ c'[p] \in 0..9
      BY <1>1, <1>2, <1>3, <1>5
    <2>2. c'[k + 1] = y /\ y >= 0
      BY <1>1, <1>2, <1>3, <1>6
    <2>3. Upto(c')[2 * N + 1] = Upto(a)[i] * Upto(b)[N] + a[i] * Weight[i] * Upto(b)[j + 1]
      BY <1>1, <1>8 DEF MulInv
    <2>4. OneLine' /\ cneg = (aneg # bneg) /\ i < N
      BY <1>1 DEF MulInv, OneLine
    <2> QED
      BY <1>1, <1>2, <2>1, <2>2, <2>3, <2>4 DEF MulInv
  <1>10. AddInv' /\ FixInv' /\ PostInv'
    BY <1>1 DEF AddInv, FixInv, PostInv
  <1>11. PrintsSumAndProduct'
    BY <1>1, OperandsKept
  <1> QED
    BY <1>7, <1>9, <1>10, <1>11

\* The next digit of b, or the next of a.
LEMMA CarryEndsInv == IInv /\ CarryEnds => IInv'
  <1> SUFFICES ASSUME IInv, CarryEnds PROVE IInv'
    OBVIOUS
  <1> USE DEF IInv
  <1>1. /\ loop = "carry" /\ c[k] <= 9 /\ loop' = "mul"
        /\ UNCHANGED <<a, aneg, b, bneg, c, cneg, k, printed>>
        /\ IF j + 1 < N THEN j' = j + 1 /\ i' = i ELSE j' = 0 /\ i' = i + 1
    BY DEF CarryEnds
  <1>2. i \in 0..N - 1 /\ j \in 0..N - 1 /\ N \in Nat \ {0} /\ i \in 0..N /\ i \in Nat
    BY <1>1, ProductFits, ArrayFacts
  <1>3. \A p \in 0..2 * N : c[p] \in 0..9
    <2>1. k \in 0..2 * N /\ c[k] \in 0..9
      <3>0. c[k] >= 0
        BY <1>1 DEF MulInv
      <3>1. k \in 0..2 * N - 1 /\ c \in [0..2 * N -> -20..90]
        BY DEF TypeOK
      <3>2. k \in 0..2 * N
        BY <1>2, <3>1
      <3>3. c[k] \in -20..90
        BY <3>1, <3>2
      <3>4. c[k] \in 0..9
        BY <1>1, <3>0, <3>3
      <3> QED
        BY <3>2, <3>4
    <2> QED
      BY <1>1, <2>1 DEF MulInv
  <1>4. i' \in 0..N /\ j' \in 0..N - 1 /\ (i' < N \/ j' = 0)
    BY <1>1, <1>2
  <1>5. TypeOK'
    <2>1. i' \in 0..N + 1
      BY <1>2, <1>4
    <2> QED
      BY <1>1, <1>4, <2>1 DEF TypeOK
  <1>6. Upto(c)[2 * N + 1] = Upto(a)[i'] * Upto(b)[N] + a[i'] * Weight[i'] * Upto(b)[j']
    <2>0. Upto(c)[2 * N + 1] = Upto(a)[i] * Upto(b)[N] + a[i] * Weight[i] * Upto(b)[j + 1]
      BY <1>1 DEF MulInv
    <2>1. CASE j + 1 < N
      BY <1>1, <2>0, <2>1
    <2>2. CASE ~(j + 1 < N)
      <3>1. j + 1 = N /\ i' = i + 1 /\ j' = 0
        BY <1>1, <1>2, <2>2
      <3> DEFINE u == Upto(a)[i]
                 x == a[i] * Weight[i]
                 v == Upto(b)[N]
                 z == a[i + 1] * Weight[i + 1]
      <3>2. Upto(a)[i + 1] = u + x /\ i + 1 \in 0..N /\ i + 1 \in Nat
        BY <1>2, OperandFacts
      <3>3. Upto(b)[0] = 0
        BY ArrayFacts, UptoFacts DEF IntArray
      <3>4. u \in Int /\ x \in Int /\ v \in Int /\ z \in Int
        <4>1. a[i] \in 0..9 /\ a[i + 1] \in 0..9
          BY <1>2, <3>2 DEF TypeOK
        <4>2. Weight[i] \in Int /\ Weight[i + 1] \in Int /\ N \in Nat
          BY <1>2, <3>2, WeightFacts
        <4>3. u \in Int /\ v \in Int
          BY <1>2, <4>2, ArrayFacts
        <4> QED
          BY <4>1, <4>2, <4>3
      <3>5. Upto(c)[2 * N + 1] = u * v + x * v
        BY <2>0, <3>1
      <3> HIDE DEF u, x, v, z
      <3>6. u * v + x * v = (u + x) * v + z * 0
        BY <3>4
      <3> QED
        BY <3>1, <3>2, <3>3, <3>5, <3>6 DEF v, z
    <2> QED
      BY <2>1, <2>2
  <1>7. MulInv'
    <2>1. OneLine' /\ cneg = (aneg # bneg)
      BY <1>1 DEF MulInv, OneLine
    <2>2. i' <= N
      BY <1>2, <1>4
    <2> QED
      BY <1>1, <1>3, <1>4, <1>6, <2>1, <2>2 DEF MulInv
  <1>8. AddInv' /\ FixInv' /\ PostInv'
    BY <1>1 DEF AddInv, FixInv, PostInv
  <1>9. PrintsSumAndProduct'
    BY <1>1, OperandsKept
  <1> QED
    BY <1>5, <1>7, <1>8, <1>9

\* The product is complete.
LEMMA MulEndsInv == IInv /\ MulEnds => IInv'
  <1> SUFFICES ASSUME IInv, MulEnds PROVE IInv'
    OBVIOUS
  <1> USE DEF IInv
  <1>1. /\ loop = "mul" /\ i = N /\ loop' = "post"
        /\ UNCHANGED <<a, aneg, b, bneg, c, cneg, i, j, k, printed>>
    BY DEF MulEnds
  <1>2. TypeOK'
    BY <1>1 DEF TypeOK
  <1>3. j = 0 /\ N \in Nat
    BY <1>1, ArrayFacts DEF MulInv
  <1>4. Upto(c)[2 * N + 1] = Upto(a)[N] * Upto(b)[N]
    <2> DEFINE p == Upto(a)[N] * Upto(b)[N]
               x == a[N] * Weight[N]
    <2>1. Upto(c)[2 * N + 1] = p + x * Upto(b)[0]
      BY <1>1, <1>3 DEF MulInv
    <2>2. Upto(b)[0] = 0
      BY ArrayFacts, UptoFacts DEF IntArray
    <2>3. p \in Int /\ x \in Int
      <3>1. N \in 0..N
        BY <1>3
      <3> QED
        <4>1. a[N] \in 0..9 /\ Weight[N] \in Int
          BY <1>3, <3>1, WeightFacts DEF TypeOK
        <4>2. Upto(a)[N] \in Int /\ Upto(b)[N] \in Int
          BY <1>3, ArrayFacts
        <4> QED
          BY <4>1, <4>2
    <2> HIDE DEF p, x
    <2>4. p + x * 0 = p
      BY <2>3
    <2> QED
      BY <2>1, <2>2, <2>4 DEF p
  <1>5. PostInv'
    <2>1. \A p \in 0..2 * N : c[p] \in 0..9
      BY <1>1 DEF MulInv
    <2>2. AllDigits(2 * N + 1)
      <3>1. \A p \in 0..(2 * N + 1) - 1 : p \in 0..2 * N
        BY <1>3
      <3> QED
        BY <2>1, <3>1 DEF AllDigits
    <2>3. AllDigits(2 * N + 1)'
      BY <1>1, <2>2 DEF AllDigits
    <2>4. OneLine /\ cneg = (aneg # bneg)
      BY <1>1 DEF MulInv
    <2>5. OneLine' /\ printed' # << >>
      BY <1>1, <2>4 DEF OneLine
    <2> QED
      BY <1>1, <1>4, <2>3, <2>4, <2>5 DEF PostInv
  <1>6. AddInv' /\ FixInv' /\ MulInv'
    BY <1>1 DEF AddInv, FixInv, MulInv
  <1>7. PrintsSumAndProduct'
    BY <1>1, OperandsKept
  <1> QED
    BY <1>2, <1>5, <1>6, <1>7

\* clear: an array of zeros means zero.
LEMMA ZerosFacts ==
    ASSUME NEW n \in Nat
    PROVE  Upto(Zeros)[n] = 0
  <1>1. IntArray(Zeros) /\ \A p \in Nat : Digit(Zeros, p) = 0
    BY DEF Zeros, IntArray, Digit
  <1>2. Upto(Zeros)[0] = 0
    BY <1>1, UptoFacts DEF IntArray
  <1>3. Upto(Zeros)[n] = Upto(Zeros)[0]
    <2>1. \A p \in 0..n - 1 : Digit(Zeros, p) = 0
      BY <1>1
    <2> QED
      BY <1>1, <2>1, UptoZeros
  <1> QED
    BY <1>2, <1>3

\* What is printed of a result without digits above n.
LEMMA ResultShown ==
    ASSUME TypeOK, NEW n \in 0..2 * N, \A p \in n + 1..2 * N : c[p] = 0, NEW v \in Int
    PROVE  /\ AllDigits(n + 1) /\ Upto(c)[n + 1] = Signed(cneg, v) => Shows(Line, v)
           /\ Upto(c)[n + 1] # Signed(cneg, v) => ~Shows(Line, v)
  <1>1. /\ c \in [0..2 * N -> Int] /\ cneg \in BOOLEAN
        /\ \A p \in 0..2 * N : Digit(c, p) = c[p]
        /\ N \in Nat /\ n + 1 \in Nat /\ 2 * N + 1 \in Nat /\ n + 1 <= 2 * N + 1 /\ IntArray(c)
    <2>1. -20..90 \subseteq Int
      OBVIOUS
    <2>2. c \in [0..2 * N -> Int] /\ cneg \in BOOLEAN
      BY <2>1 DEF TypeOK
    <2> QED
      BY <2>2, ArrayFacts
  <1> DEFINE S == Upto(c)[2 * N + 1]
  <1>2. Upto(c)[n + 1] = S
    <2>1. \A p \in n + 1..(2 * N + 1) - 1 : Digit(c, p) = 0
      BY <1>1
    <2> QED
      BY <1>1, <2>1, UptoZeros
  <1>3. S \in Int
    BY <1>1, ArrayFacts
  <1>4. /\ Shows(Line, v) => v = Signed(cneg, S)
        /\ AllDigits(2 * N + 1) /\ v = Signed(cneg, S) => Shows(Line, v)
    BY <1>1, LineShows
  <1>5. S = Signed(cneg, v) <=> v = Signed(cneg, S)
    <2> HIDE DEF S
    <2> QED
      BY <1>3 DEF Signed
  <1>6. AllDigits(n + 1) => AllDigits(2 * N + 1)
    <2>1. \A p \in 0..(2 * N + 1) - 1 : p \in 0..(n + 1) - 1 \/ p \in n + 1..2 * N
      BY <1>1
    <2>2. 0 \in 0..9
      OBVIOUS
    <2> QED
      BY <2>1, <2>2 DEF AllDigits
  <1> HIDE DEF S
  <1> QED
    BY <1>2, <1>4, <1>5, <1>6

\* A result is printed.
LEMMA PostAndPrintInv == IInv /\ PostAndPrint => IInv'
  <1> SUFFICES ASSUME IInv, PostAndPrint PROVE IInv'
    OBVIOUS
  <1> USE DEF IInv
  <1>1. /\ loop = "post" /\ printed' = Append(printed, Line)
        /\ UNCHANGED <<a, aneg, b, bneg, k>>
    BY DEF PostAndPrint
  <1>2. A \in Int /\ B \in Int /\ N \in Nat \ {0} /\ A + B \in Int /\ N \in 0..2 * N /\ 2 * N \in 0..2 * N
    BY ArrayFacts
  <1>3. A' = A /\ B' = B /\ (Spoilt' <=> Spoilt)
    BY <1>1, OperandsKept
  <1>4. CASE printed = << >>
    <2>1. /\ loop' = "mul" /\ c' = Zeros /\ cneg' = (aneg # bneg) /\ i' = 0 /\ j' = 0
      BY <1>4 DEF PostAndPrint
    <2>2. printed' = <<Line>> /\ printed'[1] = Line /\ Len(printed') = 1
      BY <1>1, <1>4
    <2>3. TypeOK'
      <3>1. Zeros \in [0..2 * N -> -20..90]
        BY DEF Zeros
      <3>2. 0 \in 0..N + 1 /\ 0 \in 0..N - 1
        BY <1>2
      <3> QED
        BY <1>1, <2>1, <3>1, <3>2 DEF TypeOK
    <2>4. MulInv'
      <3>1. \A p \in 0..2 * N : c'[p] \in 0..9
        BY <2>1 DEF Zeros
      <3>2. OneLine'
        BY <2>2 DEF OneLine
      <3>3. Upto(c')[2 * N + 1] = 0
        <4>1. 2 * N + 1 \in Nat
          BY <1>2
        <4> QED
          BY <2>1, <4>1, ZerosFacts
      <3>4. Upto(a)[0] * Upto(b)[N] + a[0] * Weight[0] * Upto(b)[0] = 0
        <4>1. Upto(a)[0] = 0 /\ Upto(b)[0] = 0
          BY ArrayFacts, UptoFacts DEF IntArray
        <4>2. Upto(b)[N] \in Int /\ a[0] \in 0..9 /\ Weight[0] = 1
          <5>1. 0 \in 0..N /\ N \in Nat
            BY <1>2
          <5>2. a[0] \in 0..9
            BY <5>1 DEF TypeOK
          <5> QED
            BY <5>1, <5>2, ArrayFacts, WeightFacts
        <4> QED
          BY <4>1, <4>2
      <3> QED
        BY <1>1, <1>2, <2>1, <3>1, <3>2, <3>3, <3>4 DEF MulInv
    <2>5. AddInv' /\ FixInv' /\ PostInv'
      BY <2>1 DEF AddInv, FixInv, PostInv
    <2>6. Shows(Line, A + B) <=> ~Spoilt
      <3>1. (\A p \in N + 1..2 * N : c[p] = 0) /\ SumInv
        BY <1>1, <1>4 DEF PostInv
      <3>2. /\ AllDigits(N + 1) /\ Upto(c)[N + 1] = Signed(cneg, A + B) => Shows(Line, A + B)
            /\ Upto(c)[N + 1] # Signed(cneg, A + B) => ~Shows(Line, A + B)
        BY <1>2, <3>1, ResultShown
      <3> QED
        BY <3>1, <3>2 DEF SumInv
    <2>7. PrintsSumAndProduct'
      BY <1>3, <2>2, <2>6 DEF PrintsSumAndProduct
    <2> QED
      BY <2>3, <2>4, <2>5, <2>7
  <1>5. CASE printed # << >>
    <2>1. loop' = "end" /\ UNCHANGED <<c, cneg, i, j>>
      BY <1>5 DEF PostAndPrint
    <2>2. printed' # << >> /\ printed'[1] = printed[1] /\ printed'[2] = Line
      <3> DEFINE l == printed[1]
      <3>1. printed = <<l>>
        BY <1>1, <1>5 DEF PostInv, OneLine
      <3> HIDE DEF l
      <3> DEFINE m == Line
                 S == {l, m}
      <3>2. <<l>> \in Seq(S) /\ m \in S /\ Len(<<l>>) = 1 /\ <<l>>[1] = l /\ 1 \in 1..1
        OBVIOUS
      <3> HIDE DEF S, m
      <3>3. printed' = Append(<<l>>, m)
        BY <1>1, <3>1 DEF m
      <3>4. printed[1] = l
        BY <3>1
      <3>5. printed' # << >> /\ printed'[1] = l /\ printed'[2] = m
        <4>1. 1 + 1 = 2
          OBVIOUS
        <4> QED
          BY <3>2, <3>3, <4>1, AppendProperties
      <3> QED
        BY <3>4, <3>5 DEF m
    <2>3. TypeOK'
      BY <1>1, <2>1 DEF TypeOK
    <2>4. AddInv' /\ FixInv' /\ MulInv' /\ PostInv'
      BY <2>1 DEF AddInv, FixInv, MulInv, PostInv
    <2>5. Shows(Line, A * B)
      <3>1. cneg = (aneg # bneg) /\ AllDigits(2 * N + 1) /\ Upto(c)[2 * N + 1] = Upto(a)[N] * Upto(b)[N]
        BY <1>1, <1>5 DEF PostInv
      <3> DEFINE u == Upto(a)[N]
                 v == Upto(b)[N]
      <3>2. u \in Int /\ v \in Int /\ aneg \in BOOLEAN /\ bneg \in BOOLEAN
        BY <1>2, ArrayFacts DEF TypeOK
      <3>3. A = Signed(aneg, u) /\ B = Signed(bneg, v)
        BY DEF A, B
      <3> HIDE DEF u, v
      <3>4. u * v = Signed(cneg, A * B)
        <4>1. (-u) * v = -(u * v) /\ u * (-v) = -(u * v) /\ (-u) * (-v) = u * v /\ -(-(u * v)) = u * v
          BY <3>2
        <4> QED
          BY <3>1, <3>2, <3>3, <4>1 DEF Signed
      <3>5. A * B \in Int /\ \A p \in 2 * N + 1..2 * N : c[p] = 0
        BY <1>2
      <3> QED
        BY <1>2, <3>1, <3>4, <3>5, ResultShown DEF u, v
    <2>6. Shows(printed[1], A + B) <=> ~Spoilt
      BY <1>5 DEF PrintsSumAndProduct
    <2>7. PrintsSumAndProduct'
      BY <1>3, <2>2, <2>5, <2>6 DEF PrintsSumAndProduct
    <2> QED
      BY <2>3, <2>4, <2>7
  <1> QED
    BY <1>4, <1>5

-----------------------------------------------------------------------------
(* The sum *)

\* A column and its carry mean what the column did.
LEMMA CarriedFacts ==
    ASSUME NEW sum \in Int
    PROVE  LET d == Carried(sum)
           IN  /\ d[1] \in Int /\ d[2] \in {-1, 0, 1}
               /\ d[1] + 10 * d[2] = sum
               /\ d[1] = IF sum > 9 THEN sum - 10 ELSE IF sum < 0 THEN sum + 10 ELSE sum
               /\ d[2] = IF sum > 9 THEN 1 ELSE IF sum < 0 THEN -1 ELSE 0
  BY DEF Carried

\* The columns below the first one are done.
LEMMA AddDigitColumns ==
    ASSUME TypeOK, Columns, NEW n \in 0..N - 1, i = n,
           UNCHANGED <<a, aneg, b, bneg>>, i' = n + 1,
           NEW sum, sum = c[n] + Signed(aneg, a[n]) + Signed(bneg, b[n]),
           NEW x, x = IF sum > 9 THEN sum - 10 ELSE IF sum < 0 THEN sum + 10 ELSE sum,
           NEW y, y = IF sum > 9 THEN 1 ELSE IF sum < 0 THEN -1 ELSE 0,
           c' = [c EXCEPT ![n] = x, ![n + 1] = y]
    PROVE  Columns' /\ sum \in Int /\ x \in -9..9
  <1>1. /\ N \in Nat \ {0} /\ n \in 0..N /\ n \in 0..2 * N /\ n + 1 \in 0..2 * N /\ n \in Int
        /\ DOMAIN c = 0..2 * N
    BY DecimalAssumption DEF TypeOK
  <1>2. a[n] \in 0..9 /\ b[n] \in 0..9
    BY <1>1 DEF TypeOK
  <1>3. c'[n] = x /\ c'[n + 1] = y /\ \A p \in 0..n - 1 : c'[p] = c[p]
    <2>1. n + 1 # n /\ \A p \in 0..n - 1 : p # n /\ p # n + 1 /\ p \in 0..2 * N
      BY <1>1
    <2>2. n \in DOMAIN c /\ n + 1 \in DOMAIN c /\ DOMAIN c = 0..2 * N
      BY <1>1
    <2> QED
      BY <2>1, <2>2, SMTT(30)
  <1>4. /\ \A p : BorrowsTwice(p)' <=> BorrowsTwice(p)
        /\ \A p : Borrows(p)' <=> Borrows(p)
    BY DEF BorrowsTwice, Borrows
  <1>5. BothNegative' <=> BothNegative
    BY OperandsKept
  <1>6. \A p \in 0..(n + 1) - 1 : p = n \/ p \in 0..n - 1
    BY <1>1
  <1>7. CASE BothNegative
    <2>1. /\ \A p \in 0..n - 1 : c[p] \in -9..9 /\ (c[p] < 0 <=> BorrowsTwice(p))
          /\ c[n] = IF Borrows(n) THEN -1 ELSE 0
          /\ ~Borrows(n) => \A p \in 0..n - 1 : c[p] = 0
      BY <1>7 DEF Columns
    <2>2. aneg /\ bneg
      BY <1>7 DEF BothNegative
    <2>3. sum = c[n] - a[n] - b[n] /\ c[n] \in -1..0
      <3>1. c[n] \in -1..0
        BY <2>1
      <3> QED
        BY <1>2, <2>2, <3>1 DEF Signed
    <2>4. sum \in -19..0
      BY <1>2, <2>3
    <2>5. x = (IF sum < 0 THEN sum + 10 ELSE 0) /\ y = (IF sum < 0 THEN -1 ELSE 0)
      BY <2>4
    <2>6. x \in -9..9
      BY <2>4, <2>5
    <2>7. x < 0 <=> BorrowsTwice(n)
      BY <1>2, <2>1, <2>3, <2>5 DEF BorrowsTwice
    <2>8. Borrows(n + 1) <=> (Borrows(n) \/ a[n] + b[n] > 0)
      BY <1>1, <1>6 DEF Borrows
    <2>9. sum < 0 <=> Borrows(n + 1)
      BY <1>2, <2>1, <2>3, <2>8
    <2>10. /\ \A p \in 0..(n + 1) - 1 : c'[p] \in -9..9 /\ (c'[p] < 0 <=> BorrowsTwice(p))
           /\ c'[n + 1] = IF Borrows(n + 1) THEN -1 ELSE 0
      BY <1>3, <1>6, <2>1, <2>5, <2>6, <2>7, <2>9
    <2>11. ~Borrows(n + 1) => \A p \in 0..(n + 1) - 1 : c'[p] = 0
      BY <1>3, <1>6, <2>1, <2>5, <2>8, <2>9
    <2>12. sum \in Int
      BY <2>4
    <2> QED
      BY <1>4, <1>5, <1>7, <2>6, <2>10, <2>11, <2>12 DEF Columns
  <1>8. CASE ~BothNegative
    <2>1. AllDigits(n) /\ c[n] \in -1..1
      BY <1>8 DEF Columns
    <2>2. sum \in -10..19
      BY <1>2, <1>8, <2>1 DEF BothNegative, Signed
    <2>3. x \in 0..9 /\ y \in -1..1
      BY <2>2
    <2>4. AllDigits(n + 1)' /\ c'[n + 1] \in -1..1
      BY <1>3, <1>6, <2>1, <2>3 DEF AllDigits
    <2>5. Columns'
      <3>1. i' = n + 1 /\ ~BothNegative'
        BY <1>5, <1>8
      <3>2. AllDigits(i)' /\ c'[i'] \in -1..1
        BY <2>4, <3>1 DEF AllDigits
      <3> QED
        BY <3>1, <3>2 DEF Columns
    <2>6. sum \in Int /\ x \in -9..9
      BY <2>2, <2>3
    <2> QED
      BY <2>5, <2>6
  <1> QED
    BY <1>7, <1>8

\* A column is added.
LEMMA AddDigitInv == IInv /\ AddDigit => IInv'
  <1> SUFFICES ASSUME IInv, AddDigit PROVE IInv'
    OBVIOUS
  <1> USE DEF IInv
  <1> DEFINE sum == c[i] + Signed(aneg, a[i]) + Signed(bneg, b[i])
             d == Carried(sum)
             x == d[1]
             y == d[2]
  <1>1. /\ loop = "add" /\ i < N /\ i' = i + 1
        /\ UNCHANGED <<loop, a, aneg, b, bneg, cneg, j, k, printed>>
        /\ c' = [c EXCEPT ![i] = x, ![i + 1] = @ + y]
    BY DEF AddDigit
  <1>2. /\ i \in 0..N - 1 /\ N \in Nat \ {0} /\ i \in Nat /\ i \in 0..2 * N /\ i + 1 \in 0..2 * N
        /\ i \in 0..N /\ i + 1 \in 0..N + 1 /\ i + 1 # i /\ IntArray(c)
        /\ \A p \in 0..2 * N : Digit(c, p) = c[p]
    <2>1. i \in 0..N + 1
      BY DEF TypeOK
    <2> QED
      BY <1>1, <2>1, ArrayFacts
  <1>3. /\ c \in [0..2 * N -> -20..90] /\ DOMAIN c = 0..2 * N /\ a[i] \in 0..9 /\ b[i] \in 0..9
        /\ aneg \in BOOLEAN /\ bneg \in BOOLEAN
    BY <1>2 DEF TypeOK
  <1>4. sum \in Int
    <2>1. c[i] \in -20..90
      BY <1>2, <1>3
    <2>2. \A m, n \in 0..9 : \A p \in -20..90 :
              p + Signed(aneg, m) + Signed(bneg, n) \in Int
      BY DEF Signed
    <2> QED
      BY <1>3, <2>1, <2>2
  <1> HIDE DEF sum
  <1>5. /\ x \in Int /\ y \in {-1, 0, 1} /\ x + 10 * y = sum
        /\ x = IF sum > 9 THEN sum - 10 ELSE IF sum < 0 THEN sum + 10 ELSE sum
        /\ y = IF sum > 9 THEN 1 ELSE IF sum < 0 THEN -1 ELSE 0
    BY <1>4, CarriedFacts
  <1> HIDE DEF x, y
  <1>6. c[i + 1] = 0 /\ Columns
    BY <1>1, <1>2 DEF AddInv
  <1>7. c' = [c EXCEPT ![i] = x, ![i + 1] = y]
    <2> DEFINE D == 0..2 * N
    <2>1. c \in [D -> Int] /\ i \in D /\ i + 1 \in D /\ i \in Int
      <3>1. -20..90 \subseteq Int
        OBVIOUS
      <3>2. c \in [D -> Int]
        <4> HIDE DEF D
        <4>1. c \in [D -> -20..90]
          BY <1>3 DEF D
        <4> QED
          BY <3>1, <4>1
      <3> QED
        BY <1>2, <3>2
    <2>2. y \in Int
      BY <1>5
    <2>3. c' = [c EXCEPT ![i] = x, ![i + 1] = @ + y]
      BY <1>1
    <2> HIDE DEF D
    <2> QED
      BY <1>6, <2>1, <2>2, <2>3
  <1>8. Columns' /\ x \in -9..9
    <2> DEFINE n == i
    <2>1. sum = c[n] + Signed(aneg, a[n]) + Signed(bneg, b[n])
      BY DEF sum
    <2>2. /\ n \in 0..N - 1 /\ i = n /\ i' = n + 1 /\ TypeOK /\ Columns
          /\ UNCHANGED <<a, aneg, b, bneg>>
          /\ c' = [c EXCEPT ![n] = x, ![n + 1] = y]
      BY <1>1, <1>2, <1>6, <1>7
    <2> HIDE DEF n
    <2> QED
      BY <1>5, <2>1, <2>2, AddDigitColumns
  <1>9. TypeOK'
    <2>1. x \in -20..90 /\ y \in -20..90
      BY <1>5, <1>8
    <2>2. c' \in [0..2 * N -> -20..90]
      BY <1>3, <1>7, <2>1
    <2> QED
      BY <1>1, <1>2, <2>2 DEF TypeOK
  <1>10. Upto(c')[(i + 1) + 1] = Upto(c)[i + 1] + (sum - c[i]) * Weight[i]
    <2> DEFINE e == [c EXCEPT ![i] = x, ![i + 1] = y]
               n == (i + 1) + 1
               w == Weight[i]
               u == Upto(c)[i + 1]
    <2>1. i \in DOMAIN c /\ i + 1 \in DOMAIN c /\ n \in Nat /\ i < n /\ i + 1 < n /\ y \in Int /\ i + 1 \in Nat
      BY <1>2, <1>3, <1>5
    <2>2. Upto(e)[n] = Upto(c)[n] + (IF i < n THEN (x - c[i]) * Weight[i] ELSE 0)
                         + (IF i + 1 < n THEN (y - c[i + 1]) * Weight[i + 1] ELSE 0)
      <3> HIDE DEF n
      <3> QED
        BY <1>2, <1>5, <2>1, UptoExceptTwo
    <2>3. Upto(c)[n] = u + Digit(c, i + 1) * Weight[i + 1]
      BY <1>2, <2>1, UptoFacts DEF IntArray
    <2>4. u \in Int /\ w \in Int /\ Weight[i + 1] = 10 * w /\ c[i] \in Int
      <3>1. c[i] \in -20..90
        BY <1>2, <1>3
      <3> QED
        BY <1>2, <2>1, <3>1, ArrayFacts, WeightFacts
    <2>5. Digit(c, i + 1) = 0
      BY <1>2, <1>6
    <2> HIDE DEF e, u, w
    <2>6. Upto(c)[n] = u
      BY <2>3, <2>4, <2>5
    <2>7. Upto(e)[n] = u + (x - c[i]) * w + y * (10 * w)
      <3>1. y - c[i + 1] = y
        BY <1>5, <1>6
      <3> HIDE DEF n
      <3> QED
        BY <2>1, <2>2, <2>4, <2>6, <3>1 DEF w
    <2>8. (x - c[i]) * w + y * (10 * w) = (sum - c[i]) * w
      <3>1. (x - c[i]) * w + y * (10 * w) = ((x + 10 * y) - c[i]) * w
        BY <1>5, <2>4
      <3> QED
        BY <1>5, <3>1
    <2>9. (x - c[i]) * w \in Int /\ y * (10 * w) \in Int
      BY <1>5, <2>4
    <2>10. Upto(e)[n] = u + (sum - c[i]) * w
      <3> HIDE DEF n
      <3> QED
        BY <2>4, <2>7, <2>8, <2>9
    <2> QED
      BY <1>7, <2>10 DEF e, n, u, w
  <1>11. Upto(c')[(i + 1) + 1] = Signed(aneg, Upto(a)[i + 1]) + Signed(bneg, Upto(b)[i + 1])
    <2> DEFINE u == Upto(a)[i]
               v == Upto(b)[i]
               x1 == a[i]
               y1 == b[i]
               w == Weight[i]
    <2>1. Upto(a)[i + 1] = u + x1 * w /\ Upto(b)[i + 1] = v + y1 * w
      BY <1>2, OperandFacts
    <2>2. u \in Int /\ v \in Int /\ w \in Int /\ x1 \in Int /\ y1 \in Int
      <3>1. u \in Int /\ v \in Int /\ w \in Int
        BY <1>2, ArrayFacts, WeightFacts
      <3> QED
        BY <1>3, <3>1
    <2>3. Upto(c)[i + 1] = Signed(aneg, u) + Signed(bneg, v)
      BY <1>1 DEF AddInv
    <2>4. sum - c[i] = Signed(aneg, x1) + Signed(bneg, y1)
      <3>1. c[i] \in -20..90
        BY <1>2, <1>3
      <3> QED
        <4>1. \A p \in -20..90 : \A m, n \in 0..9 :
                  (p + Signed(aneg, m) + Signed(bneg, n)) - p = Signed(aneg, m) + Signed(bneg, n)
          BY DEF Signed
        <4> QED
          BY <1>3, <3>1, <4>1, Zenon DEF sum
    <2> DEFINE xw == x1 * w
               yw == y1 * w
    <2> HIDE DEF u, v, x1, y1, w
    <2>5. (sum - c[i]) * w = Signed(aneg, xw) + Signed(bneg, yw)
      <3>1. (x1 + y1) * w = xw + yw /\ (-x1 + y1) * w = -xw + yw
        BY <2>2
      <3>2. (x1 + (-y1)) * w = xw + (-yw) /\ ((-x1) + (-y1)) * w = (-xw) + (-yw)
        BY <2>2
      <3> HIDE DEF xw, yw
      <3> QED
        BY <2>4, <3>1, <3>2 DEF Signed
    <2>6. xw \in Int /\ yw \in Int
      BY <2>2
    <2> HIDE DEF xw, yw
    <2>7. Signed(aneg, u) + Signed(bneg, v) + (Signed(aneg, xw) + Signed(bneg, yw))
            = Signed(aneg, u + xw) + Signed(bneg, v + yw)
      BY <2>2, <2>6 DEF Signed
    <2>8. Upto(a)[i + 1] = u + xw /\ Upto(b)[i + 1] = v + yw
      BY <2>1 DEF xw, yw
    <2>9. Upto(c')[(i + 1) + 1] = Upto(c)[i + 1] + (sum - c[i]) * w
      BY <1>10 DEF w
    <2> QED
      BY <2>3, <2>5, <2>7, <2>8, <2>9
  <1>12. AddInv'
    <2>1. \A p \in (i + 1) + 1..2 * N : c'[p] = 0
      <3>1. \A p \in (i + 1) + 1..2 * N : p # i /\ p # i + 1 /\ p \in i + 1..2 * N /\ p \in 0..2 * N
        BY <1>2
      <3>2. \A p \in i + 1..2 * N : c[p] = 0
        BY <1>1 DEF AddInv
      <3> QED
        BY <1>3, <1>7, <3>1, <3>2
    <2>2. printed = << >> /\ ~cneg
      BY <1>1 DEF AddInv
    <2>3. i + 1 <= N
      BY <1>2
    <2> QED
      BY <1>1, <1>8, <1>11, <2>1, <2>2, <2>3 DEF AddInv
  <1>13. FixInv' /\ MulInv' /\ PostInv'
    BY <1>1 DEF FixInv, MulInv, PostInv
  <1>14. PrintsSumAndProduct'
    BY <1>1, OperandsKept
  <1> QED
    BY <1>9, <1>12, <1>13, <1>14

\* The sum before it is corrected: its sign and its digits.
LEMMA SumFacts ==
    ASSUME TypeOK, AddInv, loop = "add", i = N
    PROVE  /\ Upto(c)[N + 1] = A + B
           /\ \A p \in 0..N - 1 : c[p] \in -9..9
           /\ c[N] \in {-1, 0, 1}
           /\ c[N] < 0 <=> A + B < 0
           /\ c[N] >= 0 => AllDigits(N + 1)
           /\ \A p \in 0..N - 1 : c[p] < 0 <=> BothNegative /\ BorrowsTwice(p)
  <1>1. /\ IntArray(c) /\ N \in Nat \ {0} /\ N \in 0..2 * N
        /\ \A p \in 0..2 * N : Digit(c, p) = c[p]
        /\ \A p \in 0..N - 1 : p \in 0..2 * N
    BY ArrayFacts
  <1>2. Upto(c)[N + 1] = A + B
    BY DEF AddInv, A, B
  <1>3. Columns
    BY DEF AddInv
  <1>4. /\ \A p \in 0..N - 1 : c[p] \in -9..9
        /\ c[N] \in {-1, 0, 1}
        /\ \A p \in 0..N - 1 : c[p] < 0 <=> BothNegative /\ BorrowsTwice(p)
        /\ ~BothNegative => AllDigits(N)
        /\ BothNegative => c[N] # 1
        /\ BothNegative /\ c[N] # -1 => \A p \in 0..N - 1 : c[p] = 0
    <2>1. CASE BothNegative
      BY <1>3, <2>1 DEF Columns
    <2>2. CASE ~BothNegative
      BY <1>3, <2>2 DEF Columns, AllDigits
    <2> QED
      BY <2>1, <2>2
  <1> DEFINE u == Upto(c)[N]
             w == Weight[N]
  <1>5. u \in Int /\ w \in Int /\ w >= 1 /\ Upto(c)[N + 1] = u + c[N] * w
    BY <1>1, ArrayFacts, UptoFacts, WeightFacts, WeightGrows DEF IntArray
  <1>6. u < w
    <2>1. \A p \in 0..N - 1 : Digit(c, p) \in -9..9
      BY <1>1, <1>4
    <2>2. -9 \in {-9, 0} /\ N \in Nat
      BY <1>1
    <2> QED
      BY <1>1, <2>1, <2>2, UptoBounds
  <1>7. AllDigits(N) => u >= 0
    <2>1. AllDigits(N) => \A p \in 0..N - 1 : Digit(c, p) \in 0..9
      BY <1>1 DEF AllDigits
    <2>2. 0 \in {-9, 0} /\ N \in Nat
      BY <1>1
    <2> QED
      BY <1>1, <2>1, <2>2, UptoBounds
  <1>8. c[N] # -1 => AllDigits(N)
    <2>1. 0 \in 0..9
      OBVIOUS
    <2> QED
      BY <1>4, <2>1 DEF AllDigits
  <1>9. c[N] < 0 <=> A + B < 0
    <2> HIDE DEF u, w
    <2>1. CASE c[N] = -1
      <3>1. A + B = u - w
        BY <1>2, <1>5, <2>1
      <3> QED
        BY <1>5, <1>6, <2>1, <3>1
    <2>2. CASE c[N] = 0
      <3>1. A + B = u
        BY <1>2, <1>5, <2>2
      <3> QED
        BY <1>5, <1>7, <1>8, <2>2, <3>1
    <2>3. CASE c[N] = 1
      <3>1. A + B = u + w
        BY <1>2, <1>5, <2>3
      <3> QED
        BY <1>5, <1>7, <1>8, <2>3, <3>1
    <2> QED
      BY <1>4, <2>1, <2>2, <2>3
  <1>10. c[N] >= 0 => AllDigits(N + 1)
    <2>1. \A p \in 0..(N + 1) - 1 : p = N \/ p \in 0..N - 1
      BY <1>1
    <2>2. c[N] >= 0 => c[N] \in 0..9 /\ c[N] # -1
      BY <1>4
    <2> QED
      BY <1>8, <2>1, <2>2 DEF AllDigits
  <1> QED
    BY <1>2, <1>4, <1>9, <1>10

\* A negative sum ends in zero when the units it is made of are zero.
LEMMA LastDigit ==
    ASSUME IntArray(c), NEW n \in Nat, NEW x, x = Digit(c, 0), x \in -9..9
    PROVE  Upto(c)[n + 1] % 10 = 0 <=> x = 0
  <1>1. PICK m \in Int : Upto(c)[n + 1] = x + 10 * m
    BY UptoUnits
  <1>2. (x + 10 * m) % 10 = 0 <=> x = 0
    OBVIOUS
  <1> QED
    BY <1>1, <1>2

\* The columns are added; a negative sum is to be corrected.
LEMMA AddEndsInv == IInv /\ AddEnds => IInv'
  <1> SUFFICES ASSUME IInv, AddEnds PROVE IInv'
    OBVIOUS
  <1> USE DEF IInv
  <1>1. /\ loop = "add" /\ i = N
        /\ UNCHANGED <<a, aneg, b, bneg, j, k, printed>>
    BY DEF AddEnds
  <1>2. /\ Upto(c)[N + 1] = A + B
        /\ \A p \in 0..N - 1 : c[p] \in -9..9
        /\ c[N] \in {-1, 0, 1}
        /\ c[N] < 0 <=> A + B < 0
        /\ c[N] >= 0 => AllDigits(N + 1)
        /\ \A p \in 0..N - 1 : c[p] < 0 <=> BothNegative /\ BorrowsTwice(p)
    BY <1>1, SumFacts
  <1>3. /\ IntArray(c) /\ N \in Nat \ {0} /\ N \in 0..2 * N
        /\ \A p \in 0..2 * N : Digit(c, p) = c[p]
        /\ \A p \in 0..N - 1 : p \in 0..2 * N
        /\ A \in Int /\ B \in Int
    BY ArrayFacts
  <1>4. A' = A /\ B' = B /\ (Spoilt' <=> Spoilt) /\ (BothNegative' <=> BothNegative)
    BY <1>1, OperandsKept
  <1>5. PrintsSumAndProduct'
    BY <1>1, OperandsKept
  <1>6. printed = << >> /\ ~cneg /\ \A p \in N + 1..2 * N : c[p] = 0
    BY <1>1 DEF AddInv
  <1>7. CASE c[N] < 0
    <2>1. loop' = "fix" /\ cneg' = TRUE /\ c' = [c EXCEPT ![0] = c[0] - 1] /\ i' = 0
      BY <1>7 DEF AddEnds
    <2>2. /\ c \in [0..2 * N -> -20..90] /\ DOMAIN c = 0..2 * N /\ 0 \in 0..2 * N /\ 0 \in 0..N - 1
          /\ c[0] \in -9..9
      BY <1>2, <1>3 DEF TypeOK
    <2>3. c[0] - 1 \in -10..8
      BY <2>2
    <2>4. TypeOK'
      <3>1. c[0] - 1 \in -20..90 /\ 0 \in 0..N + 1
        BY <1>3, <2>3
      <3>2. c' \in [0..2 * N -> -20..90]
        BY <2>1, <2>2, <3>1
      <3> QED
        BY <1>1, <2>1, <3>1, <3>2 DEF TypeOK
    <2>5. /\ c'[0] = c[0] - 1
          /\ \A p \in 0..2 * N : p # 0 => c'[p] = c[p]
      BY <2>1, <2>2
    <2>6. Upto(c')[N + 1] = (A + B) - 1 /\ Upto(c')[0] = 0
      <3> DEFINE y == c[0] - 1
                 e == [c EXCEPT ![0] = y]
      <3>1. y \in Int /\ 0 \in DOMAIN c /\ 0 \in Nat /\ N + 1 \in Nat /\ 0 < N + 1 /\ y - c[0] = -1
        BY <1>3, <2>2
      <3>2. c' = e
        BY <2>1
      <3> HIDE DEF y
      <3>3. IntArray(e) /\ Upto(e)[N + 1] =
              IF 0 < N + 1 THEN Upto(c)[N + 1] + (y - c[0]) * Weight[0] ELSE Upto(c)[N + 1]
        BY <1>3, <3>1, UptoExcept
      <3> HIDE DEF e
      <3>4. Upto(e)[0] = 0
        BY <3>3, UptoFacts DEF IntArray
      <3> QED
        BY <1>2, <1>3, <3>1, <3>2, <3>3, <3>4, WeightFacts
    <2>7. Excess' = 0
      <3>1. Excess' = Upto(c')[N + 1] - 2 * Upto(c')[0] + Weight[0] - (A + B)
        BY <1>4, <2>1 DEF Excess
      <3> QED
        BY <1>3, <2>6, <3>1, WeightFacts
    <2>8. \A p \in 0..N - 1 : c'[p] < 0 <=> Incremented(p)
      <3> TAKE p \in 0..N - 1
      <3>1. CASE p = 0
        <4>1. (A + B) % 10 = 0 <=> c[0] = 0
          <5>1. N \in Nat /\ Digit(c, 0) = c[0]
            BY <1>3, <2>2
          <5> QED
            BY <1>2, <1>3, <2>2, <5>1, LastDigit
        <4>2. c'[0] < 0 <=> (c[0] = 0 \/ c[0] < 0)
          BY <2>2, <2>5, SMTT(30)
        <4> QED
          BY <1>2, <2>2, <3>1, <4>1, <4>2 DEF Incremented
      <3>2. CASE p # 0
        BY <1>2, <1>3, <2>5, <3>2 DEF Incremented
      <3> QED
        BY <3>1, <3>2
    <2>9. \A p : Incremented(p)' <=> Incremented(p)
      BY <1>1, <1>4 DEF Incremented, BorrowsTwice, Borrows
    <2>10. Corrected'
      <3>1. \A p \in 0..0 - 1 : FALSE
        OBVIOUS
      <3>2. c'[0] \in -10..10 /\ c'[0] # 10 /\ \A p \in 0 + 1..N : c'[p] \in -10..9
        <4>1. \A p \in 0 + 1..N : p = N \/ (p # 0 /\ p \in 0..N - 1)
          BY <1>3
        <4>2. c'[0] \in -10..10 /\ c'[0] # 10
          BY <2>3, <2>5
        <4>3. c'[N] = c[N] /\ c[N] \in -10..9
          BY <1>2, <1>3, <2>5
        <4>4. \A p \in 0..N - 1 : p # 0 => c'[p] \in -10..9
          BY <1>2, <1>3, <2>5
        <4> QED
          BY <4>1, <4>2, <4>3, <4>4
      <3>3. c'[N] = -1 /\ c'[N + 1] = 0
        <4>1. N + 1 \in 0..2 * N /\ N + 1 \in N + 1..2 * N /\ N + 1 # 0 /\ N # 0
          BY <1>3
        <4> QED
          BY <1>2, <1>3, <1>6, <1>7, <2>5, <4>1
      <3>4. 0 >= 0 /\ 0 < 4 * Weight[0]
        BY WeightFacts
      <3>5. AllDigits(0)'
        BY <3>1 DEF AllDigits
      <3> QED
        BY <2>1, <2>7, <2>8, <2>9, <3>1, <3>2, <3>3, <3>4, <3>5 DEF Corrected
    <2>11. FixInv'
      <3>1. \A p \in N + 2..2 * N : c'[p] = 0
        <4>1. \A p \in N + 2..2 * N : p \in N + 1..2 * N /\ p # 0 /\ p \in 0..2 * N
          BY <1>3
        <4> QED
          BY <1>6, <2>5, <4>1
      <3>2. A + B < 0 /\ 0 # N + 1
        BY <1>2, <1>3, <1>7
      <3> QED
        BY <1>1, <1>4, <1>6, <2>1, <2>10, <3>1, <3>2 DEF FixInv
    <2>12. AddInv' /\ MulInv' /\ PostInv'
      BY <2>1 DEF AddInv, MulInv, PostInv
    <2> QED
      BY <1>5, <2>4, <2>11, <2>12
  <1>8. CASE ~(c[N] < 0)
    <2>1. loop' = "post" /\ UNCHANGED <<c, cneg, i>>
      BY <1>8 DEF AddEnds
    <2>2. TypeOK'
      BY <1>1, <2>1 DEF TypeOK
    <2>3. AllDigits(N + 1) /\ ~(A + B < 0)
      BY <1>2, <1>8
    <2>4. SumInv
      BY <1>2, <1>6, <2>3 DEF SumInv, Spoilt, Signed
    <2>5. SumInv'
      BY <1>4, <2>1, <2>4 DEF SumInv, AllDigits
    <2>6. PostInv'
      BY <1>1, <1>4, <1>6, <2>1, <2>3, <2>5 DEF PostInv
    <2>7. AddInv' /\ FixInv' /\ MulInv'
      BY <2>1 DEF AddInv, FixInv, MulInv
    <2> QED
      BY <1>5, <2>2, <2>6, <2>7
  <1> QED
    BY <1>7, <1>8

\* A sum is spoilt when some digit of it is incremented too early.
LEMMA SpoiltWhenIncremented ==
    ASSUME TypeOK, A + B < 0
    PROVE  Spoilt <=> \E p \in 0..N - 1 : Incremented(p)
  <1>1. 0 \in 0..N - 1
    BY DecimalAssumption
  <1> QED
    BY <1>1 DEF Spoilt, Incremented, BothNegative

\* The excess does not change when a digit is complemented, and doubles the
\* weight of the next digit when that one is incremented.
LEMMA ExcessAfter ==
    ASSUME TypeOK, i \in 0..N - 1, i' = i + 1, UNCHANGED <<a, aneg, b, bneg>>
    PROVE  /\ c' = [c EXCEPT ![i] = 9 - c[i]] => Excess' = Excess
           /\ c' = [c EXCEPT ![i] = -c[i] - 1, ![i + 1] = c[i + 1] + 1] =>
                  Excess' = Excess + 20 * Weight[i]
  <1> DEFINE U == Upto(c)[N + 1]
             v == Upto(c)[i]
             w == Weight[i]
             sum == A + B
             x == c[i]
             t == x * w
  <1>1. /\ IntArray(c) /\ N \in Nat \ {0} /\ i \in Nat /\ i + 1 \in Nat /\ N + 1 \in Nat
        /\ i \in DOMAIN c /\ i + 1 \in DOMAIN c /\ Digit(c, i) = x
        /\ i < N + 1 /\ i + 1 < N + 1 /\ i < i + 1 /\ ~(i + 1 < i + 1)
    <2>1. N \in Nat \ {0} /\ IntArray(c) /\ DOMAIN c = 0..2 * N
      BY ArrayFacts DEF TypeOK
    <2>2. i \in DOMAIN c /\ i + 1 \in DOMAIN c
      BY <2>1
    <2> QED
      BY <2>1, <2>2 DEF Digit
  <1>2. x \in Int /\ c[i + 1] \in Int
    BY <1>1 DEF IntArray
  <1>3. U \in Int /\ v \in Int /\ w \in Int /\ sum \in Int
    BY <1>1, ArrayFacts, WeightFacts
  <1>4. Upto(c)[i + 1] = v + t /\ Weight[i + 1] = 10 * w
    BY <1>1, UptoFacts, WeightFacts DEF IntArray
  <1>5. Excess = U - 2 * v + w - sum
    BY DEF Excess
  <1>6. Excess' = Upto(c')[N + 1] - 2 * Upto(c')[i + 1] + Weight[i + 1] - sum
    <2>1. A' = A /\ B' = B
      BY OperandsKept
    <2> QED
      BY <2>1 DEF Excess
  <1>7. t \in Int
    BY <1>2, <1>3
  <1>8. ASSUME c' = [c EXCEPT ![i] = 9 - c[i]]
        PROVE  Excess' = Excess
    <2> DEFINE y == 9 - c[i]
               e == [c EXCEPT ![i] = y]
    <2>1. y \in Int /\ y - x = 9 - 2 * x
      BY <1>2
    <2>2. c' = e
      BY <1>8
    <2> HIDE DEF y, U, v, x
    <2>3. Upto(e)[N + 1] = U + (y - x) * w
      BY <1>1, <2>1, UptoExcept DEF U, x
    <2>4. Upto(e)[i + 1] = (v + t) + (y - x) * w
      BY <1>1, <1>4, <2>1, UptoExcept DEF U, x
    <2>5. (y - x) * w = 9 * w - 2 * t
      <3> HIDE DEF w
      <3>1. (9 - 2 * x) * w = 9 * w - 2 * (x * w)
        BY <1>2, <1>3
      <3> QED
        BY <2>1, <3>1
    <2> HIDE DEF t, e, w, sum
    <2> QED
      BY <1>3, <1>4, <1>5, <1>6, <1>7, <2>2, <2>3, <2>4, <2>5
  <1>9. ASSUME c' = [c EXCEPT ![i] = -c[i] - 1, ![i + 1] = c[i + 1] + 1]
        PROVE  Excess' = Excess + 20 * Weight[i]
    <2> DEFINE y == -c[i] - 1
               z == c[i + 1] + 1
               e == [c EXCEPT ![i] = y, ![i + 1] = z]
    <2>1. y \in Int /\ z \in Int /\ y - x = -1 - 2 * x /\ z - c[i + 1] = 1
      BY <1>2
    <2>2. c' = e
      BY <1>9
    <2> HIDE DEF y, z, U, v, x
    <2>3. Upto(e)[N + 1] = U + (y - x) * w + (z - c[i + 1]) * Weight[i + 1]
      BY <1>1, <2>1, UptoExceptTwo DEF U, x
    <2>4. Upto(e)[i + 1] = (v + t) + (y - x) * w + 0
      BY <1>1, <1>4, <2>1, UptoExceptTwo DEF U, x
    <2>5. (y - x) * w = -w - 2 * t
      <3> HIDE DEF w
      <3>1. (-1 - 2 * x) * w = -w - 2 * (x * w)
        BY <1>2, <1>3
      <3> QED
        BY <2>1, <3>1
    <2>6. (z - c[i + 1]) * Weight[i + 1] = 10 * w
      BY <1>3, <1>4, <2>1
    <2> HIDE DEF t, e, w, sum
    <2>7. Excess' = Excess + 20 * w
      BY <1>3, <1>4, <1>5, <1>6, <1>7, <2>2, <2>3, <2>4, <2>5, <2>6
    <2> QED
      BY <2>7 DEF w
  <1> QED
    BY <1>8, <1>9

\* A digit is complemented; the last one decides what will be printed.
LEMMA FixDigitInv == IInv /\ FixDigit => IInv'
  <1> SUFFICES ASSUME IInv, FixDigit PROVE IInv'
    OBVIOUS
  <1> USE DEF IInv
  <1>1. /\ loop = "fix" /\ i <= N /\ i' = i + 1
        /\ UNCHANGED <<loop, a, aneg, b, bneg, cneg, j, k, printed>>
        /\ c' = IF 9 - c[i] > 9
                THEN [c EXCEPT ![i] = -c[i] - 1, ![i + 1] = c[i + 1] + 1]
                ELSE [c EXCEPT ![i] = 9 - c[i]]
    <2>1. i + 1 # i
      BY DEF FixDigit, TypeOK
    <2> QED
      BY <2>1 DEF FixDigit
  <1>2. /\ N \in Nat \ {0} /\ i \in 0..N /\ i \in Nat /\ i \in 0..2 * N /\ i + 1 \in 0..2 * N
        /\ i + 1 \in 0..N + 1 /\ i + 1 # i /\ N \in 0..2 * N /\ N + 1 \in 0..2 * N
    <2>1. i \in 0..N + 1
      BY DEF TypeOK
    <2> QED
      BY <1>1, <2>1, DecimalAssumption
  <1>3. /\ c \in [0..2 * N -> -20..90] /\ DOMAIN c = 0..2 * N
        /\ Corrected /\ A + B < 0 /\ printed = << >> /\ cneg
        /\ \A p \in N + 2..2 * N : c[p] = 0
    BY <1>1 DEF TypeOK, FixInv
  <1>4. A \in Int /\ B \in Int
    BY ArrayFacts
  <1>5. c[i] \in -10..10 /\ c[i + 1] \in -10..9
    <2>1. i + 1 \in i + 1..N \/ i + 1 = N + 1
      BY <1>2
    <2> QED
      BY <1>3, <2>1 DEF Corrected
  <1> DEFINE neg == c[i] < 0
             x == IF neg THEN -c[i] - 1 ELSE 9 - c[i]
             y == IF neg THEN c[i + 1] + 1 ELSE c[i + 1]
  <1>6. /\ c'[i] = x /\ c'[i + 1] = y
        /\ \A p \in 0..2 * N : p # i /\ p # i + 1 => c'[p] = c[p]
        /\ x \in -1..9 /\ y \in -10..10
    <2>1. 9 - c[i] > 9 <=> neg
      BY <1>5
    <2> DEFINE e == -c[i] - 1
               f == c[i + 1] + 1
               g == 9 - c[i]
    <2>2. CASE neg
      <3>1. e \in -1..9 /\ f \in -10..10 /\ x = e /\ y = f
        BY <1>5, <2>2
      <3>2. c' = [c EXCEPT ![i] = e, ![i + 1] = f]
        BY <1>1, <2>1, <2>2
      <3> HIDE DEF e, f, x, y
      <3>3. c'[i] = e /\ c'[i + 1] = f /\ \A p \in 0..2 * N : p # i /\ p # i + 1 => c'[p] = c[p]
        BY <1>2, <1>3, <3>2
      <3> QED
        BY <3>1, <3>3
    <2>3. CASE ~neg
      <3>1. g \in -1..9 /\ c[i + 1] \in -10..10 /\ x = g /\ y = c[i + 1]
        BY <1>5, <2>3
      <3>2. c' = [c EXCEPT ![i] = g]
        BY <1>1, <2>1, <2>3
      <3> HIDE DEF g, x, y
      <3>3. c'[i] = g /\ \A p \in 0..2 * N : p # i => c'[p] = c[p]
        BY <1>2, <1>3, <3>2
      <3> QED
        BY <1>2, <3>1, <3>3
    <2> QED
      BY <2>2, <2>3
  <1>7. /\ neg => c' = [c EXCEPT ![i] = -c[i] - 1, ![i + 1] = c[i + 1] + 1]
        /\ ~neg => c' = [c EXCEPT ![i] = 9 - c[i]]
    BY <1>1, <1>5
  <1>8. TypeOK'
    <2>1. DOMAIN c' = 0..2 * N /\ c' = [p \in 0..2 * N |-> c'[p]]
      BY <1>3, <1>7
    <2>2. \A p \in 0..2 * N : c'[p] \in -20..90
      <3>1. x \in -20..90 /\ y \in -20..90
        BY <1>6
      <3>2. \A p \in 0..2 * N : c[p] \in -20..90
        BY <1>3
      <3> HIDE DEF x, y, neg
      <3> QED
        BY <1>6, <3>1, <3>2
    <2>3. c' \in [0..2 * N -> -20..90]
      BY <2>1, <2>2
    <2> QED
      BY <1>1, <1>2, <2>3 DEF TypeOK
  <1>9. /\ A' = A /\ B' = B /\ (Spoilt' <=> Spoilt)
        /\ \A p : Incremented(p)' <=> Incremented(p)
    <2>1. A' = A /\ B' = B /\ (Spoilt' <=> Spoilt) /\ (BothNegative' <=> BothNegative)
      BY <1>1, OperandsKept
    <2> QED
      BY <1>1, <2>1 DEF Incremented, BorrowsTwice, Borrows
  <1>10. \A p \in N + 2..2 * N : c'[p] = 0
    <2>1. \A p \in N + 2..2 * N : p # i /\ p # i + 1 /\ p \in 0..2 * N
      BY <1>2
    <2> QED
      BY <1>3, <1>6, <2>1
  <1>11. /\ Excess \in Int /\ Excess >= 0 /\ Excess < 4 * Weight[i] /\ Weight[i] \in Int /\ Weight[i] >= 1
         /\ Excess = 0 <=> \A p \in 0..i - 1 : ~Incremented(p)
         /\ Excess = 0 => /\ AllDigits(i)
                          /\ \A p \in i..N - 1 : c[p] < 0 <=> Incremented(p)
                          /\ c[i] # 10 /\ c[N] = -1
    <2>1. Weight[i] \in Int /\ Weight[i] >= 1
      BY <1>2, WeightFacts, WeightGrows
    <2>2. Upto(c)[N + 1] \in Int /\ Upto(c)[i] \in Int
      <3>1. N + 1 \in Nat
        BY <1>2
      <3> QED
        BY <1>2, <3>1, ArrayFacts
    <2>3. Excess \in Int
      BY <1>4, <2>1, <2>2 DEF Excess
    <2> QED
      BY <1>3, <2>1, <2>3 DEF Corrected
  <1>12. CASE i < N
    <2>1. i \in 0..N - 1 /\ i \in i..N - 1 /\ i + 1 \in 0..N /\ i + 1 # N + 1
      BY <1>2, <1>12
    <2>2. /\ neg => Excess' = Excess + 20 * Weight[i]
          /\ ~neg => Excess' = Excess
      BY <1>1, <1>7, <2>1, ExcessAfter
    <2>3. Weight[i + 1] = 10 * Weight[i]
      BY <1>2, WeightFacts
    <2>4. Excess' >= 0 /\ Excess' < 4 * Weight[i + 1] /\ (Excess' = 0 <=> Excess = 0 /\ ~neg)
      <3> DEFINE w == Weight[i]
                 e == Excess
      <3>1. w \in Int /\ w >= 1 /\ e \in Int /\ e >= 0 /\ e < 4 * w
        BY <1>11
      <3>2. CASE neg
        <4>1. Excess' = e + 20 * w /\ Weight[i + 1] = 10 * w
          BY <2>2, <2>3, <3>2
        <4> HIDE DEF w, e, neg
        <4>2. Excess' >= 0 /\ Excess' < 4 * Weight[i + 1] /\ Excess' # 0
          BY <3>1, <4>1
        <4> QED
          BY <3>2, <4>2 DEF e
      <3>3. CASE ~neg
        <4>1. Excess' = e /\ Weight[i + 1] = 10 * w
          BY <2>2, <2>3, <3>3
        <4> HIDE DEF w, e, neg
        <4>2. Excess' >= 0 /\ Excess' < 4 * Weight[i + 1]
          BY <3>1, <4>1
        <4> QED
          BY <3>3, <4>1, <4>2 DEF e
      <3> QED
        BY <3>2, <3>3
    <2>5. \A p \in 0..(i + 1) - 1 : p = i \/ p \in 0..i - 1
      BY <1>2
    <2>6. Excess' = 0 <=> \A p \in 0..(i + 1) - 1 : ~Incremented(p)
      <3>1. i \in 0..(i + 1) - 1 /\ \A p \in 0..i - 1 : p \in 0..(i + 1) - 1
        BY <1>2
      <3>2. Excess = 0 => (neg <=> Incremented(i))
        BY <1>11, <2>1
      <3> HIDE DEF neg
      <3> QED
        BY <1>11, <2>4, <2>5, <3>1, <3>2
    <2>7. c'[N] = -1 \/ (i + 1 = N /\ c'[N] = 0 /\ neg)
      <3>1. c[N] = -1
        BY <1>3, <1>12 DEF Corrected
      <3>2. CASE i + 1 = N
        BY <1>6, <3>1, <3>2
      <3>3. CASE i + 1 # N
        <4>1. N # i
          BY <1>2, <1>12
        <4> QED
          BY <1>2, <1>6, <3>1, <3>3, <4>1
      <3> QED
        BY <3>2, <3>3
    <2>8. c'[N + 1] = 0
      <3>1. N + 1 # i /\ N + 1 # i + 1
        BY <1>2, <1>12
      <3> QED
        BY <1>2, <1>3, <1>6, <3>1 DEF Corrected
    <2>9. \A p \in 0..(i + 1) - 1 : c'[p] \in -1..9
      <3>1. \A p \in 0..i - 1 : p # i /\ p # i + 1 /\ p \in 0..2 * N /\ c[p] \in -1..9
        BY <1>2, <1>3 DEF Corrected
      <3> HIDE DEF x, y, neg
      <3> QED
        BY <1>6, <2>5, <3>1
    <2>10. c'[i + 1] \in -10..10 /\ \A p \in (i + 1) + 1..N : c'[p] \in -10..9
      <3>1. \A p \in (i + 1) + 1..N : p # i /\ p # i + 1 /\ p \in 0..2 * N /\ p \in i + 1..N
        BY <1>2
      <3>2. \A p \in i + 1..N : c[p] \in -10..9
        BY <1>3 DEF Corrected
      <3> HIDE DEF x, y, neg
      <3> QED
        BY <1>6, <3>1, <3>2
    <2>11. ASSUME Excess' = 0
           PROVE  /\ AllDigits(i)'
                  /\ \A p \in i + 1..N - 1 : c'[p] < 0 <=> Incremented(p)
                  /\ c'[i + 1] # 10 /\ c'[N] = -1
      <3>1. Excess = 0 /\ ~neg
        BY <2>4, <2>11
      <3>2. AllDigits(i)'
        <4>1. x \in 0..9
          BY <1>5, <1>11, <3>1
        <4>2. \A p \in 0..i - 1 : p # i /\ p # i + 1 /\ p \in 0..2 * N /\ c[p] \in 0..9
          BY <1>2, <1>11, <3>1 DEF AllDigits
        <4>3. \A p \in 0..(i + 1) - 1 : c'[p] \in 0..9
          <5> HIDE DEF x, y, neg
          <5> QED
            BY <1>6, <2>5, <4>1, <4>2
        <4> QED
          BY <1>1, <4>3 DEF AllDigits
      <3>3. \A p \in i + 1..N - 1 : c'[p] = c[p]
        <4>1. \A p \in i + 1..N - 1 : p # i /\ p \in 0..2 * N
          BY <1>2
        <4>2. y = c[i + 1]
          BY <3>1
        <4> HIDE DEF x, y, neg
        <4> QED
          BY <1>6, <4>1, <4>2
      <3>4. \A p \in i + 1..N - 1 : p \in i..N - 1
        BY <1>2
      <3>5. c'[i + 1] # 10
        BY <1>5, <1>6, <3>1
      <3> QED
        BY <1>11, <2>7, <3>1, <3>2, <3>3, <3>4, <3>5
    <2>12. Corrected'
      <3>1. i + 1 < N => c'[N] = -1
        BY <1>2, <2>7
      <3>2. c'[N] \in {-1, 0}
        BY <2>7
      <3> QED
        BY <1>1, <1>9, <2>4, <2>6, <2>8, <2>9, <2>10, <2>11, <3>1, <3>2 DEF Corrected
    <2>13. FixInv'
      <3>1. i' # N + 1
        BY <1>1, <2>1
      <3> QED
        BY <1>1, <1>3, <1>9, <1>10, <2>12, <3>1 DEF FixInv
    <2>14. AddInv' /\ MulInv' /\ PostInv' /\ PrintsSumAndProduct'
      BY <1>1, OperandsKept DEF AddInv, MulInv, PostInv
    <2> QED
      BY <1>8, <2>13, <2>14
  <1>13. CASE i = N
    <2> DEFINE U == Upto(c)[N + 1]
               v == Upto(c)[N]
               w == Weight[N]
               sum == A + B
               e == Excess
    <2>1. /\ v \in Int /\ w \in Int /\ w >= 1 /\ sum \in Int /\ U = v + c[N] * w
          /\ e = U - 2 * v + w - sum
      <3>1. N \in Nat /\ N + 1 \in Nat
        BY <1>2
      <3>2. IntArray(c) /\ Digit(c, N) = c[N]
        BY <1>2, ArrayFacts
      <3> QED
        <4>1. v \in Int /\ w \in Int /\ w >= 1 /\ sum \in Int
          <5>1. v \in Int
            BY <3>1, ArrayFacts
          <5>2. w \in Int /\ w >= 1
            BY <3>1, WeightFacts, WeightGrows
          <5>3. sum \in Int
            BY <1>4
          <5> QED
            BY <5>1, <5>2, <5>3
        <4>2. U = v + c[N] * w
          BY <3>1, <3>2, UptoFacts DEF IntArray
        <4>3. e = U - 2 * v + w - sum
          BY <1>13 DEF Excess
        <4> QED
          BY <4>1, <4>2, <4>3
    <2>2. Upto(c')[N + 1] = v + c'[N] * w
      <3>0. TypeOK'
        BY <1>8
      <3>1. (IntArray(c) /\ \A p \in 0..2 * N : Digit(c, p) = c[p])'
        BY <3>0, ArrayFacts, PTL
      <3>2. IntArray(c') /\ Digit(c', N) = c'[N]
        BY <1>2, <3>1
      <3>3. IntArray(c) /\ \A p \in 0..2 * N : Digit(c, p) = c[p]
        BY ArrayFacts
      <3>4. N \in Nat /\ \A p \in 0..N - 1 : p # i /\ p # i + 1 /\ p \in 0..2 * N
        BY <1>2, <1>13
      <3>5. \A p \in 0..N - 1 : Digit(c', p) = Digit(c, p)
        BY <1>6, <3>1, <3>3, <3>4
      <3>6. Upto(c')[N] = v
        BY <3>2, <3>3, <3>4, <3>5, UptoSame
      <3>7. Upto(c')[N + 1] = Upto(c')[N] + Digit(c', N) * Weight[N]
        BY <3>2, <3>4, UptoFacts DEF IntArray
      <3> QED
        BY <3>2, <3>6, <3>7
    <2>3. Spoilt <=> e # 0
      <3>1. Spoilt <=> \E p \in 0..N - 1 : Incremented(p)
        BY <1>3, SpoiltWhenIncremented
      <3> HIDE DEF e
      <3> QED
        BY <1>11, <1>13, <3>1 DEF e
    <2>4. e >= 0 /\ e < 4 * w
      BY <1>11, <1>13
    <2>5. c[N] = -1 \/ (c[N] = 0 /\ e # 0)
      BY <1>3, <1>11 DEF Corrected
    <2>6. Signed(cneg', sum) = -sum
      BY <1>1, <1>3 DEF Signed
    <2>7. SumInv'
      <3>1. CASE c[N] = -1
        <4>1. c'[N] = 0
          BY <1>6, <1>13, <3>1
        <4>2. Upto(c')[N + 1] = -sum - e
          <5>1. U = v - w /\ Upto(c')[N + 1] = v
            <6> HIDE DEF v, w, U
            <6>1. c[N] * w = -w /\ c'[N] * w = 0
              BY <2>1, <3>1, <4>1
            <6> QED
              BY <2>1, <2>2, <6>1
          <5> HIDE DEF U, v, w, sum, e
          <5> QED
            BY <2>1, <5>1
        <4>3. ~Spoilt => AllDigits(N + 1)'
          <5> SUFFICES ASSUME ~Spoilt PROVE AllDigits(N + 1)'
            OBVIOUS
          <5>1. AllDigits(N)
            BY <1>11, <1>13, <2>3
          <5>2. \A p \in 0..(N + 1) - 1 : p = N \/ (p \in 0..N - 1 /\ p # i /\ p # i + 1 /\ p \in 0..2 * N)
            BY <1>2, <1>13
          <5>3. \A p \in 0..(N + 1) - 1 : c'[p] \in 0..9
            <6>1. 0 \in 0..9
              OBVIOUS
            <6> QED
              BY <1>6, <4>1, <5>1, <5>2, <6>1 DEF AllDigits
          <5> QED
            BY <5>3 DEF AllDigits
        <4>4. e # 0 => Upto(c')[N + 1] # -sum
          <5> HIDE DEF sum, e
          <5> QED
            BY <2>1, <4>2 DEF e
        <4>5. e = 0 => Upto(c')[N + 1] = -sum
          <5> HIDE DEF sum
          <5> QED
            BY <2>1, <4>2
        <4> HIDE DEF e
        <4> QED
          BY <1>9, <2>3, <2>6, <4>3, <4>4, <4>5 DEF SumInv
      <3>2. CASE c[N] = 0 /\ e # 0
        <4>1. c'[N] = 9
          BY <1>6, <1>13, <3>2
        <4>2. Upto(c')[N + 1] # -sum
          <5>1. U = v /\ Upto(c')[N + 1] = v + 9 * w
            BY <2>1, <2>2, <3>2, <4>1
          <5>2. e \in Int
            BY <1>11
          <5> HIDE DEF U, v, w, sum, e
          <5> QED
            BY <2>1, <2>4, <5>1, <5>2
        <4> QED
          BY <1>9, <2>3, <2>6, <3>2, <4>2 DEF SumInv
      <3> QED
        BY <2>5, <3>1, <3>2
    <2>8. c'[N + 1] \in {0, 1}
      <3>1. c[N + 1] = 0
        BY <1>3 DEF Corrected
      <3> QED
        BY <1>6, <1>13, <3>1
    <2>9. FixInv'
      <3>1. i' = N + 1 /\ ~(i' <= N)
        BY <1>1, <1>2, <1>13
      <3> QED
        BY <1>1, <1>3, <1>9, <1>10, <2>7, <2>8, <3>1 DEF FixInv
    <2>10. AddInv' /\ MulInv' /\ PostInv' /\ PrintsSumAndProduct'
      BY <1>1, OperandsKept DEF AddInv, MulInv, PostInv
    <2> QED
      BY <1>8, <2>9, <2>10
  <1> QED
    BY <1>2, <1>12, <1>13

\* The digit above the sum is cleared.
LEMMA FixEndsInv == IInv /\ FixEnds => IInv'
  <1> SUFFICES ASSUME IInv, FixEnds PROVE IInv'
    OBVIOUS
  <1> USE DEF IInv
  <1>1. /\ loop = "fix" /\ i = N + 1 /\ loop' = "post" /\ c' = [c EXCEPT ![N + 1] = 0]
        /\ UNCHANGED <<a, aneg, b, bneg, cneg, i, j, k, printed>>
    BY DEF FixEnds
  <1>2. /\ N \in Nat \ {0} /\ N + 1 \in 0..2 * N /\ N + 1 \in Nat /\ ~(N + 1 < N + 1) /\ IntArray(c)
    BY ArrayFacts
  <1>3. c \in [0..2 * N -> -20..90] /\ DOMAIN c = 0..2 * N
    BY DEF TypeOK
  <1>4. /\ printed = << >> /\ cneg /\ A + B < 0 /\ SumInv
        /\ \A p \in N + 2..2 * N : c[p] = 0
    BY <1>1 DEF FixInv
  <1>5. TypeOK'
    <2>1. c' \in [0..2 * N -> -20..90]
      <3>1. 0 \in -20..90
        OBVIOUS
      <3> QED
        BY <1>1, <1>3, <3>1
    <2> QED
      BY <1>1, <2>1 DEF TypeOK
  <1>6. c'[N + 1] = 0 /\ \A p \in 0..2 * N : p # N + 1 => c'[p] = c[p]
    BY <1>1, <1>2, <1>3
  <1>7. Upto(c')[N + 1] = Upto(c)[N + 1]
    <2>1. 0 \in Int /\ N + 1 \in DOMAIN c
      BY <1>2, <1>3
    <2> QED
      BY <1>1, <1>2, <2>1, UptoExcept
  <1>8. A' = A /\ B' = B /\ (Spoilt' <=> Spoilt)
    BY <1>1, OperandsKept
  <1>9. AllDigits(N + 1)' <=> AllDigits(N + 1)
    <2>1. \A p \in 0..(N + 1) - 1 : p # N + 1 /\ p \in 0..2 * N
      BY <1>2
    <2> QED
      BY <1>6, <2>1 DEF AllDigits
  <1>10. SumInv'
    BY <1>1, <1>4, <1>7, <1>8, <1>9 DEF SumInv
  <1>11. PostInv'
    <2>1. \A p \in N + 1..2 * N : c'[p] = 0
      <3>1. \A p \in N + 1..2 * N : p = N + 1 \/ (p \in N + 2..2 * N /\ p # N + 1 /\ p \in 0..2 * N)
        BY <1>2
      <3> QED
        BY <1>4, <1>6, <3>1
    <2> QED
      BY <1>1, <1>4, <1>8, <1>10, <2>1 DEF PostInv
  <1>12. AddInv' /\ FixInv' /\ MulInv' /\ PrintsSumAndProduct'
    BY <1>1, OperandsKept DEF AddInv, FixInv, MulInv
  <1> QED
    BY <1>5, <1>11, <1>12

-----------------------------------------------------------------------------
(* The theorems *)

\* copy and pre.
LEMMA OperandType ==
    ASSUME NEW x \in Numerals
    PROVE  Operand(x) \in [0..N -> 0..9]
  <1>1. PICK n \in 1..N : x \in [1..n -> Digits]
    BY DEF Numerals
  <1>2. n \in Nat /\ N \in Nat /\ Digits \subseteq 0..9
    BY DecimalAssumption
  <1>3. x \in Seq(Digits) /\ Len(x) = n
    BY <1>1, <1>2
  <1>4. ASSUME NEW p \in 0..N
        PROVE  (IF p < Len(x) THEN Reverse(x)[p + 1] ELSE 0) \in 0..9
    <2>1. CASE p < n
      <3>1. p + 1 \in 1..n /\ (n - (p + 1)) + 1 \in 1..n
        BY <1>2, <2>1
      <3>2. Reverse(x)[p + 1] = x[(n - (p + 1)) + 1]
        BY <1>3, <3>1 DEF Reverse
      <3> QED
        BY <1>1, <1>2, <1>3, <2>1, <3>1, <3>2
    <2>2. CASE ~(p < n)
      BY <1>3, <2>2
    <2> QED
      BY <2>1, <2>2
  <1> QED
    BY <1>4 DEF Operand

\* The invariant holds when the line has been read.
LEMMA EnteredInv == Entered => IInv
  <1> SUFFICES ASSUME Entered PROVE IInv
    OBVIOUS
  <1>1. /\ loop = "add" /\ c = Zeros /\ cneg = FALSE /\ aneg \in BOOLEAN /\ bneg \in BOOLEAN
        /\ i = 0 /\ j = 0 /\ k = 0 /\ printed = << >>
    BY DEF Entered
  <1>2. N \in Nat \ {0} /\ 0 \in 0..2 * N
    BY DecimalAssumption
  <1>3. a \in [0..N -> 0..9] /\ b \in [0..N -> 0..9]
    BY OperandType DEF Entered
  <1>4. \A p \in 0..2 * N : c[p] = 0
    BY <1>1 DEF Zeros
  <1>5. TypeOK
    <2>1. c \in [0..2 * N -> -20..90]
      <3>1. 0 \in -20..90
        OBVIOUS
      <3> QED
        BY <1>1, <3>1 DEF Zeros
    <2>2. 0 \in 0..N + 1 /\ 0 \in 0..N - 1 /\ 0 \in 0..2 * N - 1
      BY <1>2
    <2> QED
      BY <1>1, <1>3, <2>1, <2>2 DEF TypeOK
  <1>6. AddInv
    <2>1. \A p \in 0..0 - 1 : FALSE
      OBVIOUS
    <2>2. ~Borrows(0) /\ AllDigits(0)
      BY <2>1 DEF Borrows, AllDigits
    <2>3. c[0] = 0
      BY <1>2, <1>4
    <2>4. Columns
      BY <1>1, <2>1, <2>2, <2>3 DEF Columns
    <2>5. Upto(c)[0 + 1] = Signed(aneg, Upto(a)[0]) + Signed(bneg, Upto(b)[0])
      <3>1. Upto(a)[0] = 0 /\ Upto(b)[0] = 0
        BY <1>5, ArrayFacts, UptoFacts DEF IntArray
      <3>2. Upto(c)[0 + 1] = 0
        BY <1>1, ZerosFacts
      <3> QED
        BY <3>1, <3>2 DEF Signed
    <2>6. \A p \in 0 + 1..2 * N : c[p] = 0
      BY <1>2, <1>4
    <2>7. 0 <= N
      BY <1>2
    <2> QED
      BY <1>1, <2>4, <2>5, <2>6, <2>7 DEF AddInv
  <1>7. FixInv /\ MulInv /\ PostInv
    BY <1>1 DEF FixInv, MulInv, PostInv
  <1>8. PrintsSumAndProduct
    BY <1>1 DEF PrintsSumAndProduct
  <1> QED
    BY <1>5, <1>6, <1>7, <1>8 DEF IInv

\* Every step keeps it.
LEMMA StepInv == IInv /\ [Calculates]_calculator => IInv'
  <1> SUFFICES ASSUME IInv, [Calculates]_calculator PROVE IInv'
    OBVIOUS
  <1>1. CASE AddDigit
    BY <1>1, AddDigitInv
  <1>2. CASE AddEnds
    BY <1>2, AddEndsInv
  <1>3. CASE FixDigit
    BY <1>3, FixDigitInv
  <1>4. CASE FixEnds
    BY <1>4, FixEndsInv
  <1>5. CASE MulDigit
    BY <1>5, MulDigitInv
  <1>6. CASE CarryOn
    BY <1>6, CarryOnInv
  <1>7. CASE CarryEnds
    BY <1>7, CarryEndsInv
  <1>8. CASE MulEnds
    BY <1>8, MulEndsInv
  <1>9. CASE PostAndPrint
    BY <1>9, PostAndPrintInv
  <1>10. CASE UNCHANGED calculator
    <2>1. UNCHANGED <<loop, a, aneg, b, bneg, c, cneg, i, j, k, printed>>
      BY <1>10 DEF calculator
    <2>2. /\ A' = A /\ B' = B /\ (Spoilt' <=> Spoilt) /\ (BothNegative' <=> BothNegative)
          /\ PrintsSumAndProduct' <=> PrintsSumAndProduct
      BY <2>1, OperandsKept
    <2>3. /\ TypeOK' <=> TypeOK
          /\ \A n : AllDigits(n)' <=> AllDigits(n)
          /\ AllDigits(i)' <=> AllDigits(i)
          /\ OneLine' <=> OneLine
      BY <2>1 DEF TypeOK, AllDigits, OneLine
    <2>4. \A p : /\ Borrows(p)' <=> Borrows(p)
                 /\ BorrowsTwice(p)' <=> BorrowsTwice(p)
                 /\ Incremented(p)' <=> Incremented(p)
      BY <2>1, <2>2 DEF Borrows, BorrowsTwice, Incremented
    <2>5. (Columns' <=> Columns) /\ (SumInv' <=> SumInv) /\ Excess' = Excess
      BY <2>1, <2>2, <2>3, <2>4 DEF Columns, SumInv, Excess, Borrows
    <2>6. Corrected' <=> Corrected
      BY <2>1, <2>3, <2>4, <2>5 DEF Corrected
    <2>7. /\ AddInv' <=> AddInv
          /\ FixInv' <=> FixInv
          /\ MulInv' <=> MulInv
          /\ PostInv' <=> PostInv
      BY <2>1, <2>2, <2>3, <2>5, <2>6 DEF AddInv, FixInv, MulInv, PostInv
    <2> QED
      BY <2>2, <2>3, <2>7 DEF IInv
  <1> QED
    BY <1>1, <1>2, <1>3, <1>4, <1>5, <1>6, <1>7, <1>8, <1>9, <1>10 DEF Calculates

\* The inductive invariant of the calculator.
THEOREM CalculatorInvariant == Calculation => []IInv
  BY EnteredInv, StepInv, PTL DEF Calculation

\* The product of any two numbers is printed right, and which sums are.
THEOREM CalculatorPrints == Calculation => []PrintsSumAndProduct
  <1>1. IInv => PrintsSumAndProduct
    BY DEF IInv
  <1> QED
    BY <1>1, CalculatorInvariant, PTL

\* No element of c leaves the range of a signed byte, no carry goes past the
\* last one, and the last one is still zero when a number is printed: it ends
\* the string that rev reverses.
BytesFit ==
    /\ c \in [0..2 * N -> -128..127]
    /\ loop = "carry" => k + 1 \in 0..2 * N
    /\ loop = "post" => c[2 * N] = 0

\* For operands of any length.
THEOREM NumbersFit == Calculation => []BytesFit
  <1>1. ASSUME IInv
        PROVE  BytesFit
    <2> USE DEF IInv
    <2>1. c \in [0..2 * N -> -20..90] /\ k \in 0..2 * N - 1
      BY <1>1 DEF TypeOK
    <2>2. N \in Nat \ {0} /\ k + 1 \in 0..2 * N /\ 2 * N \in N + 1..2 * N /\ 2 * N \in 0..2 * N
      BY <2>1, DecimalAssumption
    <2>3. c \in [0..2 * N -> -128..127]
      <3>1. -20..90 \subseteq -128..127
        OBVIOUS
      <3> QED
        BY <2>1, <3>1
    <2>4. ASSUME loop = "post"
          PROVE  c[2 * N] = 0
      <3>1. CASE printed = << >>
        BY <1>1, <2>2, <2>4, <3>1 DEF PostInv
      <3>2. CASE printed # << >>
        <4> DEFINE S == Upto(c)[2 * N + 1]
                   u == Upto(a)[N]
                   v == Upto(b)[N]
                   W == Weight[N]
                   x == c[2 * N]
        <4>1. S = u * v /\ AllDigits(2 * N + 1)
          BY <1>1, <2>4, <3>2 DEF PostInv
        <4>2. 0 <= u /\ u < W /\ 0 <= v /\ v < W /\ u \in Int /\ v \in Int /\ W \in Int
          <5>1. N \in 0..N /\ N \in Nat
            BY <2>2
          <5> QED
            BY <1>1, <5>1, OperandFacts, ArrayFacts, WeightFacts
        <4>3. u * v < W * W
          <5> HIDE DEF u, v, W
          <5>1. u * v <= u * W /\ u * W <= (W - 1) * W /\ (W - 1) * W = W * W - W
            BY <4>2
          <5>2. u * v \in Int /\ u * W \in Int /\ W * W \in Int /\ W > 0
            BY <4>2
          <5> QED
            BY <4>2, <5>1, <5>2
        <4>4. W * W = Weight[2 * N] /\ Weight[2 * N] \in Int /\ Weight[2 * N] >= 1
          <5>1. N + N = 2 * N /\ 2 * N \in Nat /\ N \in Nat
            BY <2>2
          <5> QED
            BY <5>1, WeightSum, WeightFacts, WeightGrows
        <4>5. S >= x * Weight[2 * N]
          <5>1. /\ 2 * N + 1 \in Nat /\ 2 * N \in 0..(2 * N + 1) - 1
                /\ \A p \in 0..(2 * N + 1) - 1 : p \in 0..2 * N
            BY <2>2
          <5>2. IntArray(c) /\ \A p \in 0..2 * N : Digit(c, p) = c[p]
            BY <1>1, ArrayFacts
          <5>3. \A p \in 0..(2 * N + 1) - 1 : Digit(c, p) >= 0
            BY <4>1, <5>1, <5>2 DEF AllDigits
          <5> QED
            BY <2>2, <5>1, <5>2, <5>3, UptoAtLeast
        <4>6. x \in 0..9
          BY <2>2, <4>1 DEF AllDigits
        <4>7. S \in Int
          BY <4>1, <4>2
        <4> DEFINE Z == Weight[2 * N]
        <4>8. x >= 1 => x * Z >= Z
          <5>1. Z \in Int /\ Z >= 1
            BY <4>4
          <5> HIDE DEF Z, x
          <5> QED
            BY <4>6, <5>1
        <4>9. x * Z \in Int
          BY <4>4, <4>6
        <4> DEFINE t == x * Z
        <4> HIDE DEF S, u, v, W
        <4>10. S < Z /\ S >= t /\ t \in Int /\ Z \in Int /\ (x >= 1 => t >= Z)
          BY <4>1, <4>3, <4>4, <4>5, <4>8, <4>9
        <4> HIDE DEF t, Z, x
        <4>11. x = 0
          BY <4>6, <4>7, <4>10
        <4> QED
          BY <4>11 DEF x
      <3> QED
        BY <3>1, <3>2
    <2> QED
      BY <2>2, <2>3, <2>4 DEF BytesFit
  <1> QED
    BY <1>1, CalculatorInvariant, PTL

=============================================================================
