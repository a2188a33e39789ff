------------------------------ MODULE VmeProofs ------------------------------
(***************************************************************************)
(* The page tables of vme.c for every number of pages, spaces and words:   *)
(* THEOREMs PagesHaveOneOwner, SpacesCanRun, CopiesAloneLosePages,         *)
(* MapsImplementAddressSpaces.                                             *)
(*                                                                         *)
(* That no page is owned twice is not inductive: teardown frees what the   *)
(* words of a directory say, so that the invariant has to know what the    *)
(* words are.  In the user's area of a directory each word is empty or the *)
(* only one with the address of its table, and has PTE_U; in the kernel's  *)
(* areas none has.  All operations but copyvm are shown to write only      *)
(* pages that were free or the space's own (StepKept): then the other      *)
(* spaces keep their words, their pages and their translations, and only   *)
(* the space itself remains to be looked at.                               *)
(***************************************************************************)
EXTENDS Vme, FiniteSetTheorems, TLAPS

Dir(s) == table[ptr[s].page]
Tables(s) == {d \in UserDirs : Dir(s)[d] # None}

KernelOK == \A d \in KernelDirs : table[kpt][d] # None /\ ~table[kpt][d].user

\* The entries of a space's directory are its own tables, each used once,
\* and perhaps those of the kernel, which teardown leaves alone.
DirOK(s) ==
    /\ ptr[s].page \in Pages
    /\ \A d \in KernelDirs : Dir(s)[d] = None \/ ~Dir(s)[d].user
    /\ \A d \in Tables(s) : /\ Dir(s)[d].user
                            /\ Dir(s)[d].to \in Pages
                            /\ Dir(s)[d].to # ptr[s].page
    /\ \A d, e \in Tables(s) : d # e => Dir(s)[d].to # Dir(s)[e].to

SpaceOK(s) ==
    /\ IF Live(s) THEN ptr[s].page \in Pages ELSE cr3[s] = NoPage
    /\ origin[s] = "protect" =>
          /\ ptr[s].present
          /\ cr3[s] \in {NoPage, ptr[s].page}
          /\ \A d \in KernelDirs : Dir(s)[d] = table[kpt][d]
    /\ Live(s) /\ ptr[s].present => DirOK(s)

\* The context of a copy may hold the root that its first map replaced.
ContextOK(s) == origin[s] = "copyvm" => cr3[s] \in {NoPage, ptr[s].page} \cup Lost

\* The inductive invariant.
VmeInv ==
    /\ TypeOK
    /\ KernelOK
    /\ \A s \in Spaces : SpaceOK(s)
    /\ \A s \in Spaces : ContextOK(s)
    /\ PagesAreOwnedOnce

-----------------------------------------------------------------------------
(* What a space owns *)

LEMMA ConstantFacts ==
    /\ KernelDirs \subseteq Words /\ UserDirs \subseteq Words /\ Words = KernelDirs \cup UserDirs
    /\ NoPage \notin Pages
    /\ \A to \in Pages \cup Frames, user \in BOOLEAN, write \in BOOLEAN :
          Entry(to, user, write) \in Entries /\ Entry(to, user, write) # None
    /\ None \notin Entries
  BY VmeAssumption DEF UserDirs, Entry, Entries

\* Of a directory as DirOK has it teardown frees the tables of the user's area.
LEMMA UserTables ==
    ASSUME NEW dir,
           \A d \in KernelDirs : dir[d] = None \/ ~dir[d].user,
           \A d \in {e \in UserDirs : dir[e] # None} : dir[d].user
    PROVE  {w \in Words : dir[w] # None /\ dir[w].user} = {d \in UserDirs : dir[d] # None}
  BY ConstantFacts DEF UserDirs

LEMMA OwnedFacts ==
    ASSUME NEW s \in Spaces, Live(s) /\ ptr[s].present => DirOK(s)
    PROVE  /\ Owned(s) = IF Live(s)
                         THEN {ptr[s].page} \cup
                              (IF ptr[s].present THEN {Dir(s)[d].to : d \in Tables(s)} ELSE {})
                         ELSE {}
           /\ Live(s) => TornDown(s) = IF ptr[s].present THEN Owned(s) ELSE {}
  <1>1. CASE Live(s) /\ ptr[s].present
    <2>1. {w \in Words : Dir(s)[w] # None /\ Dir(s)[w].user} = Tables(s)
      BY <1>1, UserTables DEF DirOK, Tables
    <2> QED
      BY <1>1, <2>1 DEF Owned, TornDown, Dir
  <1>2. CASE ~(Live(s) /\ ptr[s].present)
    BY <1>2 DEF Owned, TornDown
  <1> QED
    BY <1>1, <1>2

LEMMA OwnedPages ==
    ASSUME NEW s \in Spaces, SpaceOK(s)
    PROVE  Owned(s) \subseteq Pages
  BY OwnedFacts DEF SpaceOK, DirOK

LEMMA NextOwnedFacts ==
    ASSUME NEW s \in Spaces, (Live(s) /\ ptr[s].present => DirOK(s))'
    PROVE  Owned(s)' = IF Live(s)'
                       THEN {ptr'[s].page} \cup
                            (IF ptr'[s].present THEN {Dir(s)'[d].to : d \in Tables(s)'} ELSE {})
                       ELSE {}
  <1>1. CASE Live(s)' /\ ptr'[s].present
    <2>1. {w \in Words : Dir(s)'[w] # None /\ Dir(s)'[w].user} = Tables(s)'
      BY <1>1, UserTables DEF DirOK, Tables
    <2> QED
      BY <1>1, <2>1 DEF Owned, TornDown, Dir
  <1>2. CASE ~(Live(s)' /\ ptr'[s].present)
    BY <1>2 DEF Owned, TornDown
  <1> QED
    BY <1>1, <1>2

\* A space whose pages are not written stays as it is.
LEMMA SpaceKept ==
    ASSUME VmeInv, NEW t \in Spaces,
           ptr'[t] = ptr[t], origin'[t] = origin[t], cr3'[t] = cr3[t], kpt' = kpt,
           table'[kpt] = table[kpt],
           \A p \in Owned(t) : table'[p] = table[p]
    PROVE  /\ SpaceOK(t)'
           /\ Owned(t)' = Owned(t)
           /\ Live(t)' = Live(t)
           /\ Live(t) => \A d \in UserDirs, w \in Words : Pte(t, d, w)' = Pte(t, d, w)
  <1>1. SpaceOK(t) /\ Live(t)' = Live(t)
    BY DEF VmeInv, Live
  <1>2. CASE Live(t) /\ ptr[t].present
    <2>1. Owned(t) = {ptr[t].page} \cup {Dir(t)[d].to : d \in Tables(t)} /\ DirOK(t)
      BY <1>1, <1>2, OwnedFacts DEF SpaceOK
    <2>2. Dir(t)' = Dir(t) /\ Tables(t)' = Tables(t)
      BY <2>1 DEF Dir, Tables
    <2>3. DirOK(t)'
      BY <2>1, <2>2 DEF DirOK
    <2>4. SpaceOK(t)'
      BY <1>1, <1>2, <2>2, <2>3 DEF SpaceOK
    <2>5. Owned(t)' = Owned(t)
      <3>1. (Live(t) /\ ptr[t].present => DirOK(t))'
        BY <2>3
      <3>2. Owned(t)' = {ptr'[t].page} \cup {Dir(t)'[d].to : d \in Tables(t)'}
        BY <1>1, <1>2, <3>1, NextOwnedFacts
      <3> QED
        BY <2>1, <2>2, <3>2
    <2>6. ASSUME NEW d \in UserDirs, NEW w \in Words
          PROVE  Pte(t, d, w)' = Pte(t, d, w)
      <3>1. CASE Dir(t)[d] = None
        BY <2>2, <3>1 DEF Pte, NoTable, NoDir, Dir
      <3>2. CASE Dir(t)[d] # None
        <4>1. table'[Dir(t)[d].to] = table[Dir(t)[d].to]
          BY <2>1, <3>2 DEF Tables
        <4> QED
          BY <2>2, <3>2, <4>1 DEF Pte, NoTable, NoDir, Dir
      <3> QED
        BY <3>1, <3>2
    <2> QED
      BY <1>1, <2>4, <2>5, <2>6
  <1>3. CASE Live(t) /\ ~ptr[t].present
    <2>1. SpaceOK(t)'
      BY <1>1, <1>3 DEF SpaceOK
    <2>2. Owned(t)' = Owned(t)
      BY <1>1, <1>3 DEF Owned, TornDown
    <2>3. \A d \in UserDirs, w \in Words : Pte(t, d, w)' = Pte(t, d, w)
      BY <1>3 DEF Pte, NoTable, NoDir
    <2> QED
      BY <1>1, <2>1, <2>2, <2>3
  <1>4. CASE ~Live(t)
    <2>1. SpaceOK(t)'
      BY <1>1, <1>4 DEF SpaceOK, Live
    <2>2. Owned(t) = {} /\ Owned(t)' = {}
      BY <1>1, <1>4 DEF Owned
    <2> QED
      BY <1>1, <1>4, <2>1, <2>2
  <1> QED
    BY <1>2, <1>3, <1>4

\* Pages change hands only between pgalloc and the space that acts.
LEMMA OwnershipKept ==
    ASSUME VmeInv, NEW s \in Spaces,
           \A t \in Spaces \ {s} : Owned(t)' = Owned(t),
           KernelPages' = KernelPages,
           Owned(s)' \subseteq Owned(s) \cup free,
           free' \subseteq free \cup Owned(s),
           free' \cap Owned(s)' = {}
    PROVE  PagesAreOwnedOnce'
  <1>1. PagesAreOwnedOnce
    BY DEF VmeInv
  <1>2. free' \cap KernelPages' = {}
    BY <1>1 DEF PagesAreOwnedOnce
  <1>3. ASSUME NEW t \in Spaces
        PROVE  /\ Owned(t)' \cap (free' \cup KernelPages') = {}
               /\ \A u \in Spaces \ {t} : Owned(t)' \cap Owned(u)' = {}
    <2>1. CASE t = s
      BY <1>1, <2>1 DEF PagesAreOwnedOnce
    <2>2. CASE t # s
      <3>1. Owned(t)' = Owned(t) /\ Owned(t) \cap (free \cup KernelPages) = {}
            /\ Owned(t) \cap Owned(s) = {}
        BY <1>1, <2>2 DEF PagesAreOwnedOnce
      <3>2. Owned(t)' \cap (free' \cup KernelPages') = {}
        BY <3>1
      <3>3. ASSUME NEW u \in Spaces, u # t
            PROVE  Owned(t)' \cap Owned(u)' = {}
        <4>1. CASE u = s
          BY <3>1, <4>1
        <4>2. CASE u # s
          BY <1>1, <3>1, <3>3, <4>2 DEF PagesAreOwnedOnce
        <4> QED
          BY <4>1, <4>2
      <3> QED
        BY <3>2, <3>3
    <2> QED
      BY <2>1, <2>2
  <1> QED
    BY <1>2, <1>3 DEF PagesAreOwnedOnce

LEMMA KernelKept ==
    ASSUME VmeInv, kpt' = kpt, table'[kpt] = table[kpt]
    PROVE  KernelPages' = KernelPages /\ KernelOK'
  BY DEF VmeInv, KernelOK, KernelPages

\* Neither a free page nor one of a space is the kernel's directory.
LEMMA KernelIsNotWritten ==
    ASSUME VmeInv, NEW s \in Spaces
    PROVE  kpt \notin free /\ kpt \notin Owned(s)
  BY DEF VmeInv, PagesAreOwnedOnce, KernelPages

\* What the space that acts gives up without a pgfree is lost, and nothing
\* that was lost is found again.
Dropped(s) == (free \cup Owned(s)) \ (free' \cup Owned(s)')

LEMMA LostGrows ==
    ASSUME VmeInv, NEW s \in Spaces,
           \A t \in Spaces \ {s} : Owned(t)' = Owned(t),
           KernelPages' = KernelPages,
           Owned(s)' \subseteq Owned(s) \cup free,
           free' \subseteq free \cup Owned(s)
    PROVE  Lost' = Lost \cup Dropped(s) /\ Lost \cap Dropped(s) = {}
  <1> DEFINE others == UNION {Owned(t) : t \in Spaces \ {s}}
             others1 == UNION {Owned(t)' : t \in Spaces \ {s}}
  <1>1. others1 = others
    OBVIOUS
  <1>2. /\ UNION {Owned(t) : t \in Spaces} = Owned(s) \cup others
        /\ UNION {Owned(t)' : t \in Spaces} = Owned(s)' \cup others1
    OBVIOUS
  <1>3. free \cup Owned(s) \subseteq Pages
    BY OwnedPages DEF VmeInv, TypeOK
  <1>4. (free \cup Owned(s)) \cap (KernelPages \cup others) = {}
    BY DEF VmeInv, PagesAreOwnedOnce
  <1> HIDE DEF others, others1
  <1> QED
    BY <1>1, <1>2, <1>3, <1>4 DEF Lost, Dropped

-----------------------------------------------------------------------------
(* Every operation keeps the invariant *)

\* What the operations have in common: they write pages that were free or
\* belong to the space they are called for.
LEMMA StepKept ==
    ASSUME VmeInv, TypeOK', NEW s \in Spaces,
           kpt' = kpt,
           \A t \in Spaces \ {s} : ptr'[t] = ptr[t] /\ origin'[t] = origin[t] /\ cr3'[t] = cr3[t],
           \A p \in Pages \ (free \cup Owned(s)) : table'[p] = table[p],
           SpaceOK(s)',
           Owned(s)' \subseteq Owned(s) \cup free,
           free' \subseteq free \cup Owned(s),
           free' \cap Owned(s)' = {},
           origin'[s] = "copyvm" => cr3'[s] \in {NoPage, ptr'[s].page} \cup Lost \cup Dropped(s)
    PROVE  /\ VmeInv'
           /\ \A t \in Spaces \ {s} :
                /\ Owned(t)' = Owned(t) /\ Live(t)' = Live(t)
                /\ Live(t) => \A d \in UserDirs, w \in Words : Pte(t, d, w)' = Pte(t, d, w)
           /\ Lost' = Lost \cup Dropped(s) /\ Lost \cap Dropped(s) = {}
  <1>1. table'[kpt] = table[kpt]
    <2>1. kpt \in Pages
      BY DEF VmeInv, TypeOK
    <2> QED
      BY <2>1, KernelIsNotWritten
  <1>2. KernelPages' = KernelPages /\ KernelOK'
    BY <1>1, KernelKept
  <1>3. ASSUME NEW t \in Spaces, t # s
        PROVE  /\ SpaceOK(t)' /\ Owned(t)' = Owned(t) /\ Live(t)' = Live(t)
               /\ Live(t) => \A d \in UserDirs, w \in Words : Pte(t, d, w)' = Pte(t, d, w)
    <2>1. ASSUME NEW p \in Owned(t)
          PROVE  table'[p] = table[p]
      <3>1. p \notin free /\ p \notin Owned(s)
        BY <1>3, <2>1 DEF VmeInv, PagesAreOwnedOnce
      <3>2. p \in Pages
        <4>1. SpaceOK(t)
          BY DEF VmeInv
        <4> QED
          BY <2>1, <4>1, OwnedPages
      <3> QED
        BY <3>1, <3>2
    <2>2. ptr'[t] = ptr[t] /\ origin'[t] = origin[t] /\ cr3'[t] = cr3[t]
      BY <1>3
    <2> QED
      BY <1>1, <2>1, <2>2, SpaceKept
  <1>4. PagesAreOwnedOnce'
    BY <1>2, <1>3, OwnershipKept
  <1>5. Lost' = Lost \cup Dropped(s) /\ Lost \cap Dropped(s) = {}
    BY <1>2, <1>3, LostGrows
  <1>6. ASSUME NEW t \in Spaces
        PROVE  ContextOK(t)'
    <2>1. CASE t = s
      BY <1>5, <2>1 DEF ContextOK
    <2>2. CASE t # s
      BY <1>5, <2>2 DEF VmeInv, ContextOK
    <2> QED
      BY <2>1, <2>2
  <1> QED
    BY <1>2, <1>3, <1>4, <1>5, <1>6 DEF VmeInv

LEMMA ProtectFacts ==
    ASSUME VmeInv, NEW s \in Spaces, NEW upt \in free, ~Live(s),
           free' = free \ {upt},
           table' = [table EXCEPT ![upt] =
                        [w \in Words |-> IF w \in KernelDirs THEN table[kpt][w] ELSE None]],
           ptr' = [ptr EXCEPT ![s] = [page |-> upt, present |-> TRUE]],
           origin' = [origin EXCEPT ![s] = "protect"],
           UNCHANGED <<kpt, cr3, halted>>
    PROVE  /\ TypeOK' /\ SpaceOK(s)' /\ Owned(s) = {} /\ Owned(s)' = {upt}
           /\ \A d \in UserDirs, w \in Words : Pte(s, d, w)' = None
  <1>1. upt \in Pages /\ TypeOK /\ KernelOK /\ SpaceOK(s) /\ kpt \in Pages /\ upt # kpt
    BY KernelIsNotWritten DEF VmeInv, TypeOK
  <1> DEFINE dir == [w \in Words |-> IF w \in KernelDirs THEN table[kpt][w] ELSE None]
  <1>2. dir \in [Words -> Entries \cup {None}]
    BY <1>1 DEF TypeOK
  <1>3. /\ ptr'[s] = [page |-> upt, present |-> TRUE] /\ ptr'[s].page = upt /\ ptr'[s].present
        /\ origin'[s] = "protect" /\ cr3'[s] = NoPage
        /\ table'[upt] = dir /\ table'[kpt] = table[kpt]
    BY <1>1 DEF TypeOK, SpaceOK
  <1>4. TypeOK'
    <2> HIDE DEF dir
    <2> QED
      BY <1>1, <1>2 DEF TypeOK
  <1>5. Dir(s)' = dir /\ Live(s)'
    BY <1>3 DEF Dir, Live
  <1>6. Tables(s)' = {}
    BY <1>5, ConstantFacts DEF Tables, UserDirs
  <1>7. DirOK(s)'
    BY <1>1, <1>3, <1>5, <1>6, ConstantFacts DEF DirOK, KernelOK
  <1>8. SpaceOK(s)'
    BY <1>1, <1>3, <1>5, <1>7, ConstantFacts DEF SpaceOK
  <1>9. Owned(s)' = {upt}
    <2>1. (Live(s) /\ ptr[s].present => DirOK(s))'
      BY <1>7
    <2>2. Owned(s)' = {ptr'[s].page} \cup {Dir(s)'[d].to : d \in Tables(s)'}
      BY <1>3, <1>5, <2>1, NextOwnedFacts
    <2> QED
      BY <1>3, <1>6, <2>2
  <1>10. \A d \in UserDirs, w \in Words : Pte(s, d, w)' = None
    BY <1>6 DEF Tables, Pte, NoTable, NoDir, Dir
  <1>11. Owned(s) = {}
    BY DEF Owned
  <1> QED
    BY <1>4, <1>8, <1>9, <1>10, <1>11

LEMMA UnprotectFacts ==
    ASSUME VmeInv, NEW s \in Spaces, Unprotect(s)
    PROVE  /\ TypeOK' /\ SpaceOK(s)' /\ Owned(s)' = {} /\ Owned(s) \subseteq Pages
           /\ Live(s) /\ origin'[s] = "none"
           /\ IF ptr[s].present THEN free' = free \cup Owned(s)
              ELSE free' = free /\ Owned(s) = {ptr[s].page} /\ origin[s] = "copyvm"
           /\ kpt' = kpt /\ halted' = halted
           /\ \A t \in Spaces \ {s} : ptr'[t] = ptr[t] /\ origin'[t] = origin[t] /\ cr3'[t] = cr3[t]
           /\ \A p \in Pages \ Owned(s) : table'[p] = table[p]
  <1>1. TypeOK /\ SpaceOK(s) /\ Live(s)
    BY DEF VmeInv, Unprotect
  <1>2. /\ Owned(s) \subseteq Pages
        /\ TornDown(s) = IF ptr[s].present THEN Owned(s) ELSE {}
        /\ ~ptr[s].present => Owned(s) = {ptr[s].page}
    BY <1>1, OwnedFacts, OwnedPages DEF SpaceOK
  <1>3. origin'[s] = "none" /\ cr3'[s] = NoPage /\ ~Live(s)'
    BY <1>1 DEF Unprotect, Live, TypeOK
  <1>4. table' \in [Pages -> [Words -> Entries \cup {None}]]
    BY <1>1 DEF Unprotect, TypeOK, Zeroed
  <1>5. TypeOK'
    <2>1. free' \subseteq Pages
      BY <1>1, <1>2 DEF Unprotect, TypeOK
    <2> QED
      BY <1>1, <1>4, <2>1 DEF Unprotect, TypeOK
  <1>6. SpaceOK(s)' /\ Owned(s)' = {}
    BY <1>3 DEF SpaceOK, Owned
  <1>7. \A t \in Spaces \ {s} : ptr'[t] = ptr[t] /\ origin'[t] = origin[t] /\ cr3'[t] = cr3[t]
    BY <1>1 DEF Unprotect, TypeOK
  <1>8. \A p \in Pages \ Owned(s) : table'[p] = table[p]
    BY <1>1, <1>2 DEF Unprotect
  <1>9. ~ptr[s].present => origin[s] = "copyvm"
    BY <1>1 DEF TypeOK, SpaceOK, Live
  <1>10. free' = free \cup TornDown(s) /\ kpt' = kpt /\ halted' = halted
    BY DEF Unprotect
  <1> QED
    BY <1>1, <1>2, <1>3, <1>5, <1>6, <1>7, <1>8, <1>9, <1>10

LEMMA CopyVmFacts ==
    ASSUME VmeInv, NEW s \in Spaces, NEW pages \in SUBSET free, NEW root \in pages, ~Live(s),
           free' = free \ pages,
           table' = [p \in Pages |-> IF p \in pages THEN Zeroed ELSE table[p]],
           ptr' = [ptr EXCEPT ![s] = [page |-> root, present |-> FALSE]],
           origin' = [origin EXCEPT ![s] = "copyvm"],
           UNCHANGED <<kpt, cr3, halted>>
    PROVE  /\ TypeOK' /\ SpaceOK(s)' /\ Owned(s) = {} /\ Owned(s)' = {root} /\ Live(s)'
           /\ cr3'[s] = NoPage
           /\ \A d \in UserDirs, w \in Words : Pte(s, d, w)' = None
  <1>1. TypeOK /\ SpaceOK(s) /\ root \in Pages
    BY DEF VmeInv, TypeOK
  <1>2. /\ ptr'[s] = [page |-> root, present |-> FALSE] /\ ~ptr'[s].present
        /\ origin'[s] = "copyvm" /\ Live(s)'
    BY <1>1 DEF TypeOK, Live
  <1>3. table' \in [Pages -> [Words -> Entries \cup {None}]]
    BY <1>1 DEF TypeOK, Zeroed
  <1>4. TypeOK'
    BY <1>1, <1>3 DEF TypeOK
  <1>5. SpaceOK(s)' /\ cr3'[s] = NoPage
    BY <1>1, <1>2 DEF SpaceOK
  <1>6. Owned(s) = {} /\ Owned(s)' = {root}
    BY <1>2 DEF Owned, TornDown
  <1>7. \A d \in UserDirs, w \in Words : Pte(s, d, w)' = None
    BY <1>2 DEF Pte, NoTable, NoDir
  <1> QED
    BY <1>2, <1>4, <1>5, <1>6, <1>7

-----------------------------------------------------------------------------
(* map *)

\* What ptwalk and map write, whether the directory and the page table are
\* there or not.
Writes(s, d, w, entry, dir, leaf) ==
    /\ dir \in Pages /\ leaf \in Pages /\ dir # leaf
    /\ dir \in free \cup Owned(s) /\ leaf \in free \cup Owned(s)
    /\ IF NoDir(s) THEN dir \in free ELSE dir = ptr[s].page
    /\ IF NoTable(s, d) THEN leaf \in free ELSE leaf = table[dir][d].to
    /\ free' = free \ {dir, leaf}
    /\ ptr' = [ptr EXCEPT ![s] = [page |-> dir, present |-> TRUE]]
    /\ table' \in [Pages -> [Words -> Entries \cup {None}]]
    /\ table'[dir][d] # None /\ table'[dir][d].user /\ table'[dir][d].to = leaf
    /\ \A x \in Words \ {d} : table'[dir][x] = IF NoDir(s) THEN None ELSE table[dir][x]
    /\ table'[leaf][w] = entry
    /\ \A y \in Words \ {w} : table'[leaf][y] = IF NoTable(s, d) THEN None ELSE table[leaf][y]
    /\ \A p \in Pages \ {dir, leaf} : table'[p] = table[p]
    /\ UNCHANGED <<kpt, origin, cr3, halted>>

\* What map changes with the pages that pgalloc returned.
Changes(s, d, w, entry, new) ==
    LET walked == Walk(s, d, new[1], new[2])
    IN /\ free' = free \ {new[1], new[2]}
       /\ table' = [walked.table EXCEPT ![walked.leaf][w] = entry]
       /\ ptr' = [ptr EXCEPT ![s] = walked.ptr]
       /\ UNCHANGED <<kpt, origin, cr3, halted>>

LEMMA WalkWrites ==
    ASSUME VmeInv, NEW s \in Spaces, Live(s), NEW d \in UserDirs, NEW w \in Words,
           NEW entry \in Entries \cup {None}, NEW new \in Allocations(s, d),
           Changes(s, d, w, entry, new)
    PROVE  \E dir, leaf \in Pages : Writes(s, d, w, entry, dir, leaf)
  <1> DEFINE a == new[1]
             b == new[2]
             dir == IF NoDir(s) THEN a ELSE ptr[s].page
             leaf == IF NoTable(s, d) THEN b ELSE table[dir][d].to
             base == IF NoDir(s) THEN Zeroed ELSE table[dir]
             walked == IF NoTable(s, d)
                       THEN [table EXCEPT ![dir] = [base EXCEPT ![d] = Entry(b, TRUE, TRUE)],
                                          ![b] = Zeroed]
                       ELSE table
  <1>1. /\ TypeOK /\ SpaceOK(s) /\ d \in Words /\ NoPage \notin Pages
        /\ table \in [Pages -> [Words -> Entries \cup {None}]] /\ free \subseteq Pages
    BY ConstantFacts DEF VmeInv, TypeOK, Entries
  <1>2. /\ table' = [walked EXCEPT ![leaf][w] = entry]
        /\ ptr' = [ptr EXCEPT ![s] = [page |-> dir, present |-> TRUE]]
        /\ free' = free \ {a, b}
    BY DEF Walk, Changes
  <1>3. /\ IF NoDir(s) THEN a \in free ELSE a = NoPage
        /\ IF NoTable(s, d) THEN b \in free ELSE b = NoPage
        /\ NoDir(s) => a # b
    BY DEF Allocations
  <1>4. ~NoDir(s) => /\ DirOK(s) /\ ptr[s].page \in Owned(s) /\ ptr[s].page \in Pages
                     /\ dir = ptr[s].page
                     /\ Owned(s) \cap free = {}
                     /\ Owned(s) = {ptr[s].page} \cup {Dir(s)[x].to : x \in Tables(s)}
    BY <1>1, OwnedFacts DEF NoDir, SpaceOK, VmeInv, PagesAreOwnedOnce, DirOK
  <1>5. ~NoTable(s, d) => /\ ~NoDir(s) /\ d \in Tables(s)
                          /\ leaf = table[dir][d].to /\ table[dir][d] # None
                          /\ table[dir][d].user
                          /\ leaf \in Pages /\ leaf # dir /\ leaf \in Owned(s)
    BY <1>4 DEF NoTable, Tables, Dir, DirOK
  <1>6. /\ dir \in Pages /\ leaf \in Pages /\ dir # leaf
        /\ dir \in free \cup Owned(s) /\ leaf \in free \cup Owned(s)
        /\ IF NoDir(s) THEN dir \in free ELSE dir = ptr[s].page
        /\ IF NoTable(s, d) THEN leaf \in free /\ leaf = b ELSE leaf = table[dir][d].to
    BY <1>1, <1>3, <1>4, <1>5 DEF NoTable
  <1>7. free' = free \ {dir, leaf}
    <2>1. /\ IF NoDir(s) THEN dir = a ELSE a = NoPage /\ dir \notin free
          /\ IF NoTable(s, d) THEN leaf = b ELSE b = NoPage /\ leaf \notin free
      BY <1>3, <1>4, <1>5, <1>6
    <2>2. free' = free \ {a, b} /\ NoPage \notin free
      BY <1>1, <1>2
    <2> HIDE DEF a, b, dir, leaf
    <2> QED
      BY <2>1, <2>2
  <1>8. base \in [Words -> Entries \cup {None}]
        /\ \A x \in Words : base[x] = IF NoDir(s) THEN None ELSE table[dir][x]
    BY <1>1, <1>6 DEF Zeroed
  <1> HIDE DEF dir, leaf, base
  <1>9. Entry(leaf, TRUE, TRUE) \in Entries /\ Entry(leaf, TRUE, TRUE) # None
        /\ Entry(leaf, TRUE, TRUE).user /\ Entry(leaf, TRUE, TRUE).to = leaf
    BY <1>6, ConstantFacts DEF Entry
  <1>10. CASE NoTable(s, d)
    <2>1. /\ leaf = b
          /\ walked = [table EXCEPT ![dir] = [base EXCEPT ![d] = Entry(leaf, TRUE, TRUE)],
                                    ![leaf] = Zeroed]
      BY <1>6, <1>10
    <2> HIDE DEF walked
    <2> DEFINE e == Entry(leaf, TRUE, TRUE)
               newdir == [base EXCEPT ![d] = e]
    <2>2. /\ newdir \in [Words -> Entries \cup {None}] /\ newdir[d] = e
          /\ \A x \in Words \ {d} : newdir[x] = base[x]
      BY <1>1, <1>8, <1>9
    <2>3. Zeroed \in [Words -> Entries \cup {None}] /\ \A y \in Words : Zeroed[y] = None
      BY DEF Zeroed
    <2> HIDE DEF e, newdir
    <2>4. /\ walked \in [Pages -> [Words -> Entries \cup {None}]]
          /\ walked[dir] = newdir /\ walked[leaf] = Zeroed
          /\ \A p \in Pages \ {dir, leaf} : walked[p] = table[p]
      BY <1>1, <1>6, <2>1, <2>2, <2>3 DEF newdir, e
    <2>5. /\ table' \in [Pages -> [Words -> Entries \cup {None}]]
          /\ table'[dir] = newdir /\ table'[leaf][w] = entry
          /\ \A y \in Words \ {w} : table'[leaf][y] = None
          /\ \A p \in Pages \ {dir, leaf} : table'[p] = table[p]
      <3>1. /\ table' \in [Pages -> [Words -> Entries \cup {None}]]
            /\ table'[leaf][w] = entry
            /\ \A y \in Words \ {w} : table'[leaf][y] = walked[leaf][y]
            /\ \A p \in Pages \ {leaf} : table'[p] = walked[p]
        <4>1. /\ table' = [walked EXCEPT ![leaf][w] = entry] /\ leaf \in Pages
              /\ walked \in [Pages -> [Words -> Entries \cup {None}]]
          BY <1>2, <1>6, <2>4
        <4> QED
          BY <4>1
      <3> QED
        BY <1>6, <2>3, <2>4, <3>1
    <2>6. table'[dir][d] # None /\ table'[dir][d].user /\ table'[dir][d].to = leaf
      BY <1>9, <2>2, <2>5 DEF e
    <2>7. \A x \in Words \ {d} : table'[dir][x] = IF NoDir(s) THEN None ELSE table[dir][x]
      BY <1>8, <2>2, <2>5
    <2>8. \A y \in Words \ {w} : table'[leaf][y] = IF NoTable(s, d) THEN None ELSE table[leaf][y]
      BY <1>10, <2>5
    <2>9. UNCHANGED <<kpt, origin, cr3, halted>>
      BY DEF Changes
    <2>10. /\ dir \in Pages /\ leaf \in Pages /\ dir # leaf
           /\ dir \in free \cup Owned(s) /\ leaf \in free \cup Owned(s)
           /\ IF NoDir(s) THEN dir \in free ELSE dir = ptr[s].page
           /\ IF NoTable(s, d) THEN leaf \in free ELSE leaf = table[dir][d].to
           /\ free' = free \ {dir, leaf}
           /\ ptr' = [ptr EXCEPT ![s] = [page |-> dir, present |-> TRUE]]
      BY <1>2, <1>6, <1>7
    <2> HIDE DEF newdir
    <2>11. Writes(s, d, w, entry, dir, leaf)
      BY <2>5, <2>6, <2>7, <2>8, <2>9, <2>10 DEF Writes
    <2> QED
      BY <2>10, <2>11
  <1>11. CASE ~NoTable(s, d)
    <2>1. walked = table
      BY <1>11
    <2> HIDE DEF walked
    <2>2. /\ table' \in [Pages -> [Words -> Entries \cup {None}]]
          /\ table'[dir] = table[dir] /\ table'[leaf][w] = entry
          /\ \A y \in Words \ {w} : table'[leaf][y] = table[leaf][y]
          /\ \A p \in Pages \ {dir, leaf} : table'[p] = table[p]
      <3>1. /\ table' \in [Pages -> [Words -> Entries \cup {None}]]
            /\ table'[leaf][w] = entry
            /\ \A y \in Words \ {w} : table'[leaf][y] = table[leaf][y]
            /\ \A p \in Pages \ {leaf} : table'[p] = table[p]
        <4>1. /\ table' = [table EXCEPT ![leaf][w] = entry] /\ leaf \in Pages
              /\ table \in [Pages -> [Words -> Entries \cup {None}]]
          BY <1>1, <1>2, <1>6, <2>1
        <4> QED
          BY <4>1
      <3> QED
        BY <1>6, <3>1
    <2>3. ~NoDir(s) /\ table'[dir][d] # None /\ table'[dir][d].user /\ table'[dir][d].to = leaf
      BY <1>5, <1>11, <2>2
    <2>4. \A x \in Words \ {d} : table'[dir][x] = IF NoDir(s) THEN None ELSE table[dir][x]
      <3>1. table'[dir] = table[dir] /\ ~NoDir(s)
        BY <2>2, <2>3
      <3> QED
        BY <3>1
    <2>5. \A y \in Words \ {w} : table'[leaf][y] = IF NoTable(s, d) THEN None ELSE table[leaf][y]
      BY <1>11, <2>2
    <2>6. UNCHANGED <<kpt, origin, cr3, halted>>
      BY DEF Changes
    <2>7. /\ dir \in Pages /\ leaf \in Pages /\ dir # leaf
          /\ dir \in free \cup Owned(s) /\ leaf \in free \cup Owned(s)
          /\ IF NoDir(s) THEN dir \in free ELSE dir = ptr[s].page
          /\ IF NoTable(s, d) THEN leaf \in free ELSE leaf = table[dir][d].to
          /\ free' = free \ {dir, leaf}
          /\ ptr' = [ptr EXCEPT ![s] = [page |-> dir, present |-> TRUE]]
      BY <1>2, <1>6, <1>7
    <2>8. Writes(s, d, w, entry, dir, leaf)
      BY <2>2, <2>3, <2>4, <2>5, <2>6, <2>7 DEF Writes
    <2> QED
      BY <2>7, <2>8
  <1> QED
    BY <1>10, <1>11

LEMMA MapFacts ==
    ASSUME VmeInv, NEW s \in Spaces, Live(s), NEW d \in UserDirs, NEW w \in Words,
           NEW entry \in Entries \cup {None},
           NEW dir \in Pages, NEW leaf \in Pages, Writes(s, d, w, entry, dir, leaf)
    PROVE  /\ TypeOK' /\ SpaceOK(s)' /\ Live(s)'
           /\ ptr'[s].present /\ ptr'[s].page = dir
           /\ Owned(s)' = (IF NoDir(s) THEN {} ELSE Owned(s)) \cup {dir, leaf}
           /\ NoDir(s) => origin[s] = "copyvm" /\ Owned(s) = {ptr[s].page}
                          /\ dir \in free /\ leaf \in free
           /\ \A x \in UserDirs, y \in Words :
                Pte(s, x, y)' = IF x = d /\ y = w THEN entry ELSE Pte(s, x, y)
  <1>1. /\ TypeOK /\ SpaceOK(s) /\ KernelOK /\ d \in Words /\ Words = KernelDirs \cup UserDirs
        /\ kpt \notin free /\ kpt \notin Owned(s) /\ d \notin KernelDirs
    BY ConstantFacts, KernelIsNotWritten DEF VmeInv, UserDirs
  <1>2. /\ dir # leaf /\ dir \in free \cup Owned(s) /\ leaf \in free \cup Owned(s)
        /\ table'[dir][d] # None /\ table'[dir][d].user /\ table'[dir][d].to = leaf
        /\ \A x \in Words \ {d} : table'[dir][x] = IF NoDir(s) THEN None ELSE table[dir][x]
        /\ table'[leaf][w] = entry
        /\ \A y \in Words \ {w} : table'[leaf][y] = IF NoTable(s, d) THEN None ELSE table[leaf][y]
        /\ \A p \in Pages \ {dir, leaf} : table'[p] = table[p]
        /\ kpt' = kpt /\ origin' = origin /\ cr3' = cr3
    BY DEF Writes
  <1>3. /\ ptr'[s] = [page |-> dir, present |-> TRUE] /\ ptr'[s].page = dir /\ ptr'[s].present
        /\ Dir(s)' = table'[dir] /\ Live(s)'
    BY <1>1 DEF Writes, TypeOK, Dir, Live
  <1>4. TypeOK'
    <2>1. ptr' \in [Spaces -> [page : Pages \cup {NoPage}, present : BOOLEAN]]
      BY <1>1 DEF Writes, TypeOK
    <2>2. free' \subseteq Pages
      BY <1>1 DEF Writes, TypeOK
    <2>3. table' \in [Pages -> [Words -> Entries \cup {None}]]
      BY DEF Writes
    <2> QED
      BY <1>1, <2>1, <2>2, <2>3 DEF Writes, TypeOK, Entries
  <1>5. CASE NoDir(s)
    <2>1. /\ Owned(s) = {ptr[s].page} /\ origin[s] = "copyvm" /\ NoTable(s, d)
          /\ dir \in free /\ leaf \in free
      <3>1. origin[s] = "copyvm"
        BY <1>1, <1>5 DEF SpaceOK, NoDir, TypeOK, Live
      <3> QED
        BY <1>1, <1>5, <3>1, OwnedFacts DEF SpaceOK, NoDir, NoTable, Writes
    <2>2. Tables(s)' = {d}
      BY <1>1, <1>2, <1>3, <1>5 DEF Tables
    <2>3. DirOK(s)'
      BY <1>1, <1>2, <1>3, <1>5, <2>2 DEF DirOK
    <2>4. SpaceOK(s)'
      BY <1>2, <1>3, <2>1, <2>3 DEF SpaceOK
    <2>5. Owned(s)' = {dir, leaf}
      <3>1. (Live(s) /\ ptr[s].present => DirOK(s))'
        BY <2>3
      <3>2. Owned(s)' = {ptr'[s].page} \cup {Dir(s)'[x].to : x \in Tables(s)'}
        BY <1>3, <3>1, NextOwnedFacts
      <3> QED
        BY <1>2, <1>3, <2>2, <3>2
    <2>6. ASSUME NEW x \in UserDirs, NEW y \in Words
          PROVE  Pte(s, x, y)' = IF x = d /\ y = w THEN entry ELSE Pte(s, x, y)
      <3>1. Pte(s, x, y) = None
        BY <1>5 DEF Pte, NoTable
      <3>2. CASE x = d
        <4>1. Pte(s, x, y)' = table'[leaf][y]
          BY <1>2, <1>3, <3>2 DEF Pte, NoTable, NoDir
        <4> QED
          BY <1>2, <2>1, <3>1, <3>2, <4>1
      <3>3. CASE x # d
        <4>1. table'[dir][x] = None
          BY <1>1, <1>2, <1>5, <3>3
        <4> QED
          BY <1>3, <3>1, <3>3, <4>1 DEF Pte, NoTable, NoDir
      <3> QED
        BY <3>2, <3>3
    <2> QED
      BY <1>3, <1>4, <1>5, <2>1, <2>4, <2>5, <2>6
  <1>6. CASE ~NoDir(s)
    <2>1. /\ ptr[s].present /\ dir = ptr[s].page /\ Dir(s) = table[dir] /\ DirOK(s)
          /\ Owned(s) = {dir} \cup {Dir(s)[x].to : x \in Tables(s)}
          /\ Owned(s) \cap free = {}
      BY <1>1, <1>6, OwnedFacts DEF SpaceOK, NoDir, Writes, Dir, VmeInv, PagesAreOwnedOnce
    <2>2. \A x \in Words \ {d} : Dir(s)'[x] = Dir(s)[x]
      BY <1>2, <1>3, <1>6, <2>1
    <2>3. Tables(s)' = Tables(s) \cup {d} /\ (d \in Tables(s) <=> ~NoTable(s, d))
      <3>1. d \in UserDirs /\ UserDirs \subseteq Words
        BY <1>1
      <3>2. d \in Tables(s) <=> ~NoTable(s, d)
        BY <1>6, <2>1, <3>1 DEF Tables, NoTable
      <3>3. \A x \in UserDirs : x # d => (Dir(s)'[x] # None <=> Dir(s)[x] # None)
        BY <2>2, <3>1
      <3>4. Dir(s)'[d] # None
        BY <1>2, <1>3
      <3> QED
        BY <3>1, <3>2, <3>3, <3>4 DEF Tables
    <2>4. \A x \in Tables(s) : x # d => Dir(s)[x].to # leaf
      <3> SUFFICES ASSUME NEW x \in Tables(s), x # d PROVE Dir(s)[x].to # leaf
        OBVIOUS
      <3>1. CASE NoTable(s, d)
        <4>1. leaf \in free /\ Dir(s)[x].to \in Owned(s)
          BY <2>1, <3>1 DEF Writes
        <4> QED
          BY <2>1, <4>1
      <3>2. CASE ~NoTable(s, d)
        <4>1. d \in Tables(s) /\ Dir(s)[d].to = leaf
          BY <2>1, <2>3, <3>2 DEF Writes
        <4> QED
          BY <2>1, <4>1 DEF DirOK
      <3> QED
        BY <3>1, <3>2
    <2>5. DirOK(s)'
      <3>1. \A x \in KernelDirs : Dir(s)'[x] = Dir(s)[x]
        BY <1>1, <2>2
      <3>2. \A x \in Tables(s)' : IF x = d THEN Dir(s)'[x] = table'[dir][d]
                                          ELSE x \in Tables(s) /\ Dir(s)'[x] = Dir(s)[x]
        BY <1>1, <1>3, <2>2, <2>3 DEF Tables
      <3>3. ASSUME NEW x \in Tables(s)'
            PROVE  Dir(s)'[x].user /\ Dir(s)'[x].to \in Pages /\ Dir(s)'[x].to # ptr'[s].page
        <4>1. CASE x = d
          BY <1>2, <1>3, <3>2, <4>1
        <4>2. CASE x # d
          BY <1>3, <2>1, <3>2, <4>2 DEF DirOK
        <4> QED
          BY <4>1, <4>2
      <3>4. ASSUME NEW x \in Tables(s)', NEW y \in Tables(s)', x # y
            PROVE  Dir(s)'[x].to # Dir(s)'[y].to
        <4>1. CASE x = d
          BY <1>2, <2>4, <3>2, <3>4, <4>1
        <4>2. CASE y = d
          BY <1>2, <2>4, <3>2, <3>4, <4>2
        <4>3. CASE x # d /\ y # d
          BY <2>1, <3>2, <3>4, <4>3 DEF DirOK
        <4> QED
          BY <4>1, <4>2, <4>3
      <3> QED
        BY <1>3, <2>1, <3>1, <3>3, <3>4 DEF DirOK
    <2>6. SpaceOK(s)'
      <3>1. table'[kpt] = table[kpt]
        BY <1>1, <1>2 DEF TypeOK
      <3>2. \A x \in KernelDirs : Dir(s)'[x] = Dir(s)[x]
        BY <1>1, <2>2
      <3>3. cr3'[s] = cr3[s] /\ origin'[s] = origin[s] /\ ptr'[s].page = ptr[s].page
            /\ ptr'[s].present /\ Live(s)'
        BY <1>2, <1>3, <2>1
      <3>4. origin[s] = "protect" =>
              /\ cr3[s] \in {NoPage, ptr[s].page}
              /\ \A x \in KernelDirs : Dir(s)[x] = table[kpt][x]
        BY <1>1 DEF SpaceOK
      <3>5. origin'[s] = "protect" => \A x \in KernelDirs : Dir(s)'[x] = table'[kpt'][x]
        BY <1>2, <3>1, <3>2, <3>3, <3>4
      <3> QED
        BY <1>3, <2>5, <3>3, <3>4, <3>5 DEF SpaceOK
    <2>7. Owned(s)' = Owned(s) \cup {dir, leaf}
      <3>1. (Live(s) /\ ptr[s].present => DirOK(s))'
        BY <2>5
      <3>2. Owned(s)' = {ptr'[s].page} \cup {Dir(s)'[x].to : x \in Tables(s)'}
        BY <1>3, <3>1, NextOwnedFacts
      <3>3. {Dir(s)'[x].to : x \in Tables(s)'} = {Dir(s)[x].to : x \in Tables(s)} \cup {leaf}
        <4>1. Dir(s)'[d].to = leaf /\ (d \in Tables(s) => Dir(s)[d].to = leaf)
          BY <1>2, <1>3, <2>1, <2>3 DEF Writes
        <4>2. \A x \in Tables(s) : Dir(s)'[x].to = Dir(s)[x].to
          BY <1>1, <2>2, <4>1 DEF Tables
        <4> QED
          BY <2>3, <4>1, <4>2
      <3> QED
        BY <1>3, <2>1, <3>2, <3>3
    <2>8. ASSUME NEW x \in UserDirs, NEW y \in Words
          PROVE  Pte(s, x, y)' = IF x = d /\ y = w THEN entry ELSE Pte(s, x, y)
      <3>1. Pte(s, x, y) = IF Dir(s)[x] = None THEN None ELSE table[Dir(s)[x].to][y]
        BY <1>6, <2>1 DEF Pte, NoTable
      <3>2. Pte(s, x, y)' = IF Dir(s)'[x] = None THEN None ELSE table'[Dir(s)'[x].to][y]
        BY <1>3 DEF Pte, NoTable, NoDir
      <3>3. CASE x = d
        <4>1. Pte(s, x, y)' = table'[leaf][y]
          BY <1>2, <1>3, <3>2, <3>3
        <4>2. y # w => table'[leaf][y] = IF Dir(s)[d] = None THEN None ELSE table[leaf][y]
          BY <1>2, <1>6, <2>1 DEF NoTable
        <4>3. Dir(s)[d] # None => Dir(s)[d].to = leaf
          BY <2>1, <2>3, <1>1 DEF Writes, Tables
        <4> QED
          BY <1>2, <3>1, <3>3, <4>1, <4>2, <4>3
      <3>4. CASE x # d /\ Dir(s)[x] = None
        BY <1>1, <2>2, <3>1, <3>2, <3>4
      <3>5. CASE x # d /\ Dir(s)[x] # None
        <4>1. x \in Tables(s) /\ Dir(s)'[x] = Dir(s)[x] /\ Dir(s)[x].to # leaf /\ Dir(s)[x].to # dir
              /\ Dir(s)[x].to \in Pages
          BY <1>1, <2>1, <2>2, <2>4, <3>5 DEF Tables, DirOK
        <4>2. table'[Dir(s)[x].to] = table[Dir(s)[x].to]
          BY <1>2, <4>1
        <4> QED
          BY <3>1, <3>2, <3>5, <4>1, <4>2
      <3> QED
        BY <3>3, <3>4, <3>5
    <2> QED
      BY <1>3, <1>4, <1>6, <2>6, <2>7, <2>8
  <1> QED
    BY <1>5, <1>6

-----------------------------------------------------------------------------
(* What every step does: to the invariant, to the lost pages and to the    *)
(* mappings of AddressSpace                                                *)

Mappings == [s \in {t \in Spaces : Live(t)} |-> Mapping(s)]

\* The three results about a step.
Good ==
    /\ VmeInv'
    /\ Lost' = Lost \/ \E s \in Spaces : LosesLowerTables(s) \/ LosesRoot(s)
    /\ Abstract!SpaceNext \/ UNCHANGED <<Mappings, halted>>

LEMMA MappingKept ==
    ASSUME NEW t \in Spaces, \A d \in UserDirs, w \in Words : Pte(t, d, w)' = Pte(t, d, w)
    PROVE  Mapping(t)' = Mapping(t)
  <1>1. ASSUME NEW va \in UserDirs \X Words
        PROVE  Pte(t, va[1], va[2])' = Pte(t, va[1], va[2])
    OBVIOUS
  <1> QED
    BY <1>1 DEF Mapping

\* A step that writes no page and no pointer.
LEMMA TablesKept ==
    ASSUME VmeInv, UNCHANGED <<table, free, kpt, ptr, origin>>
    PROVE  /\ KernelOK' /\ PagesAreOwnedOnce' /\ Lost' = Lost /\ Mappings' = Mappings
           /\ \A t \in Spaces : /\ Dir(t)' = Dir(t) /\ Tables(t)' = Tables(t) /\ Live(t)' = Live(t)
                                /\ DirOK(t)' <=> DirOK(t)
  <1>1. KernelOK /\ PagesAreOwnedOnce
    BY DEF VmeInv
  <1>2. KernelPages' = KernelPages /\ KernelOK'
    BY <1>1 DEF KernelPages, KernelOK
  <1>3. ASSUME NEW t \in Spaces
        PROVE  /\ Dir(t)' = Dir(t) /\ Tables(t)' = Tables(t) /\ Live(t)' = Live(t)
               /\ DirOK(t)' <=> DirOK(t)
    <2>1. Dir(t)' = Dir(t) /\ Live(t)' = Live(t)
      BY DEF Dir, Live
    <2>2. Tables(t)' = Tables(t)
      BY <2>1 DEF Tables
    <2> QED
      BY <2>1, <2>2 DEF DirOK
  <1>4. \A t \in Spaces : Owned(t)' = Owned(t)
    BY DEF Owned, TornDown, Live
  <1>5. PagesAreOwnedOnce'
    BY <1>1, <1>2, <1>4 DEF PagesAreOwnedOnce
  <1>6. Lost' = Lost
    BY DEF Lost, KernelPages, Owned, TornDown, Live
  <1>7. Mappings' = Mappings
    BY DEF Mappings, Mapping, Pte, NoTable, NoDir, Live
  <1> QED
    BY <1>2, <1>3, <1>5, <1>6, <1>7

LEMMA PanicIsGood ==
    ASSUME VmeInv, ~halted, Panic
    PROVE  Good
  <1>1. UNCHANGED <<table, free, kpt, ptr, origin, cr3>> /\ halted' = TRUE
    BY DEF Panic
  <1>2. /\ KernelOK' /\ PagesAreOwnedOnce' /\ Lost' = Lost /\ Mappings' = Mappings
        /\ \A t \in Spaces : /\ Dir(t)' = Dir(t) /\ Tables(t)' = Tables(t) /\ Live(t)' = Live(t)
                             /\ DirOK(t)' <=> DirOK(t)
    BY <1>1, TablesKept
  <1>3. TypeOK'
    BY <1>1 DEF VmeInv, TypeOK
  <1>4. ASSUME NEW t \in Spaces
        PROVE  SpaceOK(t)'
    <2>1. SpaceOK(t)
      BY DEF VmeInv
    <2> QED
      BY <1>1, <1>2, <2>1 DEF SpaceOK
  <1>5. VmeInv'
    BY <1>1, <1>2, <1>3, <1>4 DEF VmeInv, ContextOK
  <1> QED
    BY <1>1, <1>2, <1>5 DEF Good, Abstract!SpaceNext, Mappings

\* A new space has no translation.
LEMMA NewSpace ==
    ASSUME NEW s \in Spaces, ~Live(s), Live(s)',
           \A d \in UserDirs, w \in Words : Pte(s, d, w)' = None,
           \A t \in Spaces \ {s} :
              /\ Live(t)' = Live(t)
              /\ Live(t) => \A d \in UserDirs, w \in Words : Pte(t, d, w)' = Pte(t, d, w)
    PROVE  Abstract!Create(s)
  <1>1. Mapping(s)' = << >>
    <2>1. {va \in UserDirs \X Words : Pte(s, va[1], va[2])' # None} = {}
      OBVIOUS
    <2> QED
      BY <2>1 DEF Mapping
  <1>2. ASSUME NEW t \in Spaces, t # s, Live(t)
        PROVE  Mapping(t)' = Mapping(t)
    BY <1>2, MappingKept
  <1>3. DOMAIN Mappings = {t \in Spaces : Live(t)} /\ s \notin DOMAIN Mappings
        /\ {t \in Spaces : Live(t)'} = {t \in Spaces : Live(t)} \cup {s}
    BY DEF Mappings
  <1>4. Mappings' = [t \in DOMAIN Mappings \cup {s} |-> IF t = s THEN << >> ELSE Mappings[t]]
    BY <1>1, <1>2, <1>3 DEF Mappings
  <1> QED
    BY <1>3, <1>4 DEF Abstract!Create, Abstract!Set, Mappings

LEMMA ProtectIsGood ==
    ASSUME VmeInv, ~halted, NEW s \in Spaces, Protect(s)
    PROVE  Good
  <1>1. CASE Panic
    BY <1>1, PanicIsGood
  <1>2. ASSUME NEW upt \in free,
               free' = free \ {upt},
               table' = [table EXCEPT ![upt] =
                            [w \in Words |-> IF w \in KernelDirs THEN table[kpt][w] ELSE None]],
               ptr' = [ptr EXCEPT ![s] = [page |-> upt, present |-> TRUE]],
               origin' = [origin EXCEPT ![s] = "protect"],
               UNCHANGED <<kpt, cr3, halted>>
        PROVE  Good
    <2>1. /\ TypeOK' /\ SpaceOK(s)' /\ Owned(s) = {} /\ Owned(s)' = {upt}
          /\ \A d \in UserDirs, w \in Words : Pte(s, d, w)' = None
      BY <1>2, ProtectFacts DEF Protect
    <2>2. /\ \A t \in Spaces \ {s} : ptr'[t] = ptr[t] /\ origin'[t] = origin[t] /\ cr3'[t] = cr3[t]
          /\ \A p \in Pages \ (free \cup Owned(s)) : table'[p] = table[p]
          /\ Live(s)' /\ ~Live(s) /\ halted' = halted /\ origin'[s] # "copyvm"
      BY <1>2 DEF VmeInv, TypeOK, Live, Protect
    <2>3. /\ Owned(s)' \subseteq Owned(s) \cup free /\ free' \subseteq free \cup Owned(s)
          /\ free' \cap Owned(s)' = {} /\ free' \cup Owned(s)' = free \cup Owned(s)
      BY <1>2, <2>1
    <2>4. /\ VmeInv'
          /\ \A t \in Spaces \ {s} :
               /\ Owned(t)' = Owned(t) /\ Live(t)' = Live(t)
               /\ Live(t) => \A d \in UserDirs, w \in Words : Pte(t, d, w)' = Pte(t, d, w)
          /\ Lost' = Lost \cup Dropped(s)
      BY <1>2, <2>1, <2>2, <2>3, StepKept
    <2>5. Abstract!Create(s)
      BY <2>1, <2>2, <2>4, NewSpace
    <2>6. Lost' = Lost
      BY <2>3, <2>4 DEF Dropped
    <2> QED
      BY <2>2, <2>4, <2>5, <2>6 DEF Good, Abstract!SpaceNext
  <1> QED
    BY <1>1, <1>2 DEF Protect

LEMMA CopyVmIsGood ==
    ASSUME VmeInv, ~halted, NEW s \in Spaces, NEW src \in Spaces, CopyVm(s, src)
    PROVE  Good
  <1>1. CASE Panic
    BY <1>1, PanicIsGood
  <1>2. ASSUME NEW pages \in SUBSET free, NEW root \in pages,
               free' = free \ pages,
               table' = [p \in Pages |-> IF p \in pages THEN Zeroed ELSE table[p]],
               ptr' = [ptr EXCEPT ![s] = [page |-> root, present |-> FALSE]],
               origin' = [origin EXCEPT ![s] = "copyvm"],
               UNCHANGED <<kpt, cr3, halted>>,
               Cardinality(pages) = 1 + Cardinality(Words)
        PROVE  Good
    <2>1. /\ TypeOK' /\ SpaceOK(s)' /\ Owned(s) = {} /\ Owned(s)' = {root} /\ Live(s)' /\ ~Live(s)
          /\ cr3'[s] = NoPage
          /\ \A d \in UserDirs, w \in Words : Pte(s, d, w)' = None
      BY <1>2, CopyVmFacts DEF CopyVm
    <2>2. /\ \A t \in Spaces \ {s} : ptr'[t] = ptr[t] /\ origin'[t] = origin[t] /\ cr3'[t] = cr3[t]
          /\ \A p \in Pages \ (free \cup Owned(s)) : table'[p] = table[p]
          /\ halted' = halted /\ origin'[s] = "copyvm"
      BY <1>2 DEF VmeInv, TypeOK
    <2>3. /\ Owned(s)' \subseteq Owned(s) \cup free /\ free' \subseteq free \cup Owned(s)
          /\ free' \cap Owned(s)' = {}
      BY <1>2, <2>1
    <2>4. /\ VmeInv'
          /\ \A t \in Spaces \ {s} :
               /\ Live(t)' = Live(t)
               /\ Live(t) => \A d \in UserDirs, w \in Words : Pte(t, d, w)' = Pte(t, d, w)
          /\ Lost' = Lost \cup Dropped(s) /\ Lost \cap Dropped(s) = {}
      BY <1>2, <2>1, <2>2, <2>3, StepKept
    <2>5. Abstract!Create(s)
      BY <2>1, <2>4, NewSpace
    <2>6. Lost \subseteq Lost' /\ Lost' \ Lost = pages \ {root}
      BY <1>2, <2>1, <2>4 DEF Dropped
    <2>7. Cardinality(pages \ {root}) = Cardinality(Words)
      <3>1. IsFiniteSet(pages) /\ Cardinality(Words) \in Nat
        <4>1. IsFiniteSet(Pages) /\ IsFiniteSet(Words) /\ pages \subseteq Pages
          BY VmeAssumption DEF VmeInv, TypeOK
        <4> QED
          BY <4>1, FS_Subset, FS_CardinalityType
      <3>2. Cardinality(pages \ {root}) = Cardinality(pages) - 1
        BY <3>1, FS_RemoveElement
      <3> QED
        BY <1>2, <3>1, <3>2
    <2>8. LosesLowerTables(s)
      BY <2>1, <2>2, <2>6, <2>7 DEF LosesLowerTables
    <2> QED
      BY <2>2, <2>4, <2>5, <2>8 DEF Good, Abstract!SpaceNext
  <1> QED
    BY <1>1, <1>2 DEF CopyVm

LEMMA UnprotectIsGood ==
    ASSUME VmeInv, ~halted, NEW s \in Spaces, Unprotect(s)
    PROVE  Good
  <1>1. /\ TypeOK' /\ SpaceOK(s)' /\ Owned(s)' = {} /\ Owned(s) \subseteq Pages
        /\ Live(s) /\ origin'[s] = "none" /\ ~Live(s)'
        /\ IF ptr[s].present THEN free' = free \cup Owned(s)
           ELSE free' = free /\ Owned(s) = {ptr[s].page} /\ origin[s] = "copyvm"
        /\ kpt' = kpt /\ halted' = halted
        /\ \A t \in Spaces \ {s} : ptr'[t] = ptr[t] /\ origin'[t] = origin[t] /\ cr3'[t] = cr3[t]
        /\ \A p \in Pages \ Owned(s) : table'[p] = table[p]
    BY UnprotectFacts DEF Live
  <1>2. /\ Owned(s)' \subseteq Owned(s) \cup free /\ free' \subseteq free \cup Owned(s)
        /\ free' \cap Owned(s)' = {}
        /\ \A p \in Pages \ (free \cup Owned(s)) : table'[p] = table[p]
    BY <1>1
  <1>3. /\ VmeInv'
        /\ \A t \in Spaces \ {s} :
             /\ Owned(t)' = Owned(t) /\ Live(t)' = Live(t)
             /\ Live(t) => \A d \in UserDirs, w \in Words : Pte(t, d, w)' = Pte(t, d, w)
        /\ Lost' = Lost \cup Dropped(s)
    BY <1>1, <1>2, StepKept
  <1>4. Lost' = Lost \/ LosesRoot(s)
    <2>1. CASE ptr[s].present
      BY <1>1, <1>3, <2>1 DEF Dropped
    <2>2. CASE ~ptr[s].present
      <3>1. Dropped(s) = {ptr[s].page}
        <4>1. Owned(s) \cap free = {}
          BY DEF VmeInv, PagesAreOwnedOnce
        <4> QED
          BY <1>1, <2>2, <4>1 DEF Dropped
      <3> QED
        BY <1>1, <1>3, <2>2, <3>1 DEF LosesRoot
    <2> QED
      BY <2>1, <2>2
  <1>5. ASSUME NEW t \in Spaces, t # s, Live(t)
        PROVE  Mapping(t)' = Mapping(t)
    BY <1>3, <1>5, MappingKept
  <1>6. DOMAIN Mappings = {t \in Spaces : Live(t)} /\ s \in DOMAIN Mappings
        /\ {t \in Spaces : Live(t)'} = {t \in Spaces : Live(t)} \ {s}
    BY <1>1, <1>3 DEF Mappings
  <1>7. Mappings' = [t \in DOMAIN Mappings \ {s} |-> Mappings[t]]
    BY <1>5, <1>6 DEF Mappings
  <1>8. Abstract!Destroy(s)
    BY <1>6, <1>7 DEF Abstract!Destroy, Mappings
  <1> QED
    BY <1>1, <1>3, <1>4, <1>8 DEF Good, Abstract!SpaceNext

LEMMA UcontextIsGood ==
    ASSUME VmeInv, ~halted, NEW s \in Spaces, Ucontext(s)
    PROVE  Good
  <1>1. /\ TypeOK /\ SpaceOK(s) /\ Live(s)
        /\ UNCHANGED <<table, free, kpt, ptr, origin, halted>>
        /\ cr3' = [cr3 EXCEPT ![s] = ptr[s].page]
    BY DEF VmeInv, Ucontext
  <1>2. TypeOK'
    <2>1. ptr[s].page \in Pages \cup {NoPage}
      BY <1>1 DEF TypeOK
    <2> QED
      BY <1>1, <2>1 DEF TypeOK
  <1>3. ASSUME NEW t \in Spaces
        PROVE  SpaceOK(t)'
    <2>1. /\ Dir(t)' = Dir(t) /\ Tables(t)' = Tables(t) /\ Live(t)' = Live(t)
          /\ cr3'[t] = IF t = s THEN ptr[s].page ELSE cr3[t]
      BY <1>1 DEF Dir, Tables, Live, TypeOK
    <2>2. SpaceOK(t)
      BY DEF VmeInv
    <2>3. DirOK(t)' <=> DirOK(t)
      BY <1>1, <2>1 DEF DirOK
    <2> QED
      BY <1>1, <2>1, <2>2, <2>3 DEF SpaceOK
  <1>4. KernelOK' /\ PagesAreOwnedOnce' /\ Lost' = Lost /\ Mappings' = Mappings
    BY <1>1, TablesKept
  <1>5. ASSUME NEW t \in Spaces
        PROVE  ContextOK(t)'
    <2>1. cr3'[t] = IF t = s THEN ptr[s].page ELSE cr3[t]
      BY <1>1 DEF TypeOK
    <2> QED
      BY <1>1, <1>4, <2>1 DEF VmeInv, ContextOK
  <1> QED
    BY <1>1, <1>2, <1>3, <1>4, <1>5 DEF Good, VmeInv

\* What map writes.
IsMapEntry(entry) ==
    entry = None \/ \E f \in Frames, write \in BOOLEAN : entry = Entry(f, TRUE, write)

LEMMA MapEntries ==
    ASSUME NEW entry \in {None} \cup [to : Frames, user : {TRUE}, write : BOOLEAN]
    PROVE  IsMapEntry(entry)
  <1>1. CASE entry = None
    BY <1>1 DEF IsMapEntry
  <1>2. CASE entry \in [to : Frames, user : {TRUE}, write : BOOLEAN]
    <2>1. entry = Entry(entry.to, TRUE, entry.write) /\ entry.to \in Frames /\ entry.write \in BOOLEAN
      BY <1>2 DEF Entry
    <2> QED
      BY <2>1 DEF IsMapEntry
  <1> QED
    BY <1>1, <1>2

\* map changes one translation, from nothing to something or back.
LEMMA OneTranslation ==
    ASSUME NEW s \in Spaces, NEW d \in UserDirs, NEW w \in Words, Live(s), Live(s)',
           NEW entry, IsMapEntry(entry),
           (Pte(s, d, w) = None) # (entry = None),
           \A x \in UserDirs, y \in Words :
              Pte(s, x, y)' = IF x = d /\ y = w THEN entry ELSE Pte(s, x, y),
           \A t \in Spaces \ {s} :
              /\ Live(t)' = Live(t)
              /\ Live(t) => \A x \in UserDirs, y \in Words : Pte(t, x, y)' = Pte(t, x, y)
    PROVE  \E va \in UserDirs \X Words :
              Abstract!Unmap(s, va) \/ \E to \in Abstract!Translation : Abstract!Map(s, va, to)
  <1> DEFINE va == <<d, w>>
             mapped == {v \in UserDirs \X Words : Pte(s, v[1], v[2]) # None}
             mapped1 == {v \in UserDirs \X Words : Pte(s, v[1], v[2])' # None}
  <1>1. va \in UserDirs \X Words /\ va[1] = d /\ va[2] = w
    OBVIOUS
  <1>2. \A v \in UserDirs \X Words :
          Pte(s, v[1], v[2])' = IF v = va THEN entry ELSE Pte(s, v[1], v[2])
    <2> SUFFICES ASSUME NEW x \in UserDirs, NEW y \in Words
                 PROVE  Pte(s, x, y)' = IF <<x, y>> = va THEN entry ELSE Pte(s, x, y)
      OBVIOUS
    <2> QED
      OBVIOUS
  <1>3. /\ Mapping(s) = [v \in mapped |-> [frame |-> Pte(s, v[1], v[2]).to,
                                           write |-> Pte(s, v[1], v[2]).write]]
        /\ Mapping(s)' = [v \in mapped1 |-> [frame |-> Pte(s, v[1], v[2])'.to,
                                             write |-> Pte(s, v[1], v[2])'.write]]
    BY DEF Mapping
  <1>4. (va \in mapped <=> entry = None) /\ (va \in mapped1 <=> entry # None)
    BY <1>1, <1>2
  <1>5. ASSUME NEW t \in Spaces, t # s, Live(t)
        PROVE  Mapping(t)' = Mapping(t)
    BY <1>5, MappingKept
  <1>6. DOMAIN Mappings = {t \in Spaces : Live(t)} /\ s \in DOMAIN Mappings
        /\ Mappings[s] = Mapping(s) /\ DOMAIN Mappings[s] = mapped
        /\ {t \in Spaces : Live(t)'} = DOMAIN Mappings \cup {s}
    BY <1>3 DEF Mappings
  <1>7. Mappings' = [t \in DOMAIN Mappings \cup {s} |-> IF t = s THEN Mapping(s)' ELSE Mappings[t]]
    BY <1>5, <1>6 DEF Mappings
  <1>8. CASE entry = None
    <2>1. mapped1 = mapped \ {va}
      BY <1>2, <1>4, <1>8
    <2>2. Mapping(s)' = [v \in mapped \ {va} |-> Mappings[s][v]]
      BY <1>2, <1>3, <1>6, <2>1
    <2>3. Abstract!Unmap(s, va)
      <3>1. va \in DOMAIN Mappings[s]
        BY <1>4, <1>6, <1>8
      <3> HIDE DEF mapped, va
      <3> QED
        BY <1>6, <1>7, <2>2, <3>1 DEF Abstract!Unmap, Abstract!Set, Mappings
    <2> QED
      BY <1>1, <2>3
  <1>9. CASE entry # None
    <2>1. PICK f \in Frames, write \in BOOLEAN : entry = Entry(f, TRUE, write)
      BY <1>9 DEF IsMapEntry
    <2> DEFINE to == [frame |-> f, write |-> write]
    <2>2. to \in Abstract!Translation /\ entry.to = f /\ entry.write = write
      BY <2>1 DEF Abstract!Translation, Entry
    <2>3. mapped1 = mapped \cup {va}
      BY <1>1, <1>2, <1>4, <1>9
    <2>4. Mapping(s)' = [v \in mapped \cup {va} |-> IF v = va THEN to ELSE Mappings[s][v]]
      BY <1>2, <1>3, <1>6, <2>2, <2>3
    <2>5. Abstract!Map(s, va, to)
      <3>1. va \notin DOMAIN Mappings[s]
        BY <1>4, <1>6, <1>9
      <3> HIDE DEF mapped, va, to
      <3> QED
        BY <1>6, <1>7, <2>4, <3>1 DEF Abstract!Map, Abstract!Set, Mappings
    <2> QED
      BY <1>1, <2>2, <2>5
  <1> QED
    BY <1>8, <1>9

LEMMA MapIsGood ==
    ASSUME VmeInv, ~halted, NEW s \in Spaces, NEW d \in Words, NEW w \in Words,
           NEW aligned \in BOOLEAN,
           NEW entry \in {None} \cup [to : Frames, user : {TRUE}, write : BOOLEAN],
           MapPage(s, d, w, aligned, entry)
    PROVE  Good
  <1>1. CASE Panic
    BY <1>1, PanicIsGood
  <1>2. CASE ~Panic
    <2>1. /\ Live(s) /\ d \in UserDirs /\ (Pte(s, d, w) = None) # (entry = None)
          /\ \E new \in Allocations(s, d) : Changes(s, d, w, entry, new)
      <3>1. Live(s) /\ d \in UserDirs /\ (Pte(s, d, w) = None) # (entry = None)
        BY <1>2 DEF MapPage
      <3>2. \E new \in Allocations(s, d) : Changes(s, d, w, entry, new)
        <4>1. \E new \in Allocations(s, d) :
                LET walked == Walk(s, d, new[1], new[2])
                IN /\ free' = free \ {new[1], new[2]}
                   /\ table' = [walked.table EXCEPT ![walked.leaf][w] = entry]
                   /\ ptr' = [ptr EXCEPT ![s] = walked.ptr]
                   /\ UNCHANGED <<kpt, origin, cr3, halted>>
          BY <1>2, <3>1 DEF MapPage
        <4> QED
          BY <4>1 DEF Changes
      <3> QED
        BY <3>1, <3>2
    <2>2. IsMapEntry(entry) /\ entry \in Entries \cup {None}
      <3>1. IsMapEntry(entry)
        BY MapEntries
      <3>2. \A f \in Frames, write \in BOOLEAN : Entry(f, TRUE, write) \in Entries
        BY ConstantFacts
      <3> QED
        BY <3>1, <3>2 DEF IsMapEntry
    <2>3. PICK new \in Allocations(s, d) : Changes(s, d, w, entry, new)
      BY <2>1
    <2>4. PICK dir \in Pages, leaf \in Pages : Writes(s, d, w, entry, dir, leaf)
      BY <2>1, <2>2, <2>3, WalkWrites
    <2>5. /\ TypeOK' /\ SpaceOK(s)' /\ Live(s)'
          /\ ptr'[s].present /\ ptr'[s].page = dir
          /\ Owned(s)' = (IF NoDir(s) THEN {} ELSE Owned(s)) \cup {dir, leaf}
          /\ NoDir(s) => origin[s] = "copyvm" /\ Owned(s) = {ptr[s].page}
                         /\ dir \in free /\ leaf \in free
          /\ \A x \in UserDirs, y \in Words :
               Pte(s, x, y)' = IF x = d /\ y = w THEN entry ELSE Pte(s, x, y)
      BY <2>1, <2>2, <2>4, MapFacts
    <2>6. /\ \A t \in Spaces \ {s} : ptr'[t] = ptr[t] /\ origin'[t] = origin[t] /\ cr3'[t] = cr3[t]
          /\ \A p \in Pages \ (free \cup Owned(s)) : table'[p] = table[p]
          /\ halted' = halted /\ kpt' = kpt /\ origin' = origin
          /\ dir \in free \cup Owned(s) /\ leaf \in free \cup Owned(s)
          /\ free' = free \ {dir, leaf} /\ Owned(s) \cap free = {}
      <3>1. /\ free' = free \ {dir, leaf} /\ kpt' = kpt /\ origin' = origin /\ cr3' = cr3
            /\ halted' = halted /\ ptr' = [ptr EXCEPT ![s] = [page |-> dir, present |-> TRUE]]
            /\ dir \in free \cup Owned(s) /\ leaf \in free \cup Owned(s)
            /\ \A p \in Pages \ {dir, leaf} : table'[p] = table[p]
        BY <2>4 DEF Writes
      <3>2. /\ ptr \in [Spaces -> [page : Pages \cup {NoPage}, present : BOOLEAN]]
            /\ Owned(s) \cap free = {}
        BY DEF VmeInv, TypeOK, PagesAreOwnedOnce
      <3>3. \A t \in Spaces \ {s} : ptr'[t] = ptr[t]
        BY <3>1, <3>2
      <3> QED
        BY <3>1, <3>2, <3>3
    <2>7. /\ Owned(s)' \subseteq Owned(s) \cup free /\ free' \subseteq free \cup Owned(s)
          /\ free' \cap Owned(s)' = {}
          /\ Dropped(s) = IF NoDir(s) THEN {ptr[s].page} ELSE {}
      BY <2>5, <2>6 DEF Dropped
    <2>11. origin'[s] = "copyvm" => cr3'[s] \in {NoPage, ptr'[s].page} \cup Lost \cup Dropped(s)
      <3>1. origin[s] = "copyvm" => cr3[s] \in {NoPage, ptr[s].page} \cup Lost
        BY DEF VmeInv, ContextOK
      <3>2. cr3'[s] = cr3[s] /\ (~NoDir(s) => ptr'[s].page = ptr[s].page)
        BY <2>4, <2>5 DEF Writes
      <3> QED
        BY <2>6, <2>7, <3>1, <3>2
    <2>8. /\ VmeInv'
          /\ \A t \in Spaces \ {s} :
               /\ Owned(t)' = Owned(t) /\ Live(t)' = Live(t)
               /\ Live(t) => \A x \in UserDirs, y \in Words : Pte(t, x, y)' = Pte(t, x, y)
          /\ Lost' = Lost \cup Dropped(s)
      BY <2>5, <2>6, <2>7, <2>11, StepKept
    <2>9. Lost' = Lost \/ LosesRoot(s)
      <3>1. CASE NoDir(s)
        BY <2>5, <2>7, <2>8, <3>1 DEF LosesRoot, NoDir
      <3>2. CASE ~NoDir(s)
        BY <2>7, <2>8, <3>2
      <3> QED
        BY <3>1, <3>2
    <2>10. \E va \in UserDirs \X Words :
              Abstract!Unmap(s, va) \/ \E to \in Abstract!Translation : Abstract!Map(s, va, to)
      BY <2>1, <2>2, <2>5, <2>8, OneTranslation
    <2> QED
      BY <2>6, <2>8, <2>9, <2>10 DEF Good, Abstract!SpaceNext
  <1> QED
    BY <1>1, <1>2

LEMMA StepIsGood ==
    VmeInv /\ [Next]_vars => Good
  <1> SUFFICES ASSUME VmeInv, [Next]_vars PROVE Good
    OBVIOUS
  <1>1. CASE Next
    <2>1. PICK s \in Spaces : Step(s)
      BY <1>1 DEF Next
    <2>2. ~halted
      BY <1>1 DEF Next
    <2>3. CASE \E d \in Words, w \in Words, aligned \in BOOLEAN :
                 \E entry \in {None} \cup [to : Frames, user : {TRUE}, write : BOOLEAN] :
                    MapPage(s, d, w, aligned, entry)
      BY <2>2, <2>3, MapIsGood
    <2> QED
      BY <2>1, <2>2, <2>3, ProtectIsGood, UnprotectIsGood, UcontextIsGood, CopyVmIsGood DEF Step
  <1>2. CASE UNCHANGED vars
    <2>1. UNCHANGED <<table, free, kpt, ptr, origin>> /\ cr3' = cr3 /\ halted' = halted
      BY <1>2 DEF vars
    <2>2. /\ KernelOK' /\ PagesAreOwnedOnce' /\ Lost' = Lost /\ Mappings' = Mappings
          /\ \A t \in Spaces : /\ Dir(t)' = Dir(t) /\ Tables(t)' = Tables(t) /\ Live(t)' = Live(t)
                               /\ DirOK(t)' <=> DirOK(t)
      BY <2>1, TablesKept
    <2>3. TypeOK'
      BY <2>1 DEF VmeInv, TypeOK
    <2>4. ASSUME NEW t \in Spaces
          PROVE  SpaceOK(t)'
      <3>1. SpaceOK(t)
        BY DEF VmeInv
      <3> QED
        BY <2>1, <2>2, <3>1 DEF SpaceOK
    <2> QED
      BY <2>1, <2>2, <2>3, <2>4 DEF Good, VmeInv, ContextOK
  <1> QED
    BY <1>1, <1>2

LEMMA InitIsGood ==
    Init => VmeInv /\ Abstract!SpaceInit
  <1> SUFFICES ASSUME Init PROVE VmeInv /\ Abstract!SpaceInit
    OBVIOUS
  <1>1. PICK dir \in Pages, kernel \in [KernelDirs -> Pages] :
          /\ \A d \in KernelDirs : kernel[d] # dir
          /\ kpt = dir
          /\ table = [p \in Pages |->
                        [w \in Words |-> IF p = dir /\ w \in KernelDirs
                                         THEN Entry(kernel[w], FALSE, TRUE) ELSE None]]
          /\ free = Pages \ ({dir} \cup {kernel[d] : d \in KernelDirs})
          /\ ptr = [s \in Spaces |-> NoPtr]
          /\ origin = [s \in Spaces |-> "none"]
          /\ cr3 = [s \in Spaces |-> NoPage]
          /\ halted = FALSE
    BY DEF Init
  <1>2. \A d \in KernelDirs : Entry(kernel[d], FALSE, TRUE) \in Entries
    BY <1>1, ConstantFacts
  <1>3. TypeOK
    <2>1. table \in [Pages -> [Words -> Entries \cup {None}]]
      BY <1>1, <1>2
    <2>2. NoPtr \in [page : Pages \cup {NoPage}, present : BOOLEAN]
      BY DEF NoPtr
    <2> QED
      BY <1>1, <2>1, <2>2 DEF TypeOK
  <1>4. ASSUME NEW d \in KernelDirs
        PROVE  /\ table[kpt][d] \in Entries /\ table[kpt][d] # None
               /\ ~table[kpt][d].user /\ table[kpt][d].to = kernel[d]
    <2>1. table[kpt][d] = Entry(kernel[d], FALSE, TRUE)
      BY <1>1, ConstantFacts
    <2>2. Entry(kernel[d], FALSE, TRUE).user = FALSE /\ Entry(kernel[d], FALSE, TRUE).to = kernel[d]
      BY DEF Entry
    <2> QED
      BY <1>2, <2>1, <2>2, ConstantFacts
  <1>5. KernelOK
    BY <1>4 DEF KernelOK
  <1>6. \A s \in Spaces : ~Live(s) /\ origin[s] = "none" /\ cr3[s] = NoPage /\ Owned(s) = {}
    BY <1>1 DEF Live, Owned
  <1>7. \A s \in Spaces : SpaceOK(s)
    BY <1>6 DEF SpaceOK
  <1>8. KernelPages = {dir} \cup {kernel[d] : d \in KernelDirs}
    <2>1. kpt = dir /\ \A d \in KernelDirs : table[kpt][d].to = kernel[d]
      BY <1>1, <1>4
    <2>2. {table[kpt][d].to : d \in KernelDirs} = {kernel[d] : d \in KernelDirs}
      BY <2>1
    <2> QED
      BY <2>1, <2>2 DEF KernelPages
  <1>9. PagesAreOwnedOnce
    BY <1>1, <1>6, <1>8 DEF PagesAreOwnedOnce
  <1>10. Abstract!SpaceInit
    <2>1. {t \in Spaces : Live(t)} = {}
      BY <1>6
    <2> QED
      BY <1>1, <2>1 DEF Abstract!SpaceInit
  <1> QED
    BY <1>3, <1>5, <1>6, <1>7, <1>9, <1>10 DEF VmeInv, ContextOK

LEMMA InvariantHolds == Spec => []VmeInv
  <1>1. VmeInv /\ [Next]_vars => VmeInv'
    BY StepIsGood DEF Good
  <1> QED
    BY <1>1, InitIsGood, PTL DEF Spec

-----------------------------------------------------------------------------
(* Theorems *)

\* Every word that vme.c writes is empty or an entry, and every pointer is
\* null or a page.
THEOREM TypeCorrect == Spec => []TypeOK
  <1>1. VmeInv => TypeOK
    BY DEF VmeInv
  <1> QED
    BY <1>1, InvariantHolds, PTL

\* Neither pgalloc, the kernel nor two spaces ever share a page (ptwalk,
\* teardown, vme.c).
THEOREM PagesHaveOneOwner == Spec => []PagesAreOwnedOnce
  <1>1. VmeInv => PagesAreOwnedOnce
    BY DEF VmeInv
  <1> QED
    BY <1>1, InvariantHolds, PTL

\* The processor finds the kernel in every space that protect made, however
\* often pages were mapped and unmapped (protect, ucontext, map), and the
\* context of a copy never points to a page that somebody else uses.
THEOREM SpacesCanRun == Spec => []SpaceCanRun
  <1>1. VmeInv => SpaceCanRun
    BY DEF VmeInv, SpaceOK, ContextOK, SpaceCanRun, Dir
  <1> QED
    BY <1>1, InvariantHolds, PTL

\* Every page that was allocated is found again by teardown, but those of
\* copyvm: the lower tables of a copy and, once, its root (vme.c).
THEOREM CopiesAloneLosePages == Spec => OnlyCopiesLosePages
  <1>1. VmeInv /\ [Next]_vars =>
          (Lost' = Lost \/ \E s \in Spaces : LosesLowerTables(s) \/ LosesRoot(s))
    BY StepIsGood DEF Good
  <1> QED
    BY <1>1, InvariantHolds, PTL DEF Spec, OnlyCopiesLosePages

\* Whatever pages the tables of the spaces are in, the spaces are
\* independent partial functions, which protect and copyvm create empty and
\* map changes one page at a time.
THEOREM MapsImplementAddressSpaces == Spec => ImplementsAddressSpaces
  <1>1. VmeInv /\ [Next]_vars => [Abstract!SpaceNext]_<<Mappings, halted>>
    BY StepIsGood DEF Good
  <1>2. VmeInv /\ [Next]_vars =>
          [Abstract!SpaceNext]_<<[s \in {t \in Spaces : Live(t)} |-> Mapping(s)], halted>>
    BY <1>1 DEF Mappings
  <1> QED
    BY <1>2, InitIsGood, InvariantHolds, PTL DEF Spec, ImplementsAddressSpaces, Abstract!SpaceSpec

=============================================================================
