--------------------------------- MODULE Vme ---------------------------------
(***************************************************************************)
(* Virtual memory (lab3, vme.c) as built for 32 bits: a space is a page    *)
(* directory whose entries point to page tables whose entries point to     *)
(* frames.  The callers are not in the repository: they are taken to use   *)
(* a space between protect or copyvm and unprotect, and a context while    *)
(* its space exists.                                                       *)
(***************************************************************************)
EXTENDS Integers, FiniteSets

CONSTANTS
    Pages,       \* the pages pgalloc hands out
    Spaces,      \* the AddrSpace objects of the callers
    Words,       \* the indices of the words of a page
    KernelDirs,  \* the indices of the kernel's areas in a directory
    Frames,      \* the frames of the users
    None,        \* a word without PTE_P
    NoPage

ASSUME VmeAssumption ==
    /\ IsFiniteSet(Pages) /\ IsFiniteSet(Words) /\ KernelDirs \subseteq Words
    /\ NoPage \notin Pages
    /\ None \notin [to : Pages \cup Frames, user : BOOLEAN, write : BOOLEAN]

VARIABLES
    table,    \* the words of the pages
    free,     \* the pages that pgalloc may return
    kpt,      \* the directory of the kernel
    ptr,      \* as->ptr: [page, present], present being the bit PTE_P
    origin,   \* what made the space: "protect", "copyvm" or "none"
    cr3,      \* the directory in the context of the space, made by ucontext
    halted    \* a panic

vars == <<table, free, kpt, ptr, origin, cr3, halted>>

UserDirs == Words \ KernelDirs
Entry(to, user, write) == [to |-> to, user |-> user, write |-> write]
Zeroed == [w \in Words |-> None]
NoPtr == [page |-> NoPage, present |-> FALSE]

Panic == halted' = TRUE /\ UNCHANGED <<table, free, kpt, ptr, origin, cr3>>

-----------------------------------------------------------------------------
(* ptwalk *)

\* A missing directory or page table is allocated on the way.
NoDir(s)      == ~ptr[s].present
NoTable(s, d) == NoDir(s) \/ table[ptr[s].page][d] = None

\* Mutant: nobody tests whether pgalloc returns a page.
MutantAllocationsUntested(s, d) ==
    LET pages == free \cup {NoPage}
    IN {p \in pages \X pages : p[1] # p[2] \/ free = {}}

\* What pgalloc may return for a directory and for a page table; NoPage if
\* ptwalk does not ask.
Allocations(s, d) ==
    {p \in ((IF NoDir(s) THEN free ELSE {NoPage}) \X (IF NoTable(s, d) THEN free ELSE {NoPage})) :
        NoDir(s) => p[1] # p[2]}

\* The words after ptwalk, the space's pointer and the page table reached.
\* New entries get the flags PTE_W | PTE_U of map.
Walk(s, d, a, b) ==
    LET dir  == IF NoDir(s) THEN a ELSE ptr[s].page
        leaf == IF NoTable(s, d) THEN b ELSE table[dir][d].to
        base == IF NoDir(s) THEN Zeroed ELSE table[dir]
    IN [ptr  |-> [page |-> dir, present |-> TRUE],
        leaf |-> leaf,
        table |-> IF NoTable(s, d)
                  THEN [table EXCEPT ![dir] = [base EXCEPT ![d] = Entry(b, TRUE, TRUE)],
                                     ![b] = Zeroed]
                  ELSE table]

\* The entry ptwalk finds, without the pages it would allocate.
Pte(s, d, w) == IF NoTable(s, d) THEN None ELSE table[table[ptr[s].page][d].to][w]

-----------------------------------------------------------------------------
(* Operations *)

Live(s) == origin[s] # "none"

\* Mutant: the entries of the kernel are not copied.
MutantProtectBare(s) ==
    \E upt \in free :
        /\ ~Live(s)
        /\ free' = free \ {upt}
        /\ table' = [table EXCEPT ![upt] = Zeroed]
        /\ ptr' = [ptr EXCEPT ![s] = [page |-> upt, present |-> TRUE]]
        /\ origin' = [origin EXCEPT ![s] = "protect"]
        /\ UNCHANGED <<kpt, cr3, halted>>

Protect(s) ==
    /\ ~Live(s)
    /\ \/ \E upt \in free :
            /\ free' = free \ {upt}
            /\ table' = [table EXCEPT ![upt] =
                            [w \in Words |-> IF w \in KernelDirs THEN table[kpt][w] ELSE None]]
            /\ ptr' = [ptr EXCEPT ![s] = [page |-> upt, present |-> TRUE]]
            /\ origin' = [origin EXCEPT ![s] = "protect"]
            /\ UNCHANGED <<kpt, cr3, halted>>
       \/ free = {} /\ Panic

\* Mutant: teardown does not test PTE_U and frees the kernel's tables too.
MutantTornDownKernel(s) ==
    LET dir == table[ptr[s].page]
    IN IF ptr[s].present
       THEN {ptr[s].page} \cup {dir[d].to : d \in {w \in Words : dir[w] # None}}
       ELSE {}

\* Mutant: teardown does not descend.
MutantTornDownFlat(s) == IF ptr[s].present THEN {ptr[s].page} ELSE {}

\* teardown frees the directory and the tables the user may reach; the
\* frames belong to the callers.
TornDown(s) ==
    LET dir == table[ptr[s].page]
    IN IF ptr[s].present
       THEN {ptr[s].page} \cup
            {dir[d].to : d \in {w \in Words : dir[w] # None /\ dir[w].user}}
       ELSE {}

\* as->ptr keeps its value: only a caller that stops using the space is safe.
\* What is in a free page is pgfree's business; pgallocz zeroes it anyway.
Unprotect(s) ==
    /\ Live(s)
    /\ free' = free \cup TornDown(s)
    /\ table' = [p \in Pages |-> IF p \in TornDown(s) THEN Zeroed ELSE table[p]]
    /\ origin' = [origin EXCEPT ![s] = "none"]
    /\ cr3' = [cr3 EXCEPT ![s] = NoPage]
    /\ UNCHANGED <<kpt, ptr, halted>>

\* Mutant: a page may be mapped again, or unmapped twice.
MutantMapPageAgain(s, d, w, aligned, entry) ==
    /\ Live(s)
    /\ IF d \notin UserDirs \/ ~aligned \/ Allocations(s, d) = {}
       THEN Panic
       ELSE \E new \in Allocations(s, d) :
              LET walked == Walk(s, d, new[1], new[2])
              IN /\ free' = free \ {new[1], new[2]}
                 /\ table' = [walked.table EXCEPT ![walked.leaf][w] = entry]
                 /\ ptr' = [ptr EXCEPT ![s] = walked.ptr]
                 /\ UNCHANGED <<kpt, origin, cr3, halted>>

\* map: entry None for MMAP_NONE.  The second ptwalk at its end finds all
\* tables.  An address outside of the user's area (offset or d) panics.
MapPage(s, d, w, aligned, entry) ==
    /\ Live(s)
    /\ IF d \notin UserDirs \/ ~aligned \/ (Pte(s, d, w) = None) = (entry = None)
          \/ Allocations(s, d) = {}
       THEN Panic
       ELSE \E new \in Allocations(s, d) :
              LET walked == Walk(s, d, new[1], new[2])
              IN /\ free' = free \ {new[1], new[2]}
                 /\ table' = [walked.table EXCEPT ![walked.leaf][w] = entry]
                 /\ ptr' = [ptr EXCEPT ![s] = walked.ptr]
                 /\ UNCHANGED <<kpt, origin, cr3, halted>>

\* copyvm(dst, src).  The flag bits of src->ptr are not masked, so that the
\* words are read across two entries, at an offset that depends on what made
\* the pointer (protect or the first map of a copy; that of a copy without
\* pages has no flags).  For every word, "| PTE_P" being true, a page is
\* filled at the second level and its address dropped; following the word
\* may fault.  The pointer of the copy has no PTE_P: what its directory holds
\* is never read but by a copy of the copy, and Zeroed stands for it.
CopyVm(dst, src) ==
    /\ ~Live(dst) /\ Live(src)
    /\ \/ \E pages \in SUBSET free, root \in free :
            /\ Cardinality(pages) = 1 + Cardinality(Words)
            /\ root \in pages
            /\ free' = free \ pages
            /\ table' = [p \in Pages |-> IF p \in pages THEN Zeroed ELSE table[p]]
            /\ ptr' = [ptr EXCEPT ![dst] = [page |-> root, present |-> FALSE]]
            /\ origin' = [origin EXCEPT ![dst] = "copyvm"]
            /\ UNCHANGED <<kpt, cr3, halted>>
       \/ Panic

\* ucontext stores as->ptr; the processor masks the flag bits.
Ucontext(s) ==
    /\ Live(s)
    /\ cr3' = [cr3 EXCEPT ![s] = ptr[s].page]
    /\ UNCHANGED <<table, free, kpt, ptr, origin, halted>>

-----------------------------------------------------------------------------

\* vme_init: a page table for every word of the kernel's areas, without
\* PTE_U.
Init ==
    \E dir \in Pages, kernel \in [KernelDirs -> Pages] :
        /\ \A d \in KernelDirs : kernel[d] # dir /\ \A e \in KernelDirs \ {d} : kernel[d] # kernel[e]
        /\ kpt = dir
        /\ table = [p \in Pages |->
                      [w \in Words |-> IF p = dir /\ w \in KernelDirs
                                       THEN Entry(kernel[w], FALSE, TRUE) ELSE None]]
        /\ free = Pages \ ({dir} \cup {kernel[d] : d \in KernelDirs})
        /\ ptr = [s \in Spaces |-> NoPtr]
        /\ origin = [s \in Spaces |-> "none"]
        /\ cr3 = [s \in Spaces |-> NoPage]
        /\ halted = FALSE

Step(s) ==
    \/ Protect(s)
    \/ Unprotect(s)
    \/ Ucontext(s)
    \/ \E src \in Spaces : CopyVm(s, src)
    \/ \E d \in Words, w \in Words, aligned \in BOOLEAN :
          \E entry \in {None} \cup [to : Frames, user : {TRUE}, write : BOOLEAN] :
              MapPage(s, d, w, aligned, entry)

Next == ~halted /\ \E s \in Spaces : Step(s)

Spec == Init /\ [][Next]_vars

-----------------------------------------------------------------------------
(* Properties *)

Entries == [to : Pages \cup Frames, user : BOOLEAN, write : BOOLEAN]

TypeOK ==
    /\ table \in [Pages -> [Words -> Entries \cup {None}]]
    /\ free \subseteq Pages
    /\ kpt \in Pages
    /\ ptr \in [Spaces -> [page : Pages \cup {NoPage}, present : BOOLEAN]]
    /\ origin \in [Spaces -> {"none", "protect", "copyvm"}]
    /\ cr3 \in [Spaces -> Pages \cup {NoPage}]
    /\ halted \in BOOLEAN

\* The pages of the kernel and those that the pointer of a space leads to.
KernelPages == {kpt} \cup {table[kpt][d].to : d \in KernelDirs}
Owned(s) == IF Live(s) THEN {ptr[s].page} \cup TornDown(s) ELSE {}

\* No page is used twice: by two spaces, by a space and the kernel, or by
\* any of them and pgalloc (ptwalk, teardown): what one caller maps is
\* never seen through the tables of another one.
PagesAreOwnedOnce ==
    /\ free \cap KernelPages = {}
    /\ \A s \in Spaces : /\ Owned(s) \cap (free \cup KernelPages) = {}
                         /\ \A t \in Spaces \ {s} : Owned(s) \cap Owned(t) = {}

Lost == Pages \ (free \cup KernelPages \cup UNION {Owned(s) : s \in Spaces})

\* copyvm drops the addresses of the lower tables, one for each word.
LosesLowerTables(s) ==
    /\ ~Live(s) /\ origin'[s] = "copyvm"
    /\ Lost \subseteq Lost' /\ Cardinality(Lost' \ Lost) = Cardinality(Words)

\* The root of a copy has no PTE_P: unprotect passes it over and the first
\* map replaces it.
LosesRoot(s) ==
    /\ origin[s] = "copyvm" /\ ~ptr[s].present
    /\ origin'[s] = "none" \/ ptr'[s].present
    /\ Lost' = Lost \cup {ptr[s].page}

\* Pages are lost in two ways only, both of a copy (vme.c:178-197): making
\* it loses a page for each word, and its root is lost once.  What protect
\* and map allocate teardown finds again, of a copy too.
OnlyCopiesLosePages ==
    [][Lost' = Lost \/ \E s \in Spaces : LosesLowerTables(s) \/ LosesRoot(s)]_vars

\* Every space made by protect holds the kernel's entries and its context
\* the directory that map changes, so that the processor may switch to it.
\* A copy has neither (vme.c:197): a context made before its first map keeps
\* a directory that is lost, but none that pgalloc handed out again.
SpaceCanRun ==
    \A s \in Spaces :
        /\ origin[s] = "protect" =>
              /\ \A d \in KernelDirs : table[ptr[s].page][d] = table[kpt][d]
              /\ cr3[s] \in {NoPage, ptr[s].page}
        /\ origin[s] = "copyvm" => cr3[s] \in {NoPage, ptr[s].page} \cup Lost

\* The translations of a space.
Mapping(s) ==
    LET mapped == {va \in UserDirs \X Words : Pte(s, va[1], va[2]) # None}
    IN [va \in mapped |-> [frame |-> Pte(s, va[1], va[2]).to,
                           write |-> Pte(s, va[1], va[2]).write]]

Abstract == INSTANCE AddressSpace WITH
    VirtualPages <- UserDirs \X Words,
    mapping <- [s \in {t \in Spaces : Live(t)} |-> Mapping(s)],
    stopped <- halted

\* The tables of all spaces together behave as one partial function per
\* space: what map, unprotect and protect do to one space changes no
\* translation of another one (vme.c).
ImplementsAddressSpaces == Abstract!SpaceSpec

=============================================================================
