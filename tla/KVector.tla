------------------------------- MODULE KVector -------------------------------
(***************************************************************************)
(* The growing arrays of lab3 (kvector.h) over its allocator (kalloc.c):   *)
(* kalloc moves a pointer through the heap, kfree does nothing.  Every     *)
(* element is one word.  The vectors are those of the editor: the first    *)
(* NStartup of them, of which 0 is the text buffer, are made by            *)
(* editor_init, which also loads three fonts; the others are lines made    *)
(* later.                                                                  *)
(***************************************************************************)
EXTENDS Integers, SequencesExt

CONSTANTS
    NVectors,   \* vectors alive at the same time; a bound
    NStartup,   \* the vectors editor_init makes
    Elem,       \* what a word may hold
    Garbage,    \* what a word of the fresh heap holds
    InitCap,    \* the capacity of a new vector, 8 in the code
    FontSize,   \* sizeof(FrameBufferTexture), in words
    HeapSize    \* heap.end - heap.start, in words

ASSUME KVectorAssumption ==
    /\ NVectors \in Nat /\ NStartup \in 1..NVectors
    /\ InitCap \in Nat \ {0}
    /\ FontSize \in Nat \ {0}
    /\ HeapSize \in Nat
    /\ Garbage \notin Elem

VARIABLES
    mem,       \* the words of the heap
    top,       \* the static pointer of kalloc
    vec,       \* the vectors: [arr, size, cap]
    fonts,     \* font_normal, font_red, font_highlight
    lowMemory, \* a font was written to address 0, outside of the heap
    halted     \* an assert failed

vars == <<mem, top, vec, fonts, lowMemory, halted>>

Vec == 0..NVectors - 1
Null == -1

\* A vector before Line_init and after Line_drop.
NoVector == [arr |-> Null, size |-> 0, cap |-> 0]
Live(v) == vec[v].arr # Null

-----------------------------------------------------------------------------
(* kalloc, memmove *)

\* Mutant: the end of the heap is tested one word too late.
MutantKallocOffByOne(t, size) ==
    IF t + size <= HeapSize + 1 THEN [ptr |-> t, top |-> t + size]
                                ELSE [ptr |-> Null, top |-> t]

\* What kalloc returns when its pointer is t, and the pointer after it.
Kalloc(t, size) ==
    IF t + size <= HeapSize THEN [ptr |-> t, top |-> t + size]
                            ELSE [ptr |-> Null, top |-> t]

\* Mutant: memmove copies upwards whatever the order of the addresses.
MutantMemmoveForward(m, dst, src, n) ==
    LET copied[k \in 0..n] ==
            IF k = 0 THEN m
            ELSE [copied[k - 1] EXCEPT ![dst + k - 1] = copied[k - 1][src + k - 1]]
    IN copied[n]

\* memmove copies upwards if the destination is below the source, else
\* downwards, one word after the other.
Memmove(m, dst, src, n) ==
    LET word(k) == IF dst <= src THEN k - 1 ELSE n - k
        copied[k \in 0..n] ==
            IF k = 0 THEN m
            ELSE [copied[k - 1] EXCEPT ![dst + word(k)] =
                                           copied[k - 1][src + word(k)]]
    IN copied[n]

-----------------------------------------------------------------------------
(* The operations of a vector *)

\* Mutant: __grow doubles the capacity but allocates an array of the old size.
MutantGrowAllocatesCap(v) ==
    LET r == vec[v]
        new == Kalloc(top, r.cap)
    IN CASE r.size # r.cap   -> [v |-> r, mem |-> mem, top |-> top, ok |-> TRUE]
         [] new.ptr = Null   -> [v |-> r, mem |-> mem, top |-> top, ok |-> FALSE]
         [] OTHER ->
              [v |-> [r EXCEPT !.arr = new.ptr, !.cap = 2 * r.cap],
               mem |-> Memmove(mem, new.ptr, r.arr, r.size),
               top |-> new.top, ok |-> TRUE]

\* The vector, the heap and its pointer as an insertion finds them:
\* __grow doubles a full vector and leaves the old array behind.
Room(v) ==
    LET r == vec[v]
        new == Kalloc(top, 2 * r.cap)
    IN CASE r.size # r.cap   -> [v |-> r, mem |-> mem, top |-> top, ok |-> TRUE]
         [] new.ptr = Null   -> [v |-> r, mem |-> mem, top |-> top, ok |-> FALSE]
         [] OTHER ->
              [v |-> [r EXCEPT !.arr = new.ptr, !.cap = 2 * r.cap],
               mem |-> Memmove(mem, new.ptr, r.arr, r.size),
               top |-> new.top, ok |-> TRUE]

\* assert failed: exit_safe stops the machine.
AssertFails == halted' = TRUE /\ UNCHANGED <<mem, top, vec, fonts, lowMemory>>

Line_init(v) ==
    LET a == Kalloc(top, InitCap)
    IN /\ ~Live(v)
       /\ \/ /\ a.ptr # Null
             /\ vec' = [vec EXCEPT ![v] = [arr |-> a.ptr, size |-> 0, cap |-> InitCap]]
             /\ top' = a.top
             /\ UNCHANGED <<mem, fonts, lowMemory, halted>>
          \/ a.ptr = Null /\ AssertFails

\* push_back and insert after their call of __grow.
Stored(v, pos, e) ==
    LET g == Room(v)
        moved == Memmove(g.mem, g.v.arr + pos + 1, g.v.arr + pos, g.v.size - pos)
    IN /\ g.ok
       /\ vec' = [vec EXCEPT ![v] = [g.v EXCEPT !.size = @ + 1]]
       /\ mem' = [moved EXCEPT ![g.v.arr + pos] = e]
       /\ top' = g.top
       /\ UNCHANGED <<fonts, lowMemory, halted>>

Insert(v, pos, e) ==
    /\ Live(v)
    /\ pos \in 0..vec[v].size
    /\ Stored(v, pos, e) \/ (~Room(v).ok /\ AssertFails)

PushBack(v, e) == Insert(v, vec[v].size, e)

Resize(v, size) ==
    /\ Live(v)
    /\ vec' = [vec EXCEPT ![v].size = size]
    /\ UNCHANGED <<top, fonts, lowMemory, halted>>

PopBack(v) == vec[v].size > 0 /\ Resize(v, vec[v].size - 1) /\ UNCHANGED mem

Erase(v, pos) ==
    LET r == vec[v]
    IN /\ pos \in 0..r.size - 1
       /\ mem' = Memmove(mem, r.arr + pos, r.arr + pos + 1, r.size - pos - 1)
       /\ Resize(v, r.size - 1)

Clear(v) == Resize(v, 0) /\ UNCHANGED mem

\* kfree does nothing: the array stays allocated.
Drop(v) ==
    /\ Live(v)
    /\ vec' = [vec EXCEPT ![v] = NoVector]
    /\ UNCHANGED <<mem, top, fonts, lowMemory, halted>>

-----------------------------------------------------------------------------
(* The editor's use of the heap *)

\* kalloc's pointer after n vectors of editor_init.
TopAfter[n \in 0..NStartup] ==
    IF n = 0 THEN 0 ELSE TopAfter[n - 1] + InitCap

\* Mutant: a clearing puts vectors and fonts where those of the first one are.
MutantInitReusesMemory(e) ==
    LET end == TopAfter[NStartup]
    IN /\ vec' = [v \in Vec |->
                     IF v < NStartup
                     THEN [arr |-> TopAfter[v], cap |-> InitCap,
                           size |-> IF v = 0 THEN 1 ELSE 0]
                     ELSE NoVector]
       /\ mem' = [mem EXCEPT ![0] = e]
       /\ fonts' = [f \in 1..3 |-> end + (f - 1) * FontSize]
       /\ top' = IF top = 0 THEN end + 3 * FontSize ELSE top
       /\ UNCHANGED <<lowMemory, halted>>

\* editor_init, at the start and whenever the text is cleared: it drops
\* none of the old vectors, makes new ones, puts the first line (e) into
\* the buffer and loads three fonts.  framebuffer_load_font does not test
\* the pointer that kalloc returns: a font that does not fit is written to
\* address 0.
EditorInit(e) ==
    LET start(v) == top + TopAfter[v]
        fits == start(NStartup) <= HeapSize
        f1 == Kalloc(start(NStartup), FontSize)
        f2 == Kalloc(f1.top, FontSize)
        f3 == Kalloc(f2.top, FontSize)
    IN \/ /\ fits
          /\ vec' = [v \in Vec |->
                        IF v < NStartup
                        THEN [arr |-> start(v), cap |-> InitCap,
                              size |-> IF v = 0 THEN 1 ELSE 0]
                        ELSE NoVector]
          /\ mem' = [mem EXCEPT ![start(0)] = e]
          /\ fonts' = <<f1.ptr, f2.ptr, f3.ptr>>
          /\ lowMemory' = (lowMemory \/ f3.ptr = Null)
          /\ top' = f3.top
          /\ UNCHANGED halted
       \/ ~fits /\ AssertFails

Init ==
    /\ mem = [a \in 0..HeapSize - 1 |-> Garbage]
    /\ top = 0
    /\ vec = [v \in Vec |-> NoVector]
    /\ fonts = <<Null, Null, Null>>
    /\ lowMemory = FALSE
    /\ halted = FALSE

VectorStep(v) ==
    \/ Line_init(v)
    \/ PopBack(v)
    \/ Clear(v)
    \/ Drop(v)
    \/ \E e \in Elem : PushBack(v, e)
    \/ \E pos \in 0..HeapSize, e \in Elem : Insert(v, pos, e)
    \/ \E pos \in 0..HeapSize : Erase(v, pos)

ClearText == \E e \in Elem : EditorInit(e)

\* The vectors are used between the first editor_init and an assertion.
Started == fonts # <<Null, Null, Null>> \/ lowMemory

Next ==
    /\ ~halted
    /\ \/ Started /\ \E v \in Vec : VectorStep(v)
       \/ ClearText

\* The text is cleared every 20 seconds unless it is searched: property
\* TextIsCleared of module Editor.
Spec == Init /\ [][Next]_vars /\ WF_vars(~halted /\ ClearText)

-----------------------------------------------------------------------------
(* Properties *)

Words(a, n) == a .. a + n - 1

TypeOK ==
    /\ mem \in [0..HeapSize - 1 -> Elem \cup {Garbage}]
    /\ top \in 0..HeapSize
    /\ vec \in [Vec -> [arr : 0..HeapSize \cup {Null}, size : Nat, cap : Nat]]
    /\ fonts \in [1..3 -> 0..HeapSize \cup {Null}]
    /\ lowMemory \in BOOLEAN
    /\ halted \in BOOLEAN

\* No two of the live arrays and fonts share a word, all of them lie in the
\* allocated part of the heap and no vector holds more than its array: an
\* insertion into one vector (kvector.h) never changes another one or a
\* glyph, as long as all fonts were found room for (kalloc.c).
ArraysAreDisjoint ==
    LET areas == [v \in {w \in Vec : Live(w)} |-> Words(vec[v].arr, vec[v].cap)]
        glyphs == [f \in {g \in 1..3 : fonts[g] # Null} |-> Words(fonts[f], FontSize)]
    IN /\ \A v \in DOMAIN areas : /\ areas[v] \subseteq 0..top - 1
                                  /\ vec[v].size <= vec[v].cap
                                  /\ \A w \in DOMAIN areas \ {v} : areas[v] \cap areas[w] = {}
                                  /\ \A f \in DOMAIN glyphs : areas[v] \cap glyphs[f] = {}
       /\ \A f \in DOMAIN glyphs, g \in DOMAIN glyphs :
             f # g => glyphs[f] \cap glyphs[g] = {}

\* The elements of a vector, in order.
Content(v) == [i \in 1..vec[v].size |-> mem[vec[v].arr + i - 1]]

Abstract == INSTANCE VectorSpec WITH content <- [v \in Vec |-> Content(v)]

\* Every vector behaves as a sequence: push_back, insert, erase, pop_back
\* and clear, with the growth of the array and the moves of its tail
\* (kvector.h:44-103), change the elements as the operations on sequences do
\* and leave every other vector alone.
VectorsAreSequences == Abstract!SeqSpec

\* Because kfree (kalloc.c:19) gives nothing back and every clearing of the
\* text allocates vectors and fonts again, every session that lasts ends in
\* a halt by an assertion or, before that, in fonts that are written to
\* address 0.
EverySessionExhaustsTheHeap == <>(lowMemory \/ halted)

=============================================================================
