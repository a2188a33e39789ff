CONSTANTS
    NVectors = 2
    NStartup = 1
    Elem = {a, b}
    Garbage = g
    InitCap = 2
    FontSize = 1
    HeapSize = 11
SPECIFICATION Spec
INVARIANTS TypeOK ArraysAreDisjoint
PROPERTIES VectorsAreSequences EverySessionExhaustsTheHeap
CHECK_DEADLOCK FALSE
