\* Two tracers, two words of two locations; bytes of branchTraceBit have two
\* bits, so that counts wrap.
CONSTANTS
    Tracer = {t1, t2}
    W = 2
    WordSize = 2
    Words = 2
    MaxHits = 5
    MaxRuns = 2
SYMMETRY Symmetry
SPECIFICATION Spec
INVARIANTS
    MapIsHonest
    NoNeighbours
    ZeroIsClean
    
    KeptIsPaidFor

    
