\* A master and a slave that may be killed and restarted once; the slave may
\* attach before the segment is ready.
CONSTANTS
    Masters = {m}
    Slaves = {s}
    Singles = {}
    MapSize = 2
    MasterCycle = 1
    SlaveCycle = 2
    MaxSegments = 2
    MaxCrashes = 1
    m = m
    s = s
SPECIFICATION Spec
INVARIANTS
    VirginIsHonest
    MergesAreKept
PROPERTIES
    FindsSpread
