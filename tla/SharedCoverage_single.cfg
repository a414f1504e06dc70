\* One fuzzer, started without -M and -S.
CONSTANTS
    Masters = {}
    Slaves = {}
    Singles = {f}
    MapSize = 1
    MasterCycle = 2
    SlaveCycle = 3
    MaxSegments = 1
    MaxCrashes = 0
    f = f
SPECIFICATION Spec
INVARIANTS
    SurvivesWithoutSync
