\* The driver as the child or behind a shell; two test cases, one location.
CONSTANTS
    Loc = {l1}
    MaxRuns = 2
SPECIFICATION Spec
INVARIANTS
    EveryFailureIsFiled
    AlarmIsOwn
    CoverageIsOwn
    
PROPERTY
    ExecutionEnds
