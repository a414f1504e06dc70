\* Every tracer, and every operator registered: two nodes and a new one, three
\* critical operators.
CONSTANTS
    NodeCount = 2
    MaxNodes = 3
    MaxStarts = 4
    GraceKill = TRUE
    NewNodes = TRUE
    NormalCount = 1
    CriticCount = 3
    NormalOps = 1
SPECIFICATION Spec
INVARIANTS
    CheckFailureHasCause
    CheckReportsMissing
    DeathsStayVisible
    StoppedNodesAreDown
    
    AbortHasCause
    CleanExitIsClean
PROPERTIES
    ImplementsRun
    RunEnds
