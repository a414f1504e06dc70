\* Two runs with two clients each, and room for one message.
CONSTANTS
    Client = {k1, k2}
    MaxQueue = 1
    MaxRuns = 2
SPECIFICATION Spec
INVARIANTS
    ResultFollowsInvoke
    QuietRunLosesNothing
PROPERTY
    SendEnds
