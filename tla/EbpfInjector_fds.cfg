\* Two threads, five descriptors on three entries.
CONSTANTS
    Task = {t1, t2}
    FD_SIZE = 3
    MaxFd = 4
    MaxOpens = 5
SPECIFICATION EbpfSpec
INVARIANTS
    FaultedWasWanted
    KeptIsFaulted
