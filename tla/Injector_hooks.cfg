\* Two threads of two calls each and a file of six bytes: a call can be
\* duplicated three times over, and each thread can take the other's slot.  No
\* symmetry, as one property is temporal.
CONSTANTS
    Thread = {t1, t2}
    NoThread = NoThread
    MaxCalls = 2
    FileBytes = 6
SPECIFICATION FairSpec
INVARIANTS
    SlotBelongsToItsCall
    DuplicatedExactlyOnce
    
PROPERTIES
    CallsReturn
