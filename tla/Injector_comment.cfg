\* Two threads and a file of six bytes: one call is duplicated, another thread
\* takes its slot, and the repetition draws an event of its own.
CONSTANTS
    Thread = {t1, t2}
    NoThread = NoThread
    MaxCalls = 2
    FileBytes = 6
SPECIFICATION Spec
INVARIANTS
    RepetitionSkipsEvent
