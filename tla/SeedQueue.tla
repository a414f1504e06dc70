----------------------------- MODULE SeedQueue ------------------------------
(***************************************************************************)
(* The seed queue of the fuzzer: the dry run that calibrates the initial   *)
(* seeds (DryRunning, CalibrateCase), the table of the cheapest seed for   *)
(* each coverage location (UpdateQueueTop), the choice of the favored      *)
(* seeds (CullQueue) and the main loop that fuzzes or skips a seed and     *)
(* appends what it finds (main, FuzzMain, AddInterestingSeed).             *)
(*                                                                         *)
(* Loops over the coverage map are one action per location.  A seed is its *)
(* position in the queue, which only grows; 0 stands for queue.end().  The *)
(* build defines NO_CONCURRENCY_FUZZ and NO_FUZZING_ERROR.                 *)
(***************************************************************************)
EXTENDS Integers, FiniteSets

CONSTANTS
    MapSize,       \* MAP_SIZE
    InitialSeeds,  \* files in the input directory
    MaxQueue,      \* bound on the length of the queue
    Scores         \* values of execTime * fileLen

ASSUME QueueAssumption ==
    /\ MapSize \in Nat \ {0}
    /\ InitialSeeds \in Nat \ {0}
    /\ MaxQueue \in Nat /\ InitialSeeds <= MaxQueue
    /\ Scores \subseteq Nat /\ Scores # {}

Loc == 0 .. (MapSize - 1)
Seed == 1 .. MaxQueue
End == 0

VARIABLES
    pc,            \* "dry", "update", "cull", "culling", "pick" or "fuzz"
    size,          \* queue.size()
    cur,           \* q of DryRunning, then queueCur; size + 1 is the end
    i,             \* the loop index of UpdateQueueTop and CullQueue
    globalTraceBit,  \* the locations hit by the last run
    score,         \* execTime * fileLen
    hasTrace,      \* trace != NULL
    trace,         \* *trace
    topCount,
    queueTop,
    favored, wasFuzzed, scoreChange, pendFavor, traceRecord,
    cov            \* history: what the seed hit when it was calibrated

top == <<hasTrace, trace, topCount, queueTop>>
cull == <<favored, pendFavor, traceRecord>>
vars == <<pc, size, cur, i, globalTraceBit, score, top, cull, wasFuzzed,
          scoreChange, cov>>

Init ==
    /\ pc = "dry"
    /\ size = InitialSeeds /\ cur = 1 /\ i = 0
    /\ globalTraceBit = {}
    /\ score = [s \in Seed |-> 0]
    /\ hasTrace = [s \in Seed |-> FALSE]
    /\ trace = [s \in Seed |-> {}]
    /\ topCount = [s \in Seed |-> 0]
    /\ queueTop = [l \in Loc |-> End]
    /\ favored = [s \in Seed |-> FALSE]
    /\ wasFuzzed = [s \in Seed |-> FALSE]
    /\ scoreChange = FALSE /\ pendFavor = FALSE
    /\ traceRecord = {}
    /\ cov = [s \in Seed |-> {}]

-----------------------------------------------------------------------------
(***************************************************************************)
(* The dry run                                                             *)
(***************************************************************************)

\* CalibrateCase: the run ends without a fault and the seed is rated.
CalibrateCase ==
    /\ pc = "dry" /\ cur <= size
    /\ \E bits \in SUBSET Loc, n \in Scores :
           /\ globalTraceBit' = bits
           /\ score' = [score EXCEPT ![cur] = n]
           /\ cov' = [cov EXCEPT ![cur] = bits]
    /\ pc' = "update" /\ i' = 0
    /\ UNCHANGED <<size, cur, top, cull, wasFuzzed, scoreChange>>

\* The run crashes or times out: the seed stays in the queue, unrated.
CalibrateFault ==
    /\ pc = "dry" /\ cur <= size
    /\ \E bits \in SUBSET Loc : globalTraceBit' = bits
    /\ cur' = cur + 1
    /\ UNCHANGED <<pc, size, i, score, top, cull, wasFuzzed, scoreChange, cov>>

\* A faulty comparison: the first seed of a location stays its top.
ReplacesFirst == i \in globalTraceBit /\ queueTop[i] = End

\* Does the seed at cur replace the present top of location i?
Replaces ==
    /\ i \in globalTraceBit
    /\ (queueTop[i] # End => score[cur] <= score[queueTop[i]])

\* A faulty update that forgets to count the location out of its old top.
UpdateKeepsOldCount ==
    /\ pc = "update" /\ i < MapSize /\ Replaces
    /\ queueTop' = [queueTop EXCEPT ![i] = cur]
    /\ topCount' = [topCount EXCEPT ![cur] = @ + 1]
    /\ hasTrace' = [hasTrace EXCEPT ![cur] = TRUE]
    /\ trace' = [trace EXCEPT ![cur] = IF hasTrace[cur] THEN @ ELSE globalTraceBit]
    /\ scoreChange' = TRUE
    /\ i' = i + 1
    /\ UNCHANGED <<pc, size, cur, globalTraceBit, score, cull, wasFuzzed, cov>>

\* One location of UpdateQueueTop whose top changes.  The old top loses its
\* trace with its last location; MinimizeBit builds the trace of the new one.
UpdateQueueTop ==
    /\ pc = "update" /\ i < MapSize /\ Replaces
    /\ LET old == queueTop[i]
           dec == IF old = End THEN topCount ELSE [topCount EXCEPT ![old] = @ - 1]
           kept == [s \in Seed |-> hasTrace[s] /\ ~(s = old /\ dec[s] = 0)]
       IN  /\ queueTop' = [queueTop EXCEPT ![i] = cur]
           /\ topCount' = [dec EXCEPT ![cur] = @ + 1]
           /\ hasTrace' = [kept EXCEPT ![cur] = TRUE]
           /\ trace' = [trace EXCEPT ![cur] = IF kept[cur] THEN @ ELSE globalTraceBit]
    /\ scoreChange' = TRUE
    /\ i' = i + 1
    /\ UNCHANGED <<pc, size, cur, globalTraceBit, score, cull, wasFuzzed, cov>>

UpdateSkips ==
    /\ pc = "update" /\ i < MapSize /\ ~Replaces
    /\ i' = i + 1
    /\ UNCHANGED <<pc, size, cur, globalTraceBit, score, top, cull, wasFuzzed,
                   scoreChange, cov>>

UpdateDone ==
    /\ pc = "update" /\ i = MapSize
    /\ pc' = "dry" /\ cur' = cur + 1
    /\ UNCHANGED <<size, i, globalTraceBit, score, top, cull, wasFuzzed,
                   scoreChange, cov>>

\* queueCur was set to the first seed before the dry run.
DryRunDone ==
    /\ pc = "dry" /\ cur > size
    /\ pc' = "cull" /\ cur' = 1
    /\ UNCHANGED <<size, i, globalTraceBit, score, top, cull, wasFuzzed,
                   scoreChange, cov>>

-----------------------------------------------------------------------------
(***************************************************************************)
(* CullQueue                                                               *)
(***************************************************************************)

CullNothing ==
    /\ pc = "cull" /\ ~scoreChange
    /\ pc' = "pick"
    /\ UNCHANGED <<size, cur, i, globalTraceBit, score, top, cull, wasFuzzed,
                   scoreChange, cov>>

CullQueue ==
    /\ pc = "cull" /\ scoreChange
    /\ pc' = "culling" /\ i' = 0
    /\ scoreChange' = FALSE /\ pendFavor' = FALSE
    /\ traceRecord' = {}
    /\ favored' = [s \in Seed |-> FALSE]
    /\ UNCHANGED <<size, cur, globalTraceBit, score, top, wasFuzzed, cov>>

\* Faulty loop bodies: one whose test of wasFuzzed is inverted, one that marks
\* the next location as covered too.
CullLocationFuzzed ==
    /\ pc = "culling" /\ i < MapSize
    /\ IF queueTop[i] # End /\ i \notin traceRecord
         THEN LET s == queueTop[i]
              IN  /\ traceRecord' = traceRecord \cup (IF hasTrace[s] THEN trace[s] ELSE {})
                  /\ favored' = [favored EXCEPT ![s] = TRUE]
                  /\ pendFavor' = (pendFavor \/ wasFuzzed[s])
         ELSE UNCHANGED cull
    /\ i' = i + 1
    /\ UNCHANGED <<pc, size, cur, globalTraceBit, score, top, wasFuzzed,
                   scoreChange, cov>>
CullLocationMarksNext ==
    /\ pc = "culling" /\ i < MapSize
    /\ IF queueTop[i] # End /\ i \notin traceRecord
         THEN LET s == queueTop[i]
              IN  /\ traceRecord' = traceRecord \cup {i, i + 1}
                  /\ favored' = [favored EXCEPT ![s] = TRUE]
                  /\ pendFavor' = (pendFavor \/ ~wasFuzzed[s])
         ELSE UNCHANGED cull
    /\ i' = i + 1
    /\ UNCHANGED <<pc, size, cur, globalTraceBit, score, top, wasFuzzed,
                   scoreChange, cov>>

\* One location of CullQueue: its top is favored unless a favored seed already
\* hits it.
CullLocation ==
    /\ pc = "culling" /\ i < MapSize
    /\ IF queueTop[i] # End /\ i \notin traceRecord
         THEN LET s == queueTop[i]
              IN  /\ traceRecord' = traceRecord \cup (IF hasTrace[s] THEN trace[s] ELSE {})
                  /\ favored' = [favored EXCEPT ![s] = TRUE]
                  /\ pendFavor' = (pendFavor \/ ~wasFuzzed[s])
         ELSE UNCHANGED cull
    /\ i' = i + 1
    /\ UNCHANGED <<pc, size, cur, globalTraceBit, score, top, wasFuzzed,
                   scoreChange, cov>>

CullDone ==
    /\ pc = "culling" /\ i = MapSize
    /\ pc' = "pick"
    /\ UNCHANGED <<size, cur, i, globalTraceBit, score, top, cull, wasFuzzed,
                   scoreChange, cov>>

-----------------------------------------------------------------------------
(***************************************************************************)
(* The main loop                                                           *)
(***************************************************************************)

\* queueCur, which starts a new cycle at the end of the queue.
Current == IF cur > size THEN 1 ELSE cur

\* A faulty test that lets any seed be skipped while favored ones wait.
MaySkipFavored(s) == pendFavor \/ ~favored[s]

\* FuzzMain may skip a seed, with a probability that depends on the case.
MaySkip(s) == IF pendFavor THEN wasFuzzed[s] \/ ~favored[s] ELSE ~favored[s]

Skip ==
    /\ pc = "pick" /\ MaySkip(Current)
    /\ pc' = "cull" /\ cur' = Current + 1
    /\ UNCHANGED <<size, i, globalTraceBit, score, top, cull, wasFuzzed,
                   scoreChange, cov>>

FuzzMain ==
    /\ pc = "pick"
    /\ pc' = "fuzz" /\ cur' = Current
    /\ UNCHANGED <<size, i, globalTraceBit, score, top, cull, wasFuzzed,
                   scoreChange, cov>>

\* FuzzUnit runs an input; AddInterestingSeed appends it to the queue if it hit
\* something new, with execTime 1 and no calibration.
AddInterestingSeed ==
    /\ pc = "fuzz" /\ size < MaxQueue
    /\ size' = size + 1
    /\ \E n \in Scores : score' = [score EXCEPT ![size + 1] = n]
    /\ \E bits \in SUBSET Loc : globalTraceBit' = bits
    /\ UNCHANGED <<pc, cur, i, top, cull, wasFuzzed, scoreChange, cov>>

\* All stages are done.  main does not call SychronizeFuzzer: sync_cov is 1.
FuzzMainDone ==
    /\ pc = "fuzz"
    /\ wasFuzzed' = [wasFuzzed EXCEPT ![cur] = TRUE]
    /\ pc' = "cull" /\ cur' = cur + 1
    /\ UNCHANGED <<size, i, globalTraceBit, score, top, cull, scoreChange, cov>>

\* A stage fails (FUZZING_ERROR): the seed does not count as fuzzed.
FuzzMainError ==
    /\ pc = "fuzz"
    /\ pc' = "cull" /\ cur' = cur + 1
    /\ UNCHANGED <<size, i, globalTraceBit, score, top, cull, wasFuzzed,
                   scoreChange, cov>>

DryRunning == \/ CalibrateCase \/ CalibrateFault \/ UpdateQueueTop
              \/ UpdateSkips \/ UpdateDone \/ DryRunDone
Culling == CullNothing \/ CullQueue \/ CullLocation \/ CullDone
Fuzzing == Skip \/ FuzzMain \/ AddInterestingSeed \/ FuzzMainDone \/ FuzzMainError

Next == DryRunning \/ Culling \/ Fuzzing

\* The fuzzer keeps running, and the stages of a seed that is taken up again
\* and again do not fail every time (they fail on file errors only).  A file that
\* cannot be opened ends the process, which then takes no more steps.
Fairness == WF_vars(Next) /\ \A s \in Seed : SF_vars(cur = s /\ FuzzMainDone)

Spec == Init /\ [][Next]_vars /\ Fairness

-----------------------------------------------------------------------------
(***************************************************************************)
(* Properties                                                              *)
(***************************************************************************)

\* Every variable has its type.
TypeOK ==
    /\ pc \in {"dry", "update", "cull", "culling", "pick", "fuzz"}
    /\ size \in InitialSeeds .. MaxQueue
    /\ cur \in 1 .. (MaxQueue + 1)
    /\ i \in 0 .. MapSize
    /\ globalTraceBit \in SUBSET Loc
    /\ score \in [Seed -> Scores \cup {0}]
    /\ hasTrace \in [Seed -> BOOLEAN]
    /\ trace \in [Seed -> SUBSET Loc]
    /\ topCount \in [Seed -> 0 .. MapSize]
    /\ queueTop \in [Loc -> Seed \cup {End}]
    /\ favored \in [Seed -> BOOLEAN]
    /\ wasFuzzed \in [Seed -> BOOLEAN]
    /\ scoreChange \in BOOLEAN /\ pendFavor \in BOOLEAN
    /\ traceRecord \in SUBSET Loc
    /\ cov \in [Seed -> SUBSET Loc]

\* topCount counts the locations a seed is the top of, and a seed has a trace
\* exactly as long as it is the top of some location: none is deleted while it
\* is in use and none is leaked (UpdateQueueTop, lines 39-53).
TopCountExact ==
    \A s \in Seed :
        /\ topCount[s] = Cardinality({l \in Loc : queueTop[l] = s})
        /\ hasTrace[s] <=> topCount[s] > 0
        /\ hasTrace[s] => trace[s] = cov[s]

\* After the dry run every location that a calibrated seed hits has a top, the
\* top hits it, and no other seed that hits it is cheaper (line 30).
TopIsCheapest ==
    pc \notin {"dry", "update"} =>
        \A l \in Loc, s \in Seed : l \in cov[s] =>
            /\ queueTop[l] # End
            /\ l \in cov[queueTop[l]]
            /\ score[queueTop[l]] <= score[s]

\* Whenever a seed is picked, the favored seeds together hit every location
\* that any calibrated seed hits, though each location looks at its own top
\* only (CullQueue, lines 75-90).
FavoredCover ==
    pc \in {"pick", "fuzz"} =>
        \A l \in Loc, s \in Seed : l \in cov[s] =>
            \E f \in Seed : favored[f] /\ l \in cov[f]

\* pendFavor is not missed: while a favored seed has not been fuzzed, the flag
\* that makes the others be skipped is set, and that seed is not skipped.
FavoredPending ==
    pc \in {"pick", "fuzz"} =>
        ((\E s \in Seed : favored[s] /\ ~wasFuzzed[s]) => pendFavor)

\* The tops of the locations handled so far, for the seeds handled so far.
TopInv ==
    /\ \A l \in Loc : queueTop[l] # End => l \in cov[queueTop[l]]
    /\ \A l \in Loc, s \in Seed :
           l \in cov[s] /\ (pc = "update" /\ s = cur => l < i) =>
               queueTop[l] # End /\ score[queueTop[l]] <= score[s]
    /\ \A l \in Loc : pc = "update" /\ queueTop[l] = cur => l < i

\* How far the dry run has come, and which seeds it has not rated.
DryInv ==
    /\ pc = "update" => cur <= size /\ cov[cur] = globalTraceBit
    /\ pc = "fuzz" => cur <= size
    /\ \A s \in Seed : s > size => cov[s] = {}
    /\ \A s \in Seed : (pc = "dry" /\ s >= cur) \/ (pc = "update" /\ s > cur) => cov[s] = {}

\* What CullQueue has established: up to i while it runs, everywhere after it.
CullInv ==
    /\ \A l \in traceRecord : \E f \in Seed : favored[f] /\ l \in cov[f]
    /\ pc \in {"dry", "update"} \/ scoreChange => traceRecord = {}
    /\ pc \in {"dry", "update"} /\ ~scoreChange => \A l \in Loc : queueTop[l] = End
    /\ scoreChange => pc \in {"dry", "update", "cull"}
    /\ ~scoreChange /\ pc \notin {"dry", "update"} =>
           \A l \in Loc : queueTop[l] # End /\ (pc = "culling" => l < i) =>
               l \in traceRecord
    /\ \A s \in Seed : favored[s] /\ ~wasFuzzed[s] => pendFavor

\* The inductive invariant of the queue.
QueueInv == TypeOK /\ TopCountExact /\ TopInv /\ DryInv /\ CullInv

\* The loop takes up every favored seed it comes to that has not been fuzzed,
\* and once a seed has been picked the favored ones are final: what is found
\* later is never rated against the tops, so that CullQueue does not take the
\* flag away from a seed that waits (CullQueue, lines 60-90, and FuzzMain of
\* FuzzOne.cpp, lines 1255-1275).
FavoredAreTaken ==
    [][/\ pc \in {"pick", "fuzz"} => ~scoreChange' /\ favored' = favored
       /\ pc = "pick" /\ favored[Current] /\ ~wasFuzzed[Current] =>
              pc' = "fuzz" /\ cur' = Current]_vars

\* Every favored seed is fuzzed sooner or later.
FavoredIsFuzzed == \A s \in Seed : favored[s] ~> wasFuzzed[s]

=============================================================================
