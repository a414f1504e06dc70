--------------------------- MODULE SharedCoverage ---------------------------
(***************************************************************************)
(* Several fuzzers that share one virgin map (sync_cov is 1).  The MASTER  *)
(* creates a segment, writes its id to sync_file and fills it with 255;    *)
(* a SLAVE reads the id and attaches.  Every few test cases a fuzzer takes *)
(* the file lock, merges its map into the segment byte by byte and copies  *)
(* the result back (FuzzUnit, sync_coverage).  A fuzzer started with       *)
(* neither -M nor -S has no segment.                                       *)
(*                                                                         *)
(* A byte of a virgin map is 0 or not: a map is the set of its locations   *)
(* that are not 0.  The map of the branches is treated in the same way as  *)
(* this one, after it and under the same lock.                             *)
(***************************************************************************)
EXTENDS Integers, FiniteSets

CONSTANTS
    Masters,       \* fuzzers started with -M
    Slaves,        \* fuzzers started with -S
    Singles,       \* fuzzers started without either
    MapSize,       \* MAP_SIZE
    MasterCycle,   \* master_sync_cycle
    SlaveCycle,    \* slave_sync_cycle
    MaxSegments,   \* bound on the segments created
    MaxCrashes     \* bound on the fuzzers that are killed

ASSUME SharedAssumption ==
    /\ MapSize \in Nat \ {0}
    /\ MasterCycle \in Nat \ {0} /\ SlaveCycle \in Nat \ {0}
    /\ MaxSegments \in Nat /\ MaxCrashes \in Nat
    /\ Cardinality(Masters) + MaxCrashes <= MaxSegments   \* a MASTER gets its segment
    /\ Masters \cap Slaves = {} /\ Masters \cap Singles = {} /\ Slaves \cap Singles = {}
    /\ "nobody" \notin Masters \cup Slaves \cup Singles

Fuzzer == Masters \cup Slaves \cup Singles
Loc == 0 .. (MapSize - 1)
Segment == 1 .. MaxSegments
NoSegment == 0                     \* NULL; an empty or missing sync_file
Nobody == "nobody"                 \* nobody holds the lock

VARIABLES
    pc,
    file,        \* what sync_file holds
    segments,    \* segments created so far
    shared,      \* their contents
    lockfile,    \* does file_lock exist?
    holder,      \* who holds the lock on it
    ptr,         \* sync_cov_ptr
    virginMap,
    fuzz_time,
    i,           \* the loop index of sync_coverage
    loaded,      \* the byte of the segment the loop has read is not 0
    crashes,
    hit,         \* history: the locations hit by some run of some fuzzer
    ready,       \* history: the segments that have been filled with 255
    early,       \* history: a fuzzer merged with a segment that was not ready
    merged       \* history: locations that a merge has taken out of a segment

files == <<file, segments, lockfile>>
local == <<ptr, virginMap, fuzz_time, i, loaded>>
history == <<hit, ready, early, merged>>
vars == <<pc, files, shared, holder, local, crashes, history>>

Init ==
    /\ pc = [f \in Fuzzer |-> "off"]
    /\ file = NoSegment /\ segments = 0
    /\ shared = [s \in Segment |-> {}]
    /\ lockfile \in BOOLEAN /\ holder = Nobody
    /\ ptr = [f \in Fuzzer |-> NoSegment]
    /\ virginMap = [f \in Fuzzer |-> Loc]
    /\ fuzz_time = [f \in Fuzzer |-> 0]
    /\ i = [f \in Fuzzer |-> 0]
    /\ loaded = [f \in Fuzzer |-> FALSE]
    /\ crashes = 0
    /\ hit = {} /\ ready = {} /\ early = FALSE
    /\ merged = [s \in Segment |-> {}]

At(f, l) == pc[f] = l
Goto(f, l) == pc' = [pc EXCEPT ![f] = l]

-----------------------------------------------------------------------------
(***************************************************************************)
(* Start of a fuzzer                                                       *)
(***************************************************************************)

\* Init() and the choice by sync_id and sync_state.
Start(f) ==
    /\ At(f, "off")
    /\ Goto(f, IF f \in Masters THEN "create" ELSE IF f \in Slaves THEN "attach" ELSE "run")
    /\ UNCHANGED <<files, shared, holder, local, crashes, history>>

\* shmget() returns a segment of zeros; opening sync_file truncates it.
Create(f) ==
    /\ At(f, "create") /\ segments < MaxSegments
    /\ segments' = segments + 1
    /\ ptr' = [ptr EXCEPT ![f] = segments + 1]
    /\ file' = NoSegment
    /\ Goto(f, "publish")
    /\ UNCHANGED <<shared, lockfile, holder, virginMap, fuzz_time, i, loaded,
                   crashes, history>>

Publish(f) ==
    /\ At(f, "publish")
    /\ file' = ptr[f]
    /\ Goto(f, "memset")
    /\ UNCHANGED <<segments, shared, lockfile, holder, local, crashes, history>>

\* A faulty fill, with the 0 of the comment beside it.
MemsetZero(f) ==
    /\ At(f, "memset")
    /\ shared' = [shared EXCEPT ![ptr[f]] = {}]
    /\ ready' = ready \cup {ptr[f]}
    /\ Goto(f, "lockfile")
    /\ UNCHANGED <<files, holder, local, crashes, hit, early, merged>>

Memset(f) ==
    /\ At(f, "memset")
    /\ shared' = [shared EXCEPT ![ptr[f]] = Loc]
    /\ ready' = ready \cup {ptr[f]}
    /\ Goto(f, "lockfile")
    /\ UNCHANGED <<files, holder, local, crashes, hit, early, merged>>

\* multi_proc_shm_get: stoi() of an empty string throws, and nobody catches.
Attach(f) ==
    /\ At(f, "attach")
    /\ IF file = NoSegment
         THEN Goto(f, "dead") /\ UNCHANGED ptr
         ELSE Goto(f, "lockfile") /\ ptr' = [ptr EXCEPT ![f] = file]
    /\ UNCHANGED <<files, shared, holder, virginMap, fuzz_time, i, loaded, crashes, history>>

LockFile(f) ==
    /\ At(f, "lockfile")
    /\ lockfile' = TRUE
    /\ Goto(f, "run")
    /\ UNCHANGED <<file, segments, shared, holder, local, crashes, history>>

-----------------------------------------------------------------------------
(***************************************************************************)
(* FuzzUnit                                                                *)
(***************************************************************************)

SyncCycle(f) == IF f \in Masters THEN MasterCycle ELSE SlaveCycle

\* Every SyncCycle-th call synchronises first; without a lock file it exits.
FuzzUnit(f) ==
    /\ At(f, "run")
    /\ LET t == (fuzz_time[f] + 1) % SyncCycle(f)
       IN  /\ fuzz_time' = [fuzz_time EXCEPT ![f] = t]
           /\ Goto(f, IF t # 0 THEN "exec" ELSE IF lockfile THEN "lock" ELSE "dead")
    /\ UNCHANGED <<files, shared, holder, ptr, virginMap, i, loaded, crashes, history>>

\* A faulty FuzzUnit that does not wait for the lock.
LockIgnored(f) ==
    /\ At(f, "lock") /\ ptr[f] # NoSegment
    /\ Goto(f, "load")
    /\ i' = [i EXCEPT ![f] = 0]
    /\ UNCHANGED <<files, shared, holder, ptr, virginMap, fuzz_time, loaded, crashes, history>>

\* flock(LOCK_EX) waits.  Without a segment sync_coverage reads a null pointer.
Lock(f) ==
    /\ At(f, "lock") /\ holder = Nobody
    /\ IF ptr[f] = NoSegment
         THEN Goto(f, "dead") /\ UNCHANGED <<holder, i>>
         ELSE Goto(f, "load") /\ holder' = f /\ i' = [i EXCEPT ![f] = 0]
    /\ UNCHANGED <<files, shared, ptr, virginMap, fuzz_time, loaded, crashes, history>>

\* global[i] = global[i] & local[i], which reads before it writes.
Load(f) ==
    /\ At(f, "load") /\ i[f] < MapSize
    /\ loaded' = [loaded EXCEPT ![f] = i[f] \in shared[ptr[f]]]
    /\ early' = (early \/ ptr[f] \notin ready)
    /\ Goto(f, "store")
    /\ UNCHANGED <<files, shared, holder, ptr, virginMap, fuzz_time, i, crashes,
                   hit, ready, merged>>

Store(f) ==
    /\ At(f, "store")
    /\ LET kept == IF loaded[f] /\ i[f] \in virginMap[f] THEN {i[f]} ELSE {}
       IN  shared' = [shared EXCEPT ![ptr[f]] = (@ \ {i[f]}) \cup kept]
    /\ merged' = [merged EXCEPT ![ptr[f]] = @ \cup ({i[f]} \ virginMap[f])]
    /\ i' = [i EXCEPT ![f] = @ + 1]
    /\ Goto(f, "load")
    /\ UNCHANGED <<files, holder, ptr, virginMap, fuzz_time, loaded, crashes,
                   hit, ready, early>>

\* A faulty merge in one direction only.
CopyNothing(f) ==
    /\ At(f, "load") /\ i[f] = MapSize
    /\ holder' = Nobody
    /\ Goto(f, "exec")
    /\ UNCHANGED <<files, shared, local, crashes, history>>

\* memcpy back, and flock(LOCK_UN).
Copy(f) ==
    /\ At(f, "load") /\ i[f] = MapSize
    /\ virginMap' = [virginMap EXCEPT ![f] = shared[ptr[f]]]
    /\ holder' = Nobody
    /\ Goto(f, "exec")
    /\ UNCHANGED <<files, shared, ptr, fuzz_time, i, loaded, crashes, history>>

\* The test case runs and has_new_bits takes what it hit out of the map.
ExecuteCase(f) ==
    /\ At(f, "exec")
    /\ \E bits \in SUBSET Loc :
           /\ virginMap' = [virginMap EXCEPT ![f] = @ \ bits]
           /\ hit' = hit \cup bits
    /\ Goto(f, "run")
    /\ UNCHANGED <<files, shared, holder, ptr, fuzz_time, i, loaded, crashes,
                   ready, early, merged>>

\* The process ends at any point (a failed call exits, or it is killed) and is
\* started again later.  The kernel releases its lock; segments and files stay.
Crash(f) ==
    /\ pc[f] \notin {"off", "dead"} /\ crashes < MaxCrashes
    /\ crashes' = crashes + 1
    /\ Goto(f, "off")
    /\ holder' = IF holder = f THEN Nobody ELSE holder
    /\ ptr' = [ptr EXCEPT ![f] = NoSegment]
    /\ virginMap' = [virginMap EXCEPT ![f] = Loc]
    /\ fuzz_time' = [fuzz_time EXCEPT ![f] = 0]
    /\ i' = [i EXCEPT ![f] = 0]
    /\ loaded' = [loaded EXCEPT ![f] = FALSE]
    /\ UNCHANGED <<files, shared, history>>

Step(f) == \/ Create(f) \/ Publish(f) \/ Memset(f) \/ Attach(f) \/ LockFile(f)
           \/ FuzzUnit(f) \/ Lock(f) \/ Load(f) \/ Store(f) \/ Copy(f) \/ ExecuteCase(f)

Next == \E f \in Fuzzer : Start(f) \/ Step(f) \/ Crash(f)

\* Every fuzzer that was started keeps running, and flock wakes its waiters in
\* turn.
Fairness == \A f \in Fuzzer : WF_vars(Step(f)) /\ SF_vars(Lock(f))

Spec == Init /\ [][Next]_vars /\ Fairness

-----------------------------------------------------------------------------
(***************************************************************************)
(* Properties                                                              *)
(***************************************************************************)

\* A location leaves a map only because some fuzzer's run hit it: nobody loses
\* the chance to find a location that was never reached.  The one exception is
\* a merge with a segment that its MASTER has published but not yet filled with
\* 255 (ShmMapping.cpp, lines 152-163).
VirginIsHonest ==
    ~early =>
        /\ \A f \in Fuzzer : Loc \ virginMap[f] \subseteq hit
        /\ \A s \in ready : Loc \ shared[s] \subseteq hit

\* What a merge has taken out of a segment never comes back, however the merges
\* of other fuzzers, their deaths and restarts interleave with it (the lock in
\* FuzzUnit, lines 913-918), with the same exception.
MergesAreKept == ~early => \A s \in Segment : merged[s] \cap shared[s] = {}

\* The inductive invariant behind the two properties.  A segment is unready
\* until its MASTER has filled it, and only that MASTER is on its way to it;
\* who merges holds the lock, and finds what it has read unchanged.
TypeOK ==
    /\ pc \in [Fuzzer -> {"off", "create", "publish", "memset", "attach", "lockfile",
                          "run", "lock", "load", "store", "exec", "dead"}]
    /\ segments \in 0 .. MaxSegments /\ file \in 0 .. segments
    /\ shared \in [Segment -> SUBSET Loc]
    /\ holder \in Fuzzer \cup {Nobody}
    /\ ptr \in [Fuzzer -> 0 .. segments]
    /\ virginMap \in [Fuzzer -> SUBSET Loc]
    /\ i \in [Fuzzer -> 0 .. MapSize]
    /\ loaded \in [Fuzzer -> BOOLEAN]
    /\ early \in BOOLEAN
    /\ ready \in SUBSET (1 .. segments)
    /\ merged \in [Segment -> SUBSET Loc]

FillInv(f) ==
    pc[f] \in {"publish", "memset"} =>
        /\ ptr[f] \in Segment \ ready
        /\ \A g \in Fuzzer \ {f} : pc[g] \in {"publish", "memset"} => ptr[g] # ptr[f]

MergeInv(f) ==
    /\ holder = f <=> pc[f] \in {"load", "store"}
    /\ pc[f] \in {"load", "store"} => ptr[f] \in Segment
    /\ pc[f] = "store" => i[f] < MapSize
    /\ pc[f] = "load" /\ i[f] > 0 /\ ~early => ptr[f] \in ready
    /\ pc[f] = "store" /\ ~early =>
           ptr[f] \in ready /\ (loaded[f] <=> i[f] \in shared[ptr[f]])

SharedInv ==
    /\ TypeOK
    /\ \A f \in Fuzzer : FillInv(f) /\ MergeInv(f)
    /\ ~early => \A s \in Segment \ ready : merged[s] = {}
    /\ VirginIsHonest
    /\ MergesAreKept

\* The merge of a fuzzer gets on: it goes from the read of a location to its
\* write, or from there to the next location.
MergeGetsOn(f) ==
    \/ pc[f] = "load" /\ pc'[f] = "store" /\ i'[f] = i[f]
    \/ pc[f] = "store" /\ pc'[f] = "load" /\ i'[f] = i[f] + 1 /\ i'[f] <= MapSize

\* The lock comes free: nobody else takes it from its holder, whose every step
\* gets on with the merge until it unlocks, and no other fuzzer sets it back
\* (lines 913-918 and sync_coverage).
LockIsGivenBack ==
    [][\A f \in Fuzzer : holder = f =>
           \/ holder' = Nobody
           \/ /\ holder' = f
              /\ IF Step(f) THEN MergeGetsOn(f)
                            ELSE pc'[f] = pc[f] /\ i'[f] = i[f]]_vars

\* What one fuzzer finds, every fuzzer on the same segment that keeps running
\* knows in the end: the counters come round and the lock is granted.  The
\* exception is again a merge with a segment that is not ready.
FindsSpread ==
    \A f \in Fuzzer : \A g \in Fuzzer \ {f}, l \in Loc :
        (ptr[f] # NoSegment /\ ptr[g] = ptr[f] /\ l \notin virginMap[f])
            ~> (early \/ l \notin virginMap[g] \/ {pc[f], pc[g]} \cap {"off", "dead"} # {})

\* A fuzzer started with the options the usage text asks for (-i, -o, -f and
\* the target, Main.cpp lines 237-241) does not end by itself.
SurvivesWithoutSync == \A f \in Singles : pc[f] # "dead"

=============================================================================
