------------------------ MODULE SharedCoverageProofs ------------------------
(***************************************************************************)
(* The shared virgin map, for any number of fuzzers, locations, segments   *)
(* and crashes.  SharedInv is inductive: the lock makes the read and the   *)
(* write of one byte of a segment one step, and an unready segment is in   *)
(* the hands of the MASTER that made it.                                   *)
(***************************************************************************)
EXTENDS SharedCoverage, TLAPS

\* Zenon is tried first, then SMT, then Zenon for longer.
USE ZenonT(5), SMTT(15), ZenonT(20)

USE SharedAssumption DEF NoSegment, Nobody

\* No fuzzer is running, and no segment has been made.
LEMMA InitEstablishesInv == Init => SharedInv
<1> SUFFICES ASSUME Init PROVE SharedInv
  OBVIOUS
<1>1. TypeOK
  <2>1. /\ shared \in [Segment -> SUBSET Loc] /\ merged \in [Segment -> SUBSET Loc]
        /\ virginMap \in [Fuzzer -> SUBSET Loc] /\ loaded \in [Fuzzer -> BOOLEAN]
    BY DEF Init
  <2>2. segments = 0 /\ file = 0 /\ holder = Nobody /\ early \in BOOLEAN /\ ready = {}
    BY DEF Init
  <2>3. ptr \in [Fuzzer -> 0 .. segments] /\ i \in [Fuzzer -> 0 .. MapSize]
    BY <2>2 DEF Init
  <2>4. pc \in [Fuzzer -> {"off", "create", "publish", "memset", "attach", "lockfile",
                           "run", "lock", "load", "store", "exec", "dead"}]
    BY DEF Init
  <2> QED
    BY <2>1, <2>2, <2>3, <2>4 DEF TypeOK
<1>2. \A f \in Fuzzer : FillInv(f) /\ MergeInv(f)
  BY DEF Init, FillInv, MergeInv, Fuzzer
<1>3. VirginIsHonest /\ MergesAreKept /\ \A s \in Segment : merged[s] = {}
  BY DEF Init, VirginIsHonest, MergesAreKept
<1> QED
  BY <1>1, <1>2, <1>3 DEF SharedInv

\* Every step of a fuzzer keeps the types.
LEMMA TypeStep ==
    ASSUME TypeOK, NEW f \in Fuzzer, FillInv(f), MergeInv(f),
           Start(f) \/ Step(f) \/ Crash(f)
    PROVE  TypeOK'
<1> USE DEF At, Goto, files, local, history, TypeOK
<1>1. CASE Start(f) \/ LockFile(f) \/ FuzzUnit(f)
  <2>1. UNCHANGED <<segments, file, shared, holder, ptr, virginMap, i, loaded, early, ready, merged>>
    BY <1>1 DEF Start, LockFile, FuzzUnit
  <2>2. \E l \in {"create", "attach", "run", "exec", "lock", "dead"} :
            pc' = [pc EXCEPT ![f] = l]
    BY <1>1 DEF Start, LockFile, FuzzUnit
  <2> QED
    BY <2>1, <2>2
<1>2. CASE Create(f)
  <2>1. /\ segments' = segments + 1 /\ segments < MaxSegments
        /\ ptr' = [ptr EXCEPT ![f] = segments + 1] /\ file' = 0
    BY <1>2 DEF Create
  <2>2. ptr' \in [Fuzzer -> 0 .. segments']
    BY <2>1
  <2>3. ready' \in SUBSET (1 .. segments')
    BY <1>2, <2>1 DEF Create
  <2>4. /\ UNCHANGED <<shared, holder, virginMap, i, loaded, early, merged>>
        /\ pc' = [pc EXCEPT ![f] = "publish"]
    BY <1>2 DEF Create
  <2> QED
    BY <2>1, <2>2, <2>3, <2>4
<1>3. CASE Publish(f)
  BY <1>3 DEF Publish
<1>4. CASE Memset(f)
  <2>1. ptr[f] \in 1 .. segments /\ ptr[f] \in Segment
    BY <1>4 DEF Memset, FillInv, Segment
  <2>2. shared' \in [Segment -> SUBSET Loc] /\ ready' \in SUBSET (1 .. segments)
    BY <1>4, <2>1 DEF Memset
  <2>3. /\ UNCHANGED <<segments, file, holder, ptr, virginMap, i, loaded, early, merged>>
        /\ pc' = [pc EXCEPT ![f] = "lockfile"]
    BY <1>4 DEF Memset
  <2> QED
    BY <2>2, <2>3
<1>5. CASE Attach(f)
  <2>1. UNCHANGED <<segments, file, shared, holder, virginMap, i, loaded, early, ready, merged>>
    BY <1>5 DEF Attach
  <2>2. ptr' \in [Fuzzer -> 0 .. segments]
    BY <1>5 DEF Attach
  <2>3. \E l \in {"dead", "lockfile"} : pc' = [pc EXCEPT ![f] = l]
    BY <1>5 DEF Attach
  <2> QED
    BY <2>1, <2>2, <2>3
<1>6. CASE Lock(f)
  <2>1. UNCHANGED <<segments, file, shared, ptr, virginMap, loaded, early, ready, merged>>
    BY <1>6 DEF Lock
  <2>2. i' \in [Fuzzer -> 0 .. MapSize]
    BY <1>6 DEF Lock
  <2>3. /\ holder' \in Fuzzer \cup {Nobody}
        /\ \E l \in {"dead", "load"} : pc' = [pc EXCEPT ![f] = l]
    BY <1>6 DEF Lock
  <2> QED
    BY <2>1, <2>2, <2>3
<1>7. CASE Load(f)
  <2>1. early' \in BOOLEAN
    BY <1>7, Zenon DEF Load
  <2>2. loaded' \in [Fuzzer -> BOOLEAN]
    BY <1>7 DEF Load
  <2>3. /\ UNCHANGED <<segments, file, shared, holder, ptr, virginMap, i, ready, merged>>
        /\ pc' = [pc EXCEPT ![f] = "store"]
    BY <1>7 DEF Load
  <2> QED
    BY <2>1, <2>2, <2>3
<1>8. CASE Store(f)
  <2>1. ptr[f] \in Segment /\ i[f] \in Loc /\ i[f] < MapSize
    BY <1>8 DEF Store, MergeInv, Loc
  <2>2. shared' \in [Segment -> SUBSET Loc]
    BY <1>8, <2>1 DEF Store
  <2>3. merged' \in [Segment -> SUBSET Loc]
    BY <1>8, <2>1 DEF Store
  <2>4. i' \in [Fuzzer -> 0 .. MapSize]
    BY <1>8, <2>1 DEF Store
  <2>5. /\ UNCHANGED <<segments, file, holder, ptr, virginMap, loaded, early, ready>>
        /\ pc' = [pc EXCEPT ![f] = "load"]
    BY <1>8 DEF Store
  <2> QED
    BY <2>2, <2>3, <2>4, <2>5
<1>9. CASE Copy(f)
  <2>1. ptr[f] \in Segment
    BY <1>9 DEF Copy, MergeInv
  <2>2. virginMap' \in [Fuzzer -> SUBSET Loc]
    BY <1>9, <2>1 DEF Copy
  <2>3. /\ UNCHANGED <<segments, file, shared, ptr, i, loaded, early, ready, merged>>
        /\ holder' = Nobody /\ pc' = [pc EXCEPT ![f] = "exec"]
    BY <1>9 DEF Copy
  <2> QED
    BY <2>2, <2>3
<1>10. CASE ExecuteCase(f)
  <2>1. virginMap' \in [Fuzzer -> SUBSET Loc]
    BY <1>10 DEF ExecuteCase
  <2>2. /\ UNCHANGED <<segments, file, shared, holder, ptr, i, loaded, early, ready, merged>>
        /\ pc' = [pc EXCEPT ![f] = "run"]
    BY <1>10 DEF ExecuteCase
  <2> QED
    BY <2>1, <2>2
<1>11. CASE Crash(f)
  <2>1. /\ ptr' \in [Fuzzer -> 0 .. segments] /\ i' \in [Fuzzer -> 0 .. MapSize]
        /\ loaded' \in [Fuzzer -> BOOLEAN]
    BY <1>11 DEF Crash
  <2>2. virginMap' \in [Fuzzer -> SUBSET Loc]
    BY <1>11 DEF Crash
  <2>3. /\ UNCHANGED <<segments, file, shared, early, ready, merged>>
        /\ holder' \in {holder, Nobody} /\ pc' = [pc EXCEPT ![f] = "off"]
    BY <1>11 DEF Crash
  <2> QED
    BY <2>1, <2>2, <2>3
<1> QED
  BY <1>1, <1>2, <1>3, <1>4, <1>5, <1>6, <1>7, <1>8, <1>9, <1>10, <1>11 DEF Step

\* A new segment is the MASTER's own until it has been filled, also if that
\* MASTER or another one is killed and started again.
LEMMA FillStep ==
    ASSUME TypeOK, \A g \in Fuzzer : FillInv(g), NEW f \in Fuzzer,
           Start(f) \/ Step(f) \/ Crash(f)
    PROVE  \A g \in Fuzzer : FillInv(g)'
<1> USE DEF At, Goto, files, local, history, TypeOK, FillInv
<1>1. CASE Start(f)
  BY <1>1 DEF Start
<1>2. CASE Create(f)
  <2>1. /\ segments < MaxSegments /\ ptr' = [ptr EXCEPT ![f] = segments + 1]
        /\ pc' = [pc EXCEPT ![f] = "publish"] /\ ready' = ready
    BY <1>2 DEF Create
  <2>2. segments + 1 \in Segment /\ segments + 1 \notin ready
    BY <2>1 DEF Segment
  <2> QED
    BY <2>1, <2>2
<1>3. CASE Publish(f)
  BY <1>3 DEF Publish
<1>4. CASE Memset(f)
  BY <1>4 DEF Memset
<1>5. CASE Attach(f)
  BY <1>5 DEF Attach
<1>6. CASE LockFile(f) \/ FuzzUnit(f) \/ Lock(f)
  <2>1. UNCHANGED <<ptr, ready>>
    BY <1>6 DEF LockFile, FuzzUnit, Lock
  <2>2. \E l \in {"run", "exec", "lock", "load", "dead"} : pc' = [pc EXCEPT ![f] = l]
    BY <1>6 DEF LockFile, FuzzUnit, Lock
  <2> QED
    BY <2>1, <2>2
<1>7. CASE Load(f) \/ Store(f) \/ Copy(f) \/ ExecuteCase(f)
  <2>1. UNCHANGED <<ptr, ready>>
    BY <1>7 DEF Load, Store, Copy, ExecuteCase
  <2>2. \E l \in {"store", "load", "exec", "run"} : pc' = [pc EXCEPT ![f] = l]
    BY <1>7 DEF Load, Store, Copy, ExecuteCase
  <2> QED
    BY <2>1, <2>2
<1>8. CASE Crash(f)
  <2>1. /\ ready' = ready /\ ptr' = [ptr EXCEPT ![f] = NoSegment]
        /\ pc' = [pc EXCEPT ![f] = "off"]
    BY <1>8 DEF Crash
  <2> QED
    BY <2>1
<1> QED
  BY <1>1, <1>2, <1>3, <1>4, <1>5, <1>6, <1>7, <1>8 DEF Step

\* Who merges holds the lock until it has copied the segment back or dies, and
\* between its read and its write of a byte nobody else writes that segment:
\* the other fuzzers need the lock, and a MASTER fills only its unready segment.
LEMMA MergeStep ==
    ASSUME SharedInv, NEW f \in Fuzzer, Start(f) \/ Step(f) \/ Crash(f)
    PROVE  \A g \in Fuzzer : MergeInv(g)'
<1> USE DEF At, Goto, files, local, history, TypeOK, MergeInv, Fuzzer
<1>0. TypeOK /\ \A g \in Fuzzer : FillInv(g) /\ MergeInv(g)
  BY DEF SharedInv
<1>1. CASE Start(f)
  BY <1>0, <1>1 DEF Start
<1>2. CASE Create(f)
  BY <1>0, <1>2 DEF Create
<1>3. CASE Publish(f)
  BY <1>0, <1>3 DEF Publish
<1>4. CASE Memset(f)
  <2>1. ptr[f] \notin ready
    BY <1>0, <1>4 DEF Memset, FillInv
  <2> QED
    BY <1>0, <1>4, <2>1 DEF Memset
<1>5. CASE Attach(f)
  BY <1>0, <1>5 DEF Attach
<1>6. CASE LockFile(f)
  BY <1>0, <1>6 DEF LockFile
<1>7. CASE FuzzUnit(f)
  BY <1>0, <1>7 DEF FuzzUnit
<1>8. CASE Lock(f)
  <2>1. CASE ptr[f] = NoSegment
    BY <1>0, <1>8, <2>1 DEF Lock
  <2>2. CASE ptr[f] # NoSegment
    <3>1. ptr[f] \in Segment /\ \A g \in Fuzzer : pc[g] \notin {"load", "store"}
      BY <1>0, <1>8, <2>2 DEF Lock, Segment
    <3>2. /\ pc' = [pc EXCEPT ![f] = "load"] /\ i' = [i EXCEPT ![f] = 0] /\ holder' = f
          /\ UNCHANGED <<ptr, early, ready, loaded, shared>>
      BY <1>8, <2>2 DEF Lock
    <3> QED
      BY <1>0, <3>1, <3>2
  <2> QED
    BY <2>1, <2>2
<1>9. CASE Load(f)
  <2>1. /\ pc' = [pc EXCEPT ![f] = "store"] /\ pc[f] = "load" /\ i[f] < MapSize
        /\ loaded' = [loaded EXCEPT ![f] = i[f] \in shared[ptr[f]]]
        /\ early' = (early \/ ptr[f] \notin ready)
        /\ UNCHANGED <<holder, ptr, i, ready, shared>>
    BY <1>9 DEF Load
  <2>2. \A g \in Fuzzer \ {f} : pc[g] \notin {"load", "store"}
    BY <1>0, <2>1
  <2> QED
    BY <1>0, <2>1, <2>2
<1>10. CASE Store(f)
  <2>1. \A g \in Fuzzer \ {f} : pc[g] \notin {"load", "store"}
    BY <1>0, <1>10 DEF Store
  <2>2. ptr[f] \in Segment /\ i[f] < MapSize /\ (~early => ptr[f] \in ready)
    BY <1>0, <1>10 DEF Store
  <2>3. /\ pc' = [pc EXCEPT ![f] = "load"] /\ i' = [i EXCEPT ![f] = @ + 1]
        /\ UNCHANGED <<holder, ptr, early, ready, loaded>>
    BY <1>10 DEF Store
  <2>4. MergeInv(f)'
    <3>1. pc'[f] = "load" /\ i'[f] = i[f] + 1 /\ holder = f
      BY <1>0, <1>10, <2>3 DEF Store
    <3> QED
      BY <2>2, <2>3, <3>1
  <2>5. ASSUME NEW g \in Fuzzer \ {f} PROVE MergeInv(g)'
    BY <1>0, <2>1, <2>3, <2>5
  <2> QED
    BY <2>4, <2>5
<1>11. CASE Copy(f)
  <2>1. /\ pc' = [pc EXCEPT ![f] = "exec"] /\ pc[f] = "load" /\ holder' = Nobody
        /\ UNCHANGED <<ptr, i, loaded, early, ready, shared>>
    BY <1>11 DEF Copy
  <2> QED
    BY <1>0, <2>1
<1>12. CASE ExecuteCase(f)
  <2>1. /\ pc' = [pc EXCEPT ![f] = "run"] /\ pc[f] = "exec"
        /\ UNCHANGED <<holder, ptr, i, loaded, early, ready, shared>>
    BY <1>12 DEF ExecuteCase
  <2> QED
    BY <1>0, <2>1
<1>13. CASE Crash(f)
  <2>1. /\ pc' = [pc EXCEPT ![f] = "off"]
        /\ holder' = IF holder = f THEN Nobody ELSE holder
        /\ \A g \in Fuzzer \ {f} : ptr'[g] = ptr[g] /\ i'[g] = i[g] /\ loaded'[g] = loaded[g]
        /\ UNCHANGED <<early, ready, shared>>
    BY <1>0, <1>13 DEF Crash
  <2>2. MergeInv(f)'
    BY <1>0, <2>1
  <2>3. ASSUME NEW g \in Fuzzer \ {f} PROVE MergeInv(g)'
    BY <1>0, <2>1, <2>3
  <2> QED
    BY <2>2, <2>3
<1> QED
  BY <1>1, <1>2, <1>3, <1>4, <1>5, <1>6, <1>7, <1>8, <1>9, <1>10, <1>11, <1>12,
     <1>13 DEF Step

\* No step takes a location that nobody hit out of a map, or brings back one
\* that a merge has taken out of a segment.
LEMMA MapStep ==
    ASSUME SharedInv, NEW f \in Fuzzer, Start(f) \/ Step(f) \/ Crash(f)
    PROVE  /\ VirginIsHonest' /\ MergesAreKept'
           /\ (~early => \A s \in Segment \ ready : merged[s] = {})'
<1> USE DEF At, Goto, files, local, history, TypeOK, VirginIsHonest, MergesAreKept
<1>0. /\ TypeOK /\ FillInv(f) /\ MergeInv(f) /\ VirginIsHonest /\ MergesAreKept
      /\ ~early => \A s \in Segment \ ready : merged[s] = {}
  BY DEF SharedInv
<1>1. CASE Start(f) \/ Create(f) \/ Publish(f) \/ Attach(f) \/ LockFile(f)
             \/ FuzzUnit(f) \/ Lock(f)
  <2>1. UNCHANGED <<shared, virginMap, history>>
    BY <1>1 DEF Start, Create, Publish, Attach, LockFile, FuzzUnit, Lock
  <2> QED
    BY <1>0, <2>1
<1>2. CASE Memset(f)
  <2>1. ptr[f] \in Segment \ ready
    BY <1>0, <1>2 DEF Memset, FillInv
  <2>2. /\ shared' = [shared EXCEPT ![ptr[f]] = Loc] /\ ready' = ready \cup {ptr[f]}
        /\ UNCHANGED <<virginMap, hit, early, merged>>
    BY <1>2 DEF Memset
  <2>3. VirginIsHonest'
    BY <1>0, <2>1, <2>2
  <2>4. ~early => merged[ptr[f]] = {}
    BY <1>0, <2>1
  <2> QED
    BY <1>0, <2>1, <2>2, <2>3, <2>4
<1>3. CASE Load(f)
  BY <1>0, <1>3 DEF Load
<1>4. CASE Store(f)
  <2>1. /\ ptr[f] \in Segment /\ i[f] \in Loc
        /\ ~early => ptr[f] \in ready /\ (loaded[f] <=> i[f] \in shared[ptr[f]])
    BY <1>0, <1>4 DEF Store, MergeInv, Loc
  <2>2. /\ UNCHANGED <<virginMap, hit, ready, early>>
        /\ \A s \in Segment \ {ptr[f]} : shared'[s] = shared[s] /\ merged'[s] = merged[s]
        /\ merged'[ptr[f]] = merged[ptr[f]] \cup ({i[f]} \ virginMap[f])
        /\ shared'[ptr[f]] = (shared[ptr[f]] \ {i[f]}) \cup
                             (IF loaded[f] /\ i[f] \in virginMap[f] THEN {i[f]} ELSE {})
    BY <1>0, <1>4, <2>1 DEF Store
  <2>3. ~early => shared'[ptr[f]] = shared[ptr[f]] \ ({i[f]} \ virginMap[f])
    BY <1>0, <2>1, <2>2
  <2>4. VirginIsHonest'
    <3>1. ASSUME ~early, NEW s \in ready PROVE Loc \ shared'[s] \subseteq hit
      <4>1. s \in Segment /\ Loc \ shared[s] \subseteq hit /\ Loc \ virginMap[f] \subseteq hit
        BY <1>0, <3>1 DEF Segment
      <4>2. CASE s = ptr[f]
        BY <2>1, <2>3, <3>1, <4>1, <4>2
      <4>3. CASE s # ptr[f]
        BY <2>2, <4>1, <4>3
      <4> QED
        BY <4>2, <4>3
    <3> QED
      BY <1>0, <2>2, <3>1
  <2>5. MergesAreKept'
    <3>1. ASSUME ~early, NEW s \in Segment PROVE merged'[s] \cap shared'[s] = {}
      <4>1. merged[s] \cap shared[s] = {}
        BY <1>0, <3>1
      <4>2. CASE s = ptr[f]
        BY <2>2, <2>3, <3>1, <4>1, <4>2
      <4>3. CASE s # ptr[f]
        BY <2>2, <3>1, <4>1, <4>3
      <4> QED
        BY <4>2, <4>3
    <3> QED
      BY <2>2, <3>1
  <2>6. (~early => \A s \in Segment \ ready : merged[s] = {})'
    BY <1>0, <2>1, <2>2
  <2> QED
    BY <2>4, <2>5, <2>6
<1>5. CASE Copy(f)
  <2>1. ptr[f] \in Segment /\ (~early => ptr[f] \in ready)
    BY <1>0, <1>5 DEF Copy, MergeInv
  <2>2. /\ UNCHANGED <<shared, history>>
        /\ virginMap' = [virginMap EXCEPT ![f] = shared[ptr[f]]]
    BY <1>5 DEF Copy
  <2>3. ASSUME ~early, NEW g \in Fuzzer PROVE Loc \ virginMap'[g] \subseteq hit
    BY <1>0, <2>1, <2>2, <2>3
  <2> QED
    BY <1>0, <2>2, <2>3
<1>6. CASE ExecuteCase(f)
  BY <1>0, <1>6 DEF ExecuteCase
<1>7. CASE Crash(f)
  BY <1>0, <1>7 DEF Crash
<1> QED
  BY <1>1, <1>2, <1>3, <1>4, <1>5, <1>6, <1>7 DEF Step

\* SharedInv holds in every reachable state of fuzzers that share a map.
THEOREM SharedInvariant == Spec => []SharedInv
<1>1. Init => SharedInv
  BY InitEstablishesInv
<1>2. SharedInv /\ [Next]_vars => SharedInv'
  <2> SUFFICES ASSUME SharedInv, [Next]_vars PROVE SharedInv'
    OBVIOUS
  <2>1. ASSUME NEW f \in Fuzzer, Start(f) \/ Step(f) \/ Crash(f) PROVE SharedInv'
    <3>1. TypeOK /\ \A g \in Fuzzer : FillInv(g) /\ MergeInv(g)
      BY DEF SharedInv
    <3>2. TypeOK' /\ \A g \in Fuzzer : FillInv(g)'
      BY <2>1, <3>1, TypeStep, FillStep
    <3> QED
      BY <2>1, <3>2, MergeStep, MapStep DEF SharedInv
  <2>2. CASE UNCHANGED vars
    BY <2>2 DEF SharedInv, TypeOK, FillInv, MergeInv, VirginIsHonest, MergesAreKept,
       vars, files, local, history
  <2> QED
    BY <2>1, <2>2 DEF Next
<1> QED
  BY <1>1, <1>2, PTL DEF Spec

\* A location leaves a map only because a run of some fuzzer hit it, however
\* many fuzzers merge, die and come back, as long as nobody merged with a
\* segment that was not filled yet.
THEOREM MapsAreHonest == Spec => []VirginIsHonest
<1>1. SharedInv => VirginIsHonest
  BY DEF SharedInv
<1> QED
  BY <1>1, SharedInvariant, PTL

\* What a merge has taken out of a segment stays out: the lock loses no merge.
THEOREM NoMergeIsLost == Spec => []MergesAreKept
<1>1. SharedInv => MergesAreKept
  BY DEF SharedInv
<1> QED
  BY <1>1, SharedInvariant, PTL

\* The holder of the lock is in its merge, and each of its steps is a step of it.
LEMMA HolderMerges ==
    ASSUME SharedInv, NEW f \in Fuzzer, holder = f, Step(f)
    PROVE  holder' = Nobody \/ (holder' = f /\ MergeGetsOn(f))
<1> USE DEF At, Goto, TypeOK
<1>1. /\ pc[f] \in {"load", "store"} /\ (pc[f] = "store" => i[f] < MapSize)
      /\ TypeOK
  BY DEF SharedInv, TypeOK, MergeInv
<1>2. Load(f) \/ Store(f) \/ Copy(f)
  BY <1>1 DEF Step, Create, Publish, Memset, Attach, LockFile, FuzzUnit, Lock, ExecuteCase
<1>3. CASE Load(f)
  BY <1>1, <1>3 DEF Load, MergeGetsOn
<1>4. CASE Store(f)
  <2>1. pc'[f] = "load" /\ i'[f] = i[f] + 1 /\ holder' = holder /\ pc[f] = "store"
    BY <1>1, <1>4 DEF Store
  <2>2. i'[f] <= MapSize
    BY <1>1, <2>1
  <2> QED
    BY <2>1, <2>2 DEF MergeGetsOn
<1>5. CASE Copy(f)
  BY <1>5 DEF Copy
<1> QED
  BY <1>2, <1>3, <1>4, <1>5

\* Another fuzzer neither takes the lock nor disturbs the merge of its holder.
LEMMA OthersWait ==
    ASSUME SharedInv, NEW f \in Fuzzer, holder = f, NEW g \in Fuzzer \ {f},
           Start(g) \/ Step(g) \/ Crash(g)
    PROVE  holder' = f /\ pc'[f] = pc[f] /\ i'[f] = i[f]
<1> USE DEF At, Goto, local, history, TypeOK
<1>1. /\ pc[g] \notin {"load", "store"} /\ f # Nobody
      /\ TypeOK
  BY DEF SharedInv, TypeOK, MergeInv, Fuzzer
<1>2. CASE Crash(g)
  BY <1>1, <1>2 DEF Crash
<1>3. CASE Start(g) \/ Step(g)
  <2>1. ~Lock(g) /\ ~Load(g) /\ ~Store(g) /\ ~Copy(g)
    BY <1>1 DEF Lock, Load, Store, Copy
  <2> QED
    BY <1>1, <1>3, <2>1 DEF Start, Step, Create, Publish, Memset, Attach, LockFile,
       FuzzUnit, ExecuteCase
<1> QED
  BY <1>2, <1>3

\* The lock is given back: its holder merges one location after the other and
\* unlocks, nobody else takes the lock meanwhile, and a holder that dies loses
\* it (lines 913-918 and sync_coverage).
THEOREM LockComesFree == Spec => LockIsGivenBack
<1>1. ASSUME SharedInv, Next, NEW f \in Fuzzer, holder = f
      PROVE  \/ holder' = Nobody
             \/ /\ holder' = f
                /\ IF Step(f) THEN MergeGetsOn(f)
                              ELSE pc'[f] = pc[f] /\ i'[f] = i[f]
  <2>1. CASE Step(f)
    BY <1>1, <2>1, HolderMerges
  <2>2. CASE ~Step(f)
    <3>1. PICK g \in Fuzzer : Start(g) \/ Step(g) \/ Crash(g)
      BY <1>1 DEF Next
    <3>2. CASE g # f
      BY <1>1, <2>2, <3>1, <3>2, OthersWait
    <3>3. CASE g = f
      <4>1. ~Start(f)
        BY <1>1 DEF SharedInv, MergeInv, Start, At
      <4> QED
        BY <1>1, <2>2, <3>1, <3>3, <4>1 DEF Crash
    <3> QED
      BY <3>2, <3>3
  <2> QED
    BY <2>1, <2>2
<1>2. SharedInv /\ [Next]_vars =>
        [\A f \in Fuzzer : holder = f =>
           \/ holder' = Nobody
           \/ /\ holder' = f
              /\ IF Step(f) THEN MergeGetsOn(f)
                            ELSE pc'[f] = pc[f] /\ i'[f] = i[f]]_vars
  BY <1>1
<1> QED
  BY <1>2, SharedInvariant, PTL DEF Spec, LockIsGivenBack

=============================================================================
