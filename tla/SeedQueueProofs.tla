-------------------------- MODULE SeedQueueProofs ---------------------------
(***************************************************************************)
(* The invariants of the seed queue hold for every map size, every number  *)
(* of seeds and every set of scores.  The inductive invariant QueueInv     *)
(* adds to the properties how far each loop has come: TopInv up to which   *)
(* location a seed has been entered in the table, DryInv which seeds have  *)
(* no coverage yet, CullInv up to which location the favored seeds cover.  *)
(***************************************************************************)
EXTENDS SeedQueue, FiniteSetTheorems, TLAPS

\* Zenon is tried first, then SMT, then Zenon for longer.
USE ZenonT(5), SMTT(15), ZenonT(20)

\* The locations a seed is the top of.
Tops(s) == {l \in Loc : queueTop[l] = s}

\* The locations of the map are finite in number, and so are those of a seed.
LEMMA LocFinite == IsFiniteSet(Loc) /\ Cardinality(Loc) = MapSize
<1>1. 0 \in Int /\ MapSize - 1 \in Int /\ MapSize \in Nat /\ MapSize > 0
  BY QueueAssumption
<1>2. IsFiniteSet(0 .. (MapSize - 1))
      /\ Cardinality(0 .. (MapSize - 1)) = IF 0 > MapSize - 1 THEN 0 ELSE (MapSize - 1) - 0 + 1
  BY <1>1, FS_Interval
<1> QED
  BY <1>1, <1>2 DEF Loc

\* A set of locations has between 0 and MapSize elements, and 0 only if empty.
LEMMA LocSubset ==
    ASSUME NEW S \in SUBSET Loc
    PROVE  /\ IsFiniteSet(S)
           /\ Cardinality(S) \in 0 .. MapSize
           /\ Cardinality(S) = 0 <=> S = {}
<1>1. IsFiniteSet(S) /\ Cardinality(S) <= Cardinality(Loc)
  BY LocFinite, FS_Subset
<1>2. Cardinality(S) \in Nat
  BY <1>1, FS_CardinalityType
<1>3. Cardinality(S) = 0 <=> S = {}
  BY <1>1, FS_EmptySet
<1> QED
  BY <1>1, <1>2, <1>3, LocFinite, QueueAssumption

\* A seed that is the top of a location has a count and its trace.
LEMMA TopHasTrace ==
    ASSUME TypeOK, TopCountExact, NEW l \in Loc, queueTop[l] # End
    PROVE  /\ queueTop[l] \in Seed
           /\ hasTrace[queueTop[l]]
           /\ topCount[queueTop[l]] > 0
           /\ trace[queueTop[l]] = cov[queueTop[l]]
<1> DEFINE t == queueTop[l]
<1>1. t \in Seed
  BY DEF TypeOK
<1>2. topCount[t] = Cardinality(Tops(t)) /\ topCount[t] \in 0 .. MapSize
  BY <1>1 DEF TypeOK, TopCountExact, Tops
<1>3. Tops(t) \in SUBSET Loc /\ Tops(t) # {}
  BY DEF Tops
<1>4. topCount[t] > 0
  BY <1>2, <1>3, LocSubset, QueueAssumption
<1> QED
  BY <1>1, <1>4 DEF TopCountExact

\* A seed without coverage is nobody's top, and has neither count nor trace.
LEMMA UncoveredIsNoTop ==
    ASSUME TypeOK, TopCountExact, TopInv, NEW s \in Seed, cov[s] = {}
    PROVE  /\ \A l \in Loc : queueTop[l] # s
           /\ ~hasTrace[s]
<1>1. s # End
  BY QueueAssumption DEF Seed, End
<1>2. \A l \in Loc : queueTop[l] # s
  BY <1>1 DEF TopInv
<1>3. Tops(s) = {}
  BY <1>2 DEF Tops
<1>4. topCount[s] = 0
  BY <1>3, FS_EmptySet DEF TopCountExact, Tops
<1> QED
  BY <1>2, <1>4 DEF TopCountExact

\* UpdateQueueTop counts the location out of its old top and in for the new one.
LEMMA UpdateCounts ==
    ASSUME QueueInv, UpdateQueueTop
    PROVE  /\ topCount' \in [Seed -> 0 .. MapSize]
           /\ TopCountExact'
<1> USE DEF QueueInv
<1> DEFINE old == queueTop[i]
           dec == IF old = End THEN topCount ELSE [topCount EXCEPT ![old] = @ - 1]
           kept == [s \in Seed |-> hasTrace[s] /\ ~(s = old /\ dec[s] = 0)]
           T(s) == {l \in Loc : queueTop[l] = s}
           U(s) == {l \in Loc : queueTop'[l] = s}
<1>1. i \in Loc /\ cur \in Seed /\ cur # End /\ cov[cur] = globalTraceBit
  BY QueueAssumption DEF TypeOK, DryInv, UpdateQueueTop, Loc, Seed, End
<1>2. old # cur
  BY <1>1 DEF TopInv, UpdateQueueTop, TypeOK
<1>3. old \in Seed \cup {End} /\ \A s \in Seed : topCount[s] \in 0 .. MapSize
  BY <1>1 DEF TypeOK
<1>4. queueTop' = [queueTop EXCEPT ![i] = cur]
  BY DEF UpdateQueueTop
<1>5. U(cur) = T(cur) \cup {i} /\ i \notin T(cur)
  BY <1>1, <1>2, <1>4 DEF TypeOK
<1>6. old # End => U(old) = T(old) \ {i} /\ i \in T(old)
  BY <1>1, <1>2, <1>4 DEF TypeOK
<1>7. \A s \in Seed : s # cur /\ s # old => U(s) = T(s)
  BY <1>1, <1>4 DEF TypeOK
<1>8. \A s \in Seed : T(s) \in SUBSET Loc /\ U(s) \in SUBSET Loc
  OBVIOUS
<1>9. \A s \in Seed : /\ IsFiniteSet(T(s))
                      /\ Cardinality(T(s)) \in 0 .. MapSize
                      /\ Cardinality(U(s)) \in 0 .. MapSize
                      /\ topCount[s] = Cardinality(T(s))
  BY <1>8, LocSubset DEF TopCountExact
<1>10. Cardinality(U(cur)) = topCount[cur] + 1
  <2>1. Cardinality(T(cur) \cup {i}) = Cardinality(T(cur)) + 1
    BY <1>1, <1>5, <1>9, FS_AddElement
  <2> QED
    BY <2>1, <1>1, <1>5, <1>9
<1>11. old # End => Cardinality(U(old)) = topCount[old] - 1
  <2> SUFFICES ASSUME old # End PROVE Cardinality(U(old)) = topCount[old] - 1
    OBVIOUS
  <2>1. Cardinality(T(old) \ {i}) = Cardinality(T(old)) - 1
    BY <1>3, <1>6, <1>9, FS_RemoveElement
  <2> QED
    BY <2>1, <1>3, <1>6, <1>9
<1>12. topCount' = [dec EXCEPT ![cur] = @ + 1]
  BY DEF UpdateQueueTop
<1>13. topCount \in [Seed -> 0 .. MapSize]
  BY DEF TypeOK
<1>14. DOMAIN dec = Seed /\ \A s \in Seed : dec[s] = IF s = old THEN topCount[s] - 1 ELSE topCount[s]
  <2>1. End \notin Seed
    BY QueueAssumption DEF Seed, End
  <2> QED
    BY <1>3, <1>13, <2>1
<1>15. \A s \in Seed : topCount'[s] = IF s = cur THEN dec[s] + 1 ELSE dec[s]
  BY <1>1, <1>12, <1>14
<1>16. \A s \in Seed : topCount'[s] = Cardinality(U(s))
  <2> SUFFICES ASSUME NEW s \in Seed PROVE topCount'[s] = Cardinality(U(s))
    OBVIOUS
  <2>0. s = old => s # End
    BY QueueAssumption DEF Seed, End
  <2>1. CASE s = cur
    BY <2>1, <1>2, <1>10, <1>14, <1>15
  <2>2. CASE s = old
    BY <2>0, <2>2, <1>2, <1>11, <1>14, <1>15
  <2>3. CASE s # cur /\ s # old
    BY <2>3, <1>7, <1>9, <1>14, <1>15
  <2> QED
    BY <2>1, <2>2, <2>3
<1>17. topCount' \in [Seed -> 0 .. MapSize]
  <2>1. topCount' = [s \in Seed |-> topCount'[s]]
    BY <1>12, <1>14
  <2>2. \A s \in Seed : topCount'[s] \in 0 .. MapSize
    BY <1>9, <1>16
  <2> HIDE DEF dec, T, U
  <2> QED
    BY <2>1, <2>2
<1>18. \A s \in Seed : hasTrace'[s] <=> IF s = cur THEN TRUE ELSE kept[s]
  BY <1>1, Zenon DEF UpdateQueueTop
<1>19. \A s \in Seed : trace'[s] = IF s = cur THEN (IF kept[cur] THEN trace[cur] ELSE globalTraceBit)
                                   ELSE trace[s]
  BY <1>1, Zenon DEF UpdateQueueTop, TypeOK
<1>20. \A s \in Seed : hasTrace[s] <=> topCount[s] > 0
  BY DEF TopCountExact
<1>21. \A s \in Seed : hasTrace[s] => trace[s] = cov[s]
  BY DEF TopCountExact
<1>22. \A s \in Seed : hasTrace'[s] <=> topCount'[s] > 0
  <2> SUFFICES ASSUME NEW s \in Seed PROVE hasTrace'[s] <=> topCount'[s] > 0
    OBVIOUS
  <2>1. CASE s = cur
    <3>1. topCount'[s] = topCount[s] + 1 /\ topCount[s] \in 0 .. MapSize
      BY <2>1, <1>1, <1>9, <1>10, <1>16
    <3> HIDE DEF kept, dec
    <3> QED
      BY <2>1, <3>1, <1>18, QueueAssumption
  <2>2. CASE s # cur /\ s # old
    <3>1. kept[s] <=> hasTrace[s]
      BY <2>2
    <3> HIDE DEF kept, dec
    <3>2. topCount'[s] = topCount[s]
      BY <2>2, <1>14, <1>15
    <3> QED
      BY <2>2, <3>1, <3>2, <1>18, <1>20
  <2>3. CASE s # cur /\ s = old
    <3>1. kept[s] <=> hasTrace[s] /\ dec[s] # 0
      BY <2>3
    <3>2. topCount'[s] = dec[s] /\ dec[s] = topCount[s] - 1 /\ topCount'[s] \in 0 .. MapSize
      BY <2>3, <1>14, <1>15, <1>17
    <3> HIDE DEF dec, kept
    <3>3. dec[s] # 0 => topCount[s] > 0
      BY <3>2, <1>3, QueueAssumption
    <3>4. dec[s] # 0 <=> topCount'[s] > 0
      <4>1. topCount'[s] = dec[s] /\ topCount'[s] \in Nat
        BY <3>2, QueueAssumption
      <4> QED
        BY ONLY <4>1
    <3> QED
      BY <2>3, <3>1, <3>3, <3>4, <1>18, <1>20
  <2> QED
    BY <2>1, <2>2, <2>3
<1>23. \A s \in Seed : hasTrace'[s] => trace'[s] = cov'[s]
  <2> SUFFICES ASSUME NEW s \in Seed, hasTrace'[s] PROVE trace'[s] = cov'[s]
    OBVIOUS
  <2>1. cov' = cov
    BY DEF UpdateQueueTop
  <2>2. kept[s] => hasTrace[s]
    OBVIOUS
  <2> HIDE DEF kept
  <2> QED
    BY <2>1, <2>2, <1>1, <1>18, <1>19, <1>21
<1> QED
  BY <1>16, <1>17, <1>22, <1>23 DEF TopCountExact

\* The initial states satisfy the invariant: no seed has been rated.
LEMMA InitEstablishesInv == Init => QueueInv
<1> SUFFICES ASSUME Init PROVE QueueInv
  OBVIOUS
<1>1. TypeOK
  <2>1. /\ hasTrace \in [Seed -> BOOLEAN] /\ favored \in [Seed -> BOOLEAN]
        /\ wasFuzzed \in [Seed -> BOOLEAN]
        /\ scoreChange \in BOOLEAN /\ pendFavor \in BOOLEAN
    BY Zenon DEF Init
  <2> QED
    BY <2>1, QueueAssumption DEF Init, TypeOK, End, Seed, Loc
<1>2. TopCountExact
  <2> SUFFICES ASSUME NEW s \in Seed
               PROVE  /\ topCount[s] = Cardinality({l \in Loc : queueTop[l] = s})
                      /\ hasTrace[s] <=> topCount[s] > 0
                      /\ hasTrace[s] => trace[s] = cov[s]
    BY DEF TopCountExact
  <2>1. {l \in Loc : queueTop[l] = s} = {}
    BY QueueAssumption DEF Init, Seed, End
  <2>2. ~hasTrace[s] /\ topCount[s] = 0
    BY DEF Init
  <2> QED
    BY <2>1, <2>2, FS_EmptySet
<1>3. TopInv
  BY DEF Init, TopInv
<1>4. DryInv
  BY DEF Init, DryInv
<1>5. CullInv
  BY DEF Init, CullInv
<1> QED
  BY <1>1, <1>2, <1>3, <1>4, <1>5 DEF QueueInv

\* Every step keeps the types.
LEMMA TypeStep == ASSUME QueueInv, [Next]_vars PROVE TypeOK'
<1> USE QueueAssumption DEF QueueInv, TypeOK, Seed, Loc, End
<1>1. CASE CalibrateCase
  BY <1>1 DEF CalibrateCase, top, cull
<1>2. CASE CalibrateFault
  BY <1>2 DEF CalibrateFault, top, cull
<1>3. CASE UpdateQueueTop
  <2>1. topCount' \in [Seed -> 0 .. MapSize]
    BY <1>3, UpdateCounts
  <2>2. hasTrace' \in [Seed -> BOOLEAN]
    <3> DEFINE dec == IF queueTop[i] = End THEN topCount
                      ELSE [topCount EXCEPT ![queueTop[i]] = @ - 1]
               kept == [s \in Seed |-> hasTrace[s] /\ ~(s = queueTop[i] /\ dec[s] = 0)]
    <3>1. hasTrace' = [kept EXCEPT ![cur] = TRUE]
      BY <1>3 DEF UpdateQueueTop
    <3>2. \A s \in Seed : kept[s] \in BOOLEAN
      BY Zenon
    <3>3. DOMAIN kept = Seed
      BY Zenon
    <3> HIDE DEF kept
    <3> QED
      BY <3>1, <3>2, <3>3, Zenon
  <2>3. trace' \in [Seed -> SUBSET Loc]
    BY <1>3 DEF UpdateQueueTop
  <2>4. queueTop' \in [Loc -> Seed \cup {End}]
    BY <1>3 DEF UpdateQueueTop, DryInv
  <2>5. /\ i < MapSize /\ i' = i + 1 /\ scoreChange' = TRUE
        /\ UNCHANGED <<pc, size, cur, globalTraceBit, score, favored, pendFavor,
                       traceRecord, wasFuzzed, cov>>
    BY <1>3 DEF UpdateQueueTop, cull
  <2>6. i' \in 0 .. MapSize
    BY <2>5
  <2> QED
    BY <2>1, <2>2, <2>3, <2>4, <2>5, <2>6
<1>4. CASE UpdateSkips
  BY <1>4 DEF UpdateSkips, top, cull
<1>5. CASE UpdateDone
  BY <1>5 DEF UpdateDone, DryInv, top, cull
<1>6. CASE DryRunDone
  BY <1>6 DEF DryRunDone, top, cull
<1>7. CASE CullNothing
  BY <1>7 DEF CullNothing, top, cull
<1>8. CASE CullQueue
  <2>1. favored' \in [Seed -> BOOLEAN]
    BY <1>8, Zenon DEF CullQueue
  <2>2. /\ pc' = "culling" /\ i' = 0 /\ traceRecord' = {}
        /\ scoreChange' = FALSE /\ pendFavor' = FALSE
        /\ UNCHANGED <<size, cur, globalTraceBit, score, hasTrace, trace, topCount,
                       queueTop, wasFuzzed, cov>>
    BY <1>8 DEF CullQueue, top
  <2>3. i' \in 0 .. MapSize
    BY <2>2
  <2> QED
    BY <2>1, <2>2, <2>3
<1>9. CASE CullLocation
  <2>1. favored' \in [Seed -> BOOLEAN]
    <3>1. \/ favored' = favored
          \/ favored' = [favored EXCEPT ![queueTop[i]] = TRUE]
      BY <1>9 DEF CullLocation, cull
    <3> QED
      BY <3>1, Zenon
  <2>4. pendFavor' \in BOOLEAN
    BY <1>9 DEF CullLocation, cull
  <2>2. traceRecord' \in SUBSET Loc
    <3>1. \/ traceRecord' = traceRecord
          \/ /\ queueTop[i] # End
             /\ traceRecord' = traceRecord \cup
                    (IF hasTrace[queueTop[i]] THEN trace[queueTop[i]] ELSE {})
      BY <1>9 DEF CullLocation, cull
    <3>2. queueTop[i] # End => trace[queueTop[i]] \in SUBSET Loc
      BY <1>9 DEF CullLocation
    <3> QED
      BY <3>1, <3>2, Zenon
  <2> QED
    BY <1>9, <2>1, <2>2, <2>4 DEF CullLocation, top
<1>10. CASE CullDone
  BY <1>10 DEF CullDone, top, cull
<1>11. CASE Skip
  BY <1>11 DEF Skip, Current, top, cull
<1>12. CASE FuzzMain
  BY <1>12 DEF FuzzMain, Current, top, cull
<1>13. CASE AddInterestingSeed
  BY <1>13 DEF AddInterestingSeed, top, cull
<1>14. CASE FuzzMainDone
  <2>1. wasFuzzed' \in [Seed -> BOOLEAN]
    BY <1>14, Zenon DEF FuzzMainDone
  <2> QED
    BY <1>14, <2>1 DEF FuzzMainDone, DryInv, top, cull
<1>16. CASE FuzzMainError
  BY <1>16 DEF FuzzMainError, DryInv, top, cull
<1>17. CASE UNCHANGED vars
  BY <1>17 DEF vars, top, cull
<1> QED
  BY <1>1, <1>2, <1>3, <1>4, <1>5, <1>6, <1>7, <1>8, <1>9, <1>10, <1>11, <1>12, <1>13, <1>14, <1>16, <1>17 DEF Next, DryRunning, Culling, Fuzzing

\* Only UpdateQueueTop touches the table and the counts, and only CalibrateCase
\* the coverage, of a seed that has no trace yet.
LEMMA CountStep == ASSUME QueueInv, [Next]_vars PROVE TopCountExact'
<1> USE DEF QueueInv
<1>1. CASE CalibrateCase
  <2>1. cur \in Seed /\ cov[cur] = {}
    BY <1>1, QueueAssumption DEF CalibrateCase, TypeOK, DryInv, Seed
  <2>2. ~hasTrace[cur]
    BY <2>1, UncoveredIsNoTop
  <2>3. \A s \in Seed : s # cur => cov'[s] = cov[s]
    BY <1>1 DEF CalibrateCase, TypeOK
  <2>4. UNCHANGED <<hasTrace, trace, topCount, queueTop>>
    BY <1>1 DEF CalibrateCase, top
  <2> QED
    BY <2>2, <2>3, <2>4 DEF TopCountExact
<1>2. CASE UpdateQueueTop
  BY <1>2, UpdateCounts
<1>3. CASE UNCHANGED <<top, cov>>
  BY <1>3 DEF TopCountExact, top
<1> QED
  BY <1>1, <1>2, <1>3
  DEF Next, DryRunning, Culling, Fuzzing, vars, CalibrateFault, UpdateSkips, UpdateDone,
      DryRunDone, CullNothing, CullQueue, CullLocation, CullDone, Skip, FuzzMain,
      AddInterestingSeed, FuzzMainDone, FuzzMainError

\* The dry run rates one seed after the other, and a seed that is appended later
\* is never rated.
LEMMA DryStep == ASSUME QueueInv, [Next]_vars PROVE DryInv'
<1> USE QueueAssumption DEF QueueInv, DryInv
<1>1. CASE CalibrateCase
  <2>1. /\ pc = "dry" /\ pc' = "update" /\ cur <= size /\ UNCHANGED <<size, cur>>
        /\ cov' = [cov EXCEPT ![cur] = globalTraceBit']
    BY <1>1 DEF CalibrateCase
  <2>2. cur \in Seed /\ size \in Nat /\ cov \in [Seed -> SUBSET Loc]
    BY <2>1 DEF TypeOK, Seed
  <2>3. \A s \in Seed : s > cur => cov'[s] = {}
    BY <2>1, <2>2 DEF Seed
  <2>4. \A s \in Seed : s > size => cov'[s] = {}
    BY <2>1, <2>2 DEF Seed
  <2>5. cov'[cur] = globalTraceBit'
    BY <2>1, <2>2
  <2> QED
    BY <2>1, <2>3, <2>4, <2>5
<1>2. CASE CalibrateFault \/ UpdateDone \/ DryRunDone
  BY <1>2 DEF CalibrateFault, UpdateDone, DryRunDone, TypeOK, Seed
<1>6. CASE UpdateQueueTop \/ UpdateSkips
  <2>1. UNCHANGED <<pc, size, cur, cov, globalTraceBit>>
    BY <1>6 DEF UpdateQueueTop, UpdateSkips
  <2> QED
    BY <2>1
<1>3. CASE Culling
  BY <1>3 DEF Culling, CullNothing, CullQueue, CullLocation, CullDone
<1>4. CASE Fuzzing
  <2>1. /\ pc \notin {"dry", "update"} /\ pc' \notin {"dry", "update"}
        /\ cov' = cov /\ size' >= size /\ size \in Nat /\ size' \in Nat
    BY <1>4 DEF Fuzzing, Skip, FuzzMain, AddInterestingSeed, FuzzMainDone,
                FuzzMainError, TypeOK
  <2>2. \A s \in Seed : s > size' => cov'[s] = {}
    BY <2>1 DEF Seed
  <2>3. CASE FuzzMain
    BY <2>1, <2>2, <2>3 DEF FuzzMain, Current, TypeOK
  <2>4. CASE AddInterestingSeed
    <3>1. pc = "fuzz" /\ cur' = cur
      BY <2>4 DEF AddInterestingSeed
    <3>2. cur \in Nat /\ cur <= size
      BY <3>1 DEF TypeOK
    <3> QED
      BY <2>1, <2>2, <3>1, <3>2
  <2>5. CASE Skip \/ FuzzMainDone \/ FuzzMainError
    <3>1. pc' = "cull"
      BY <2>5 DEF Skip, FuzzMainDone, FuzzMainError
    <3> QED
      BY <2>1, <2>2, <3>1
  <2> QED
    BY <1>4, <2>3, <2>4, <2>5 DEF Fuzzing
<1>5. CASE UNCHANGED vars
  BY <1>5 DEF vars
<1> QED
  BY <1>1, <1>2, <1>3, <1>4, <1>5, <1>6 DEF Next, DryRunning

\* Each step of UpdateQueueTop's loop settles one location for the seed at cur:
\* it becomes the top, or the present top is cheaper.
LEMMA TopStep == ASSUME QueueInv, [Next]_vars PROVE TopInv'
<1> USE QueueAssumption DEF QueueInv
<1>0. /\ \A l \in Loc : queueTop[l] \in Seed \cup {End}
      /\ \A s \in Seed : score[s] \in Nat
      /\ i \in Nat /\ cur \in Nat /\ size \in Nat
  <2>1. score \in [Seed -> Scores \cup {0}] /\ Scores \cup {0} \subseteq Nat
    BY DEF TypeOK
  <2>2. \A s \in Seed : score[s] \in Nat
    BY <2>1
  <2> QED
    BY <2>2 DEF TypeOK
<1>1. CASE CalibrateCase
  <2>1. /\ cur \in Seed /\ cov[cur] = {} /\ pc = "dry" /\ pc' = "update" /\ i' = 0
        /\ UNCHANGED <<cur, queueTop>>
    BY <1>1 DEF CalibrateCase, TypeOK, DryInv, Seed, top
  <2>2. \A l \in Loc : queueTop[l] # cur
    BY <2>1, UncoveredIsNoTop
  <2>3. \A s \in Seed : s # cur => cov'[s] = cov[s] /\ score'[s] = score[s]
    BY <1>1 DEF CalibrateCase, TypeOK
  <2>4. \A l \in Loc : ~(l < 0)
    BY DEF Loc
  <2> QED
    BY <1>0, <2>1, <2>2, <2>3, <2>4 DEF TopInv
<1>2. CASE UpdateQueueTop
  <2>1. /\ i \in Loc /\ cur \in Seed /\ cur # End
        /\ pc = "update" /\ pc' = "update" /\ i' = i + 1
        /\ UNCHANGED <<cur, score, cov>>
    BY <1>2 DEF UpdateQueueTop, TypeOK, DryInv, Loc, Seed, End
  <2>2. \A l \in Loc : queueTop'[l] = IF l = i THEN cur ELSE queueTop[l]
    BY <1>2 DEF UpdateQueueTop, TypeOK
  <2>3. i \in cov[cur] /\ (queueTop[i] # End => score[cur] <= score[queueTop[i]])
    BY <1>2 DEF UpdateQueueTop, Replaces, DryInv
  <2>4. \A l \in Loc : l < i + 1 <=> l < i \/ l = i
    BY <1>0 DEF Loc
  <2>5. \A l \in Loc : queueTop'[l] # End => l \in cov[queueTop'[l]]
    BY <2>1, <2>2, <2>3 DEF TopInv
  <2>6. \A l \in Loc : queueTop'[l] = cur => l < i + 1
    BY <2>1, <2>2, <2>4 DEF TopInv
  <2>7. ASSUME NEW l \in Loc, NEW s \in Seed, l \in cov[s], s = cur => l < i + 1
        PROVE  queueTop'[l] # End /\ score[queueTop'[l]] <= score[s]
    <3>1. CASE l # i
      BY <2>1, <2>2, <2>4, <2>7, <3>1 DEF TopInv
    <3>2. CASE l = i /\ s = cur
      BY <1>0, <2>1, <2>2, <3>2
    <3>3. CASE l = i /\ s # cur
      <4>1. queueTop[i] # End /\ score[queueTop[i]] <= score[s]
        BY <2>7, <3>3 DEF TopInv
      <4>2. score[cur] <= score[s]
        <5>1. queueTop[i] \in Seed
          BY <1>0, <2>1, <4>1
        <5>2. score[cur] \in Nat /\ score[queueTop[i]] \in Nat /\ score[s] \in Nat
          BY <1>0, <2>1, <5>1
        <5>3. score[cur] <= score[queueTop[i]] /\ score[queueTop[i]] <= score[s]
          BY <2>3, <4>1
        <5> QED
          BY ONLY <5>2, <5>3
      <4> QED
        BY <2>1, <2>2, <3>3, <4>2
    <3> QED
      BY <3>1, <3>2, <3>3
  <2> QED
    BY <2>1, <2>5, <2>6, <2>7 DEF TopInv
<1>3. CASE UpdateSkips
  <2>1. /\ i \in Loc /\ cur \in Seed
        /\ pc = "update" /\ pc' = "update" /\ i' = i + 1
        /\ UNCHANGED <<cur, score, cov, queueTop>>
    BY <1>3 DEF UpdateSkips, TypeOK, DryInv, Loc, Seed, top
  <2>2. i \in cov[cur] => queueTop[i] # End /\ score[queueTop[i]] <= score[cur]
    <3> SUFFICES ASSUME i \in cov[cur]
                 PROVE  queueTop[i] # End /\ score[queueTop[i]] <= score[cur]
      OBVIOUS
    <3>1. queueTop[i] # End /\ ~(score[cur] <= score[queueTop[i]])
      BY <1>3 DEF UpdateSkips, Replaces, DryInv
    <3>2. score[cur] \in Nat /\ score[queueTop[i]] \in Nat
      BY <1>0, <2>1, <3>1
    <3>3. score[queueTop[i]] <= score[cur]
      BY ONLY <3>1, <3>2
    <3> QED
      BY <3>1, <3>3
  <2>3. \A l \in Loc : l < i + 1 <=> l < i \/ l = i
    BY <1>0 DEF Loc
  <2> QED
    BY <2>1, <2>2, <2>3 DEF TopInv
<1>4. CASE UpdateDone
  <2>1. \A l \in Loc : l < i
    BY <1>4 DEF UpdateDone, Loc
  <2> QED
    BY <1>4, <2>1 DEF UpdateDone, TopInv, top
<1>5. CASE AddInterestingSeed
  <2>1. /\ size + 1 \in Seed /\ cov[size + 1] = {}
        /\ pc # "update" /\ pc' # "update" /\ UNCHANGED <<cov, queueTop>>
    BY <1>0, <1>5 DEF AddInterestingSeed, DryInv, Seed, top
  <2>2. \A l \in Loc : queueTop[l] # size + 1
    BY <2>1, UncoveredIsNoTop
  <2>3. \A s \in Seed : s # size + 1 => score'[s] = score[s]
    BY <1>5 DEF AddInterestingSeed, TypeOK
  <2> QED
    BY <1>0, <2>1, <2>2, <2>3 DEF TopInv
<1>6. CASE pc # "update" /\ pc' # "update" /\ UNCHANGED <<queueTop, cov, score>>
  BY <1>6 DEF TopInv
<1>7. CASE UNCHANGED vars
  BY <1>7 DEF vars, top, TopInv
<1> QED
  BY <1>1, <1>2, <1>3, <1>4, <1>5, <1>6, <1>7
  DEF Next, DryRunning, Culling, Fuzzing, top, CalibrateFault, DryRunDone, CullNothing,
      CullQueue, CullLocation, CullDone, Skip, FuzzMain, FuzzMainDone,
      FuzzMainError

\* Each step of CullQueue's loop covers one more location, by a seed that is
\* favored now or was before; nothing after the loop changes that.
LEMMA CullStep == ASSUME QueueInv, [Next]_vars PROVE CullInv'
<1> USE QueueAssumption DEF QueueInv
<1>1. CASE CalibrateCase
  BY <1>1 DEF CalibrateCase, CullInv, top, cull
<1>2. CASE UpdateQueueTop
  BY <1>2 DEF UpdateQueueTop, CullInv, cull
<1>3. CASE CalibrateFault \/ UpdateSkips \/ UpdateDone
  BY <1>3 DEF CalibrateFault, UpdateSkips, UpdateDone, CullInv, top, cull
<1>4. CASE DryRunDone
  BY <1>4 DEF DryRunDone, CullInv, top, cull
<1>5. CASE CullQueue
  <2>1. \A l \in Loc : ~(l < 0)
    BY DEF Loc
  <2>2. \A s \in Seed : ~favored'[s]
    BY <1>5, Zenon DEF CullQueue
  <2>3. pc' = "culling" /\ i' = 0 /\ scoreChange' = FALSE /\ traceRecord' = {}
    BY <1>5 DEF CullQueue
  <2> QED
    BY <2>1, <2>2, <2>3 DEF CullInv
<1>6. CASE CullLocation
  <2>1. /\ i \in Loc /\ pc = "culling" /\ pc' = "culling" /\ i' = i + 1 /\ ~scoreChange
        /\ UNCHANGED <<queueTop, cov, wasFuzzed, scoreChange>>
    BY <1>6 DEF CullLocation, CullInv, TypeOK, Loc, top
  <2>2. \A l \in Loc : l < i + 1 <=> l < i \/ l = i
    BY <2>1 DEF Loc
  <2>3. CASE queueTop[i] # End /\ i \notin traceRecord
    <3> DEFINE t == queueTop[i]
    <3>1. t \in Seed /\ hasTrace[t] /\ trace[t] = cov[t] /\ i \in cov[t]
      BY <2>1, <2>3, TopHasTrace DEF TopInv
    <3>2. /\ traceRecord' = traceRecord \cup cov[t]
          /\ favored' = [favored EXCEPT ![t] = TRUE]
          /\ pendFavor' = (pendFavor \/ ~wasFuzzed[t])
      BY <1>6, <2>3, <3>1 DEF CullLocation
    <3>3. \A s \in Seed : favored'[s] <=> s = t \/ favored[s]
      BY <3>1, <3>2, Zenon DEF TypeOK
    <3>4. \A l \in traceRecord' : \E f \in Seed : favored'[f] /\ l \in cov[f]
      BY <3>1, <3>2, <3>3 DEF CullInv
    <3>5. \A l \in Loc : queueTop[l] # End /\ l < i + 1 => l \in traceRecord'
      BY <2>1, <2>2, <3>1, <3>2 DEF CullInv
    <3>6. \A s \in Seed : favored'[s] /\ ~wasFuzzed[s] => pendFavor'
      BY <3>1, <3>2, <3>3 DEF CullInv
    <3> QED
      BY <2>1, <3>4, <3>5, <3>6 DEF CullInv
  <2>4. CASE ~(queueTop[i] # End /\ i \notin traceRecord)
    <3>1. UNCHANGED <<favored, pendFavor, traceRecord>>
      BY <1>6, <2>4 DEF CullLocation, cull
    <3> QED
      BY <2>1, <2>2, <2>4, <3>1 DEF CullInv
  <2> QED
    BY <2>3, <2>4
<1>7. CASE CullDone
  <2>1. \A l \in Loc : l < i
    BY <1>7 DEF CullDone, Loc
  <2> QED
    BY <1>7, <2>1 DEF CullDone, CullInv, top, cull
<1>8. CASE FuzzMainDone
  <2>1. \A s \in Seed : wasFuzzed[s] => wasFuzzed'[s]
    BY <1>8 DEF FuzzMainDone, TypeOK
  <2> QED
    BY <1>8, <2>1 DEF FuzzMainDone, CullInv, top, cull
<1>9. CASE CullNothing
  BY <1>9 DEF CullNothing, CullInv, top, cull
<1>10. CASE Skip \/ FuzzMain \/ AddInterestingSeed \/ FuzzMainError
  BY <1>10 DEF Skip, FuzzMain, AddInterestingSeed, FuzzMainError,
               CullInv, top, cull
<1>11. CASE UNCHANGED vars
  BY <1>11 DEF vars, CullInv, top, cull
<1> QED
  BY <1>1, <1>2, <1>3, <1>4, <1>5, <1>6, <1>7, <1>8, <1>9, <1>10, <1>11
  DEF Next, DryRunning, Culling, Fuzzing

\* The inductive invariant: while the loops run it says how far they have come.
THEOREM QueueInvariance == Spec => []QueueInv
<1>1. QueueInv /\ [Next]_vars => QueueInv'
  BY TypeStep, CountStep, DryStep, TopStep, CullStep DEF QueueInv
<1> QED
  BY <1>1, InitEstablishesInv, PTL DEF Spec

\* The queue is type correct; in particular no loop leaves the map and no count
\* of UpdateQueueTop drops below zero.
THEOREM QueueTypeCorrect == Spec => []TypeOK
<1>1. QueueInv => TypeOK
  BY DEF QueueInv
<1> QED
  BY <1>1, QueueInvariance, PTL

\* topCount is exact, and a trace is kept exactly as long as its seed is a top.
THEOREM TopCountsAreExact == Spec => []TopCountExact
<1>1. QueueInv => TopCountExact
  BY DEF QueueInv
<1> QED
  BY <1>1, QueueInvariance, PTL

\* After the dry run the top of a location is the cheapest seed that hits it.
THEOREM TopsAreCheapest == Spec => []TopIsCheapest
<1>1. QueueInv => TopIsCheapest
  BY DEF QueueInv, TopInv, TopIsCheapest
<1> QED
  BY <1>1, QueueInvariance, PTL

\* The favored seeds hit everything that the calibrated seeds hit.
THEOREM FavoredSeedsCover == Spec => []FavoredCover
<1>1. QueueInv => FavoredCover
  BY DEF QueueInv, TypeOK, TopInv, CullInv, FavoredCover
<1> QED
  BY <1>1, QueueInvariance, PTL

\* pendFavor is set while a favored seed has not been fuzzed.
THEOREM PendingIsFlagged == Spec => []FavoredPending
<1>1. QueueInv => FavoredPending
  BY DEF QueueInv, CullInv, FavoredPending
<1> QED
  BY <1>1, QueueInvariance, PTL

\* A favored seed that has not been fuzzed is taken up when the loop comes to
\* it, and no later step of the loop makes it give up its place.
THEOREM FavoredTaken == Spec => FavoredAreTaken
<1>1. ASSUME QueueInv, Next, pc \in {"pick", "fuzz"}
      PROVE  ~scoreChange' /\ favored' = favored
  <2>1. ~scoreChange
    BY <1>1 DEF QueueInv, CullInv
  <2>2. Fuzzing
    BY <1>1 DEF Next, DryRunning, CalibrateCase, CalibrateFault, UpdateQueueTop,
       UpdateSkips, UpdateDone, DryRunDone, Culling, CullNothing, CullQueue,
       CullLocation, CullDone
  <2>3. UNCHANGED <<scoreChange, favored>>
    BY <2>2 DEF Fuzzing, Skip, FuzzMain, AddInterestingSeed, FuzzMainDone,
       FuzzMainError, cull
  <2> QED
    BY <2>1, <2>3
<1>2. ASSUME QueueInv, Next, pc = "pick", favored[Current], ~wasFuzzed[Current]
      PROVE  pc' = "fuzz" /\ cur' = Current
  <2>1. Current \in Seed
    BY <1>2, QueueAssumption DEF QueueInv, TypeOK, Current, Seed
  <2>2. ~MaySkip(Current)
    BY <1>2, <2>1 DEF QueueInv, CullInv, MaySkip
  <2>3. FuzzMain
    BY <1>2, <2>2 DEF Next, DryRunning, CalibrateCase, CalibrateFault, UpdateQueueTop,
       UpdateSkips, UpdateDone, DryRunDone, Culling, CullNothing, CullQueue,
       CullLocation, CullDone, Fuzzing, Skip, AddInterestingSeed, FuzzMainDone,
       FuzzMainError
  <2> QED
    BY <2>3 DEF FuzzMain
<1>3. QueueInv /\ [Next]_vars =>
        [/\ pc \in {"pick", "fuzz"} => ~scoreChange' /\ favored' = favored
         /\ pc = "pick" /\ favored[Current] /\ ~wasFuzzed[Current] =>
                pc' = "fuzz" /\ cur' = Current]_vars
  BY <1>1, <1>2
<1> QED
  BY <1>3, QueueInvariance, PTL DEF Spec, FavoredAreTaken

=============================================================================
