--------------------------- MODULE DriverProofs ----------------------------
(***************************************************************************)
(* The test driver: its node manager, and main() on top of it.             *)
(*                                                                         *)
(* NMInv is an inductive invariant of the node manager, for every number   *)
(* of nodes and starts, every tracer and every choice of operators.  The   *)
(* properties of the manager follow from it, whoever calls it.  MainInv    *)
(* adds where main() is, and what it has seen and decided so far: from it  *)
(* follow what the verdict of a run means, and that every step of main()   *)
(* is a step of the abstract run of TestRun or none.                       *)
(***************************************************************************)
EXTENDS TestMain, TLAPS

\* Zenon is tried first, then SMT, then Zenon for longer.
USE ZenonT(5), SMTT(15), ZenonT(20)

USE NodeAssumption DEF Node

\* The manager starts in a state that satisfies the inductive invariant.
LEMMA NMInitEstablishesInv == NMInit => NMInv
  BY DEF NMInit, NMInv, NMTypeOK, Call, Waiting, TracerInv, StartInv, CheckInv,
         OrphansBounded

\* A dead tracer leaves a whole number of servers behind.
LEMMA LeftBehindType == \A n : LeftBehind(n) \in Nat
  BY DEF LeftBehind

\* So the number of servers a node has left behind stays a natural number.
LEMMA OrphansType ==
    ASSUME NMTypeOK, NEW n \in Node,
           orphans' = [orphans EXCEPT ![n] = @ + LeftBehind(n)]
    PROVE  orphans' \in [Node -> Nat]
<1>1. orphans \in [Node -> Nat]
  BY DEF NMTypeOK
<1>2. orphans[n] + LeftBehind(n) \in Nat
  BY <1>1, LeftBehindType
<1> HIDE DEF Node
<1> QED
  BY <1>1, <1>2

\* One step of start_all, the calls of start_process included, keeps the
\* inductive invariant.
LEMMA StartAllKeepsInv ==
    ASSUME NMInv, UNCHANGED tracer, start_all \/ StartAllNode \/ StartAllDone
    PROVE  NMInv'
<1> USE DEF table, procs, control, history
<1>1. CASE start_all
  <2>1. NMTypeOK'
    BY <1>1 DEF NMInv, NMTypeOK, Call, start_all
  <2>2. ASSUME NEW m \in Node PROVE TracerInv(m)'
    <3>1. /\ process[m] = "none" /\ ~server[m] /\ ~term'[m] /\ m \notin died \ masked
          /\ UNCHANGED <<procs, died, masked>>
      BY <1>1, <2>2 DEF NMInv, NMTypeOK, TracerInv, StartInv, start_all
    <3> QED
      BY <2>2, <3>1 DEF NMTypeOK, TracerInv
  <2>3. ASSUME NEW m \in Node PROVE StartInv(m)'
    <3>1. m < node_count => should_alive'[m]
      BY <1>1, <2>3 DEF start_all
    <3> QED
      BY <1>1, <2>3, <3>1 DEF NMInv, NMTypeOK, StartInv, start_all
  <2>4. CheckInv'
    BY <1>1 DEF NMInv, NMTypeOK, CheckInv, TracerInv, StartInv, start_all
  <2>5. (cursor <= node_count)' /\ (Waiting => cursor < node_count)'
    BY <1>1 DEF NMInv, NMTypeOK, Waiting, start_all
  <2>6. OrphansBounded'
    BY <1>1 DEF NMInv, NMTypeOK, OrphansBounded, TracerInv, start_all
  <2> QED
    BY <2>1, <2>2, <2>3, <2>4, <2>5, <2>6 DEF NMInv
<1>2. CASE StartAllNode
  <2>1. cursor \in Node
    BY <1>2 DEF NMInv, NMTypeOK, StartAllNode
  <2>2. NMTypeOK'
    <3>1. start_process(cursor) /\ cursor' \in 0 .. MaxNodes
      BY <1>2 DEF NMInv, NMTypeOK, StartAllNode
    <3>2. log_index' \in [Node -> Nat] /\ orphans' \in [Node -> Nat]
      <4>1. log_index' \in [Node -> Nat]
        BY <2>1, <3>1 DEF NMInv, NMTypeOK, start_process
      <4>2. orphans' \in [Node -> Nat]
        BY <2>1, <3>1, OrphansType DEF NMInv, start_process
      <4> QED
        BY <4>1, <4>2
    <3>3. /\ process' \in [Node -> {"none", "running", "dead"}]
          /\ server' \in [Node -> BOOLEAN] /\ term' \in [Node -> BOOLEAN]
      BY <2>1, <3>1 DEF NMInv, NMTypeOK, start_process
    <3> QED
      BY <1>2, <3>1, <3>2, <3>3 DEF NMInv, NMTypeOK, StartAllNode
  <2>3. ASSUME NEW m \in Node PROVE TracerInv(m)'
    BY <1>2, <2>1 DEF NMInv, NMTypeOK, TracerInv, StartInv, Waiting, StartAllNode,
       start_process, LeftBehind
  <2>4. ASSUME NEW m \in Node PROVE StartInv(m)'
    BY <1>2, <2>1 DEF NMInv, NMTypeOK, StartInv, TracerInv, StartAllNode,
       start_process, LeftBehind
  <2>5. CheckInv'
    BY <1>2, <2>1 DEF NMInv, NMTypeOK, CheckInv, TracerInv, StartInv, StartAllNode,
       start_process, LeftBehind
  <2>6. (cursor <= node_count)' /\ (Waiting => cursor < node_count)'
    BY <1>2, <2>1 DEF NMInv, NMTypeOK, Waiting, StartAllNode, start_process,
       LeftBehind
  <2>7. OrphansBounded'
    BY <1>2, <2>1 DEF NMInv, NMTypeOK, OrphansBounded, TracerInv, StartAllNode,
       start_process, LeftBehind
  <2> QED
    BY <2>2, <2>3, <2>4, <2>5, <2>6, <2>7 DEF NMInv
<1>3. CASE StartAllDone
  <2>1. NMTypeOK'
    BY <1>3 DEF NMInv, NMTypeOK, Call, StartAllDone, EnterCheck, Missing, Known
  <2>2. ASSUME NEW m \in Node PROVE TracerInv(m)'
    BY <1>3 DEF NMInv, NMTypeOK, TracerInv, StartInv, Waiting, StartAllDone,
       EnterCheck, Missing, Known
  <2>3. ASSUME NEW m \in Node PROVE StartInv(m)'
    BY <1>3 DEF NMInv, NMTypeOK, StartInv, TracerInv, StartAllDone, EnterCheck,
       Missing, Known
  <2>4. CheckInv'
    BY <1>3 DEF NMInv, NMTypeOK, CheckInv, TracerInv, StartInv, StartAllDone,
       EnterCheck, Missing, Known
  <2>5. (cursor <= node_count)' /\ (Waiting => cursor < node_count)'
    BY <1>3 DEF NMInv, NMTypeOK, Waiting, StartAllDone, EnterCheck, Missing, Known
  <2>6. OrphansBounded'
    BY <1>3 DEF NMInv, NMTypeOK, OrphansBounded, TracerInv, StartAllDone,
       EnterCheck, Missing, Known
  <2> QED
    BY <2>1, <2>2, <2>3, <2>4, <2>5, <2>6 DEF NMInv
<1> QED
  BY <1>1, <1>2, <1>3

\* One step of check keeps the inductive invariant.
LEMMA CheckKeepsInv ==
    ASSUME NMInv, UNCHANGED tracer, check \/ CheckNode \/ CheckDone
    PROVE  NMInv'
<1> USE DEF table, procs, control, history
<1>1. CASE check
  <2>1. NMTypeOK'
    BY <1>1 DEF NMInv, NMTypeOK, Call, check, EnterCheck, Missing, Known
  <2>2. ASSUME NEW m \in Node PROVE TracerInv(m)'
    BY <1>1 DEF NMInv, NMTypeOK, TracerInv, StartInv, Waiting, check, EnterCheck,
       Missing, Known
  <2>3. ASSUME NEW m \in Node PROVE StartInv(m)'
    BY <1>1 DEF NMInv, NMTypeOK, StartInv, TracerInv, check, EnterCheck, Missing,
       Known
  <2>4. CheckInv'
    BY <1>1 DEF NMInv, NMTypeOK, CheckInv, TracerInv, StartInv, check, EnterCheck,
       Missing, Known
  <2>5. (cursor <= node_count)' /\ (Waiting => cursor < node_count)'
    BY <1>1 DEF NMInv, NMTypeOK, Waiting, check, EnterCheck, Missing, Known
  <2>6. OrphansBounded'
    BY <1>1 DEF NMInv, NMTypeOK, OrphansBounded, TracerInv, check, EnterCheck,
       Missing, Known
  <2> QED
    BY <2>1, <2>2, <2>3, <2>4, <2>5, <2>6 DEF NMInv
<1>2. CASE CheckNode
  <2>1. cursor \in Node /\ cursor < node_count /\ call = "checking"
    BY <1>2 DEF NMInv, NMTypeOK, CheckNode
  <2>2. ~Matches(cursor) => crashed[cursor] \/ lingering[cursor]
    <3>1. TracerInv(cursor) /\ StartInv(cursor)
      BY <2>1 DEF NMInv
    <3> QED
      BY <2>1, <3>1 DEF NMInv, NMTypeOK, TracerInv, StartInv, Waiting, Matches
  <2>3. Matches(cursor) => cursor \notin missing
    BY <2>1 DEF NMInv, CheckInv, Matches
  <2>4. NMTypeOK'
    <3>1. CASE Matches(cursor)
      BY <1>2, <2>1, <3>1 DEF NMInv, NMTypeOK, CheckNode
    <3>2. CASE ~Matches(cursor)
      <4>1. call' = "idle" /\ cursor' = 0 /\ ret' \in BOOLEAN
        BY <1>2, <3>2 DEF CheckNode
      <4> QED
        BY <1>2, <4>1 DEF NMInv, NMTypeOK, Call, CheckNode
    <3> QED
      BY <3>1, <3>2
  <2>5. ASSUME NEW m \in Node PROVE TracerInv(m)'
    BY <1>2, <2>1, <2>2, <2>3 DEF NMInv, NMTypeOK, TracerInv, StartInv, Waiting,
       CheckNode
  <2>6. ASSUME NEW m \in Node PROVE StartInv(m)'
    BY <1>2, <2>1, <2>2, <2>3 DEF NMInv, NMTypeOK, StartInv, TracerInv, CheckNode
  <2>7. CheckInv'
    <3>1. CASE Matches(cursor)
      BY <1>2, <2>1, <2>3, <3>1 DEF NMInv, NMTypeOK, CheckInv, CheckNode
    <3>2. CASE ~Matches(cursor)
      BY <1>2, <2>1, <2>2, <3>2 DEF NMInv, NMTypeOK, CheckInv, CheckNode
    <3> QED
      BY <3>1, <3>2
  <2>8. (cursor <= node_count)' /\ (Waiting => cursor < node_count)'
    BY <1>2, <2>1, <2>2, <2>3 DEF NMInv, NMTypeOK, Waiting, CheckNode
  <2>9. OrphansBounded'
    BY <1>2, <2>1, <2>2, <2>3 DEF NMInv, NMTypeOK, OrphansBounded, TracerInv,
       CheckNode
  <2> QED
    BY <2>4, <2>5, <2>6, <2>7, <2>8, <2>9 DEF NMInv
<1>3. CASE CheckDone
  <2>1. NMTypeOK'
    BY <1>3 DEF NMInv, NMTypeOK, Call, CheckDone
  <2>2. ASSUME NEW m \in Node PROVE TracerInv(m)'
    BY <1>3 DEF NMInv, NMTypeOK, TracerInv, StartInv, Waiting, CheckDone
  <2>3. ASSUME NEW m \in Node PROVE StartInv(m)'
    BY <1>3 DEF NMInv, NMTypeOK, StartInv, TracerInv, CheckDone
  <2>4. CheckInv'
    BY <1>3 DEF NMInv, NMTypeOK, CheckInv, TracerInv, StartInv, CheckDone
  <2>5. (cursor <= node_count)' /\ (Waiting => cursor < node_count)'
    BY <1>3 DEF NMInv, NMTypeOK, Waiting, CheckDone
  <2>6. OrphansBounded'
    BY <1>3 DEF NMInv, NMTypeOK, OrphansBounded, TracerInv, CheckDone
  <2> QED
    BY <2>1, <2>2, <2>3, <2>4, <2>5, <2>6 DEF NMInv
<1> QED
  BY <1>1, <1>2, <1>3

\* Every critical operator, and the end of the waits of stop_node and
\* grace_stop_node, keeps the inductive invariant.
LEMMA OperatorKeepsInv ==
    ASSUME NMInv, UNCHANGED tracer, CriticalOperator \/ StopNodeWaited \/ GraceWaited
    PROVE  NMInv'
<1> USE DEF table, procs, control, history
<1>1. CASE RandomKill
  <2>1. PICK n \in Known : should_alive[n] /\ (stop_node(n) \/ stop_node_rr(n))
    BY <1>1 DEF RandomKill
  <2>2. n \in Node /\ n < node_count /\ call = "idle"
    BY <1>1 DEF RandomKill, Known
  <2>3. CASE stop_node(n)
    <3>1. NMTypeOK'
      <4>1. orphans' \in [Node -> Nat]
        BY <2>2, <2>3, OrphansType DEF NMInv, stop_node, SigKill
      <4>2. masked' \in SUBSET Node
        BY <2>2, <2>3 DEF NMInv, NMTypeOK, stop_node, Mask
      <4>3. /\ process' \in [Node -> {"none", "running", "dead"}]
            /\ server' \in [Node -> BOOLEAN] /\ should_alive' \in [Node -> BOOLEAN]
        BY <2>2, <2>3 DEF NMInv, NMTypeOK, stop_node, SigKill
      <4> QED
        BY <2>3, <4>1, <4>2, <4>3 DEF NMInv, NMTypeOK, stop_node, Mask
    <3>2. ASSUME NEW m \in Node PROVE TracerInv(m)'
      BY <2>1, <2>2, <2>3 DEF NMInv, NMTypeOK, TracerInv, StartInv, Waiting,
         stop_node, Mask, SigKill, LeftBehind
    <3>3. ASSUME NEW m \in Node PROVE StartInv(m)'
      BY <2>1, <2>2, <2>3 DEF NMInv, NMTypeOK, StartInv, TracerInv, stop_node,
         SigKill, LeftBehind
    <3>4. CheckInv'
      BY <2>1, <2>2, <2>3 DEF NMInv, NMTypeOK, CheckInv, TracerInv, StartInv,
         stop_node, Mask, SigKill, LeftBehind
    <3>5. (cursor <= node_count)' /\ (Waiting => cursor < node_count)'
      BY <2>1, <2>2, <2>3 DEF NMInv, NMTypeOK, Waiting, stop_node, Mask, SigKill,
         LeftBehind
    <3>6. OrphansBounded'
      BY <2>1, <2>2, <2>3 DEF NMInv, NMTypeOK, OrphansBounded, TracerInv,
         stop_node, Mask, SigKill, LeftBehind
    <3> QED
      BY <3>1, <3>2, <3>3, <3>4, <3>5, <3>6 DEF NMInv
  <2>4. CASE stop_node_rr(n)
    <3>1. NMTypeOK'
      BY <2>1, <2>2, <2>4 DEF NMInv, NMTypeOK, Call, stop_node_rr, SendTerm
    <3>2. ASSUME NEW m \in Node PROVE TracerInv(m)'
      BY <2>1, <2>2, <2>4 DEF NMInv, NMTypeOK, TracerInv, StartInv, Waiting,
         stop_node_rr, SendTerm
    <3>3. ASSUME NEW m \in Node PROVE StartInv(m)'
      BY <2>1, <2>2, <2>4 DEF NMInv, NMTypeOK, StartInv, TracerInv, stop_node_rr,
         SendTerm
    <3>4. CheckInv'
      BY <2>1, <2>2, <2>4 DEF NMInv, NMTypeOK, CheckInv, TracerInv, StartInv,
         stop_node_rr, SendTerm
    <3>5. (cursor <= node_count)' /\ (Waiting => cursor < node_count)'
      BY <2>1, <2>2, <2>4 DEF NMInv, NMTypeOK, Waiting, stop_node_rr, SendTerm
    <3>6. OrphansBounded'
      BY <2>1, <2>2, <2>4 DEF NMInv, NMTypeOK, OrphansBounded, TracerInv,
         stop_node_rr, SendTerm
    <3> QED
      BY <3>1, <3>2, <3>3, <3>4, <3>5, <3>6 DEF NMInv
  <2> QED
    BY <2>1, <2>3, <2>4
<1>2. CASE RandomStart
  <2>1. PICK n \in Known : start_node(n)
    BY <1>2 DEF RandomStart
  <2>2. n \in Node /\ n < node_count /\ call = "idle"
    BY <1>2 DEF RandomStart, Known
  <2>3. NMTypeOK'
    <3>1. log_index' \in [Node -> Nat] /\ orphans' \in [Node -> Nat]
      <4>1. log_index' \in [Node -> Nat]
        BY <2>1, <2>2 DEF NMInv, NMTypeOK, start_node, start_process
      <4>2. orphans' \in [Node -> Nat]
        BY <2>1, <2>2, OrphansType DEF NMInv, start_node, start_process
      <4> QED
        BY <4>1, <4>2
    <3> QED
      BY <1>2, <2>1, <2>2, <3>1
         DEF NMInv, NMTypeOK, RandomStart, start_node, start_process
  <2>4. ASSUME NEW m \in Node PROVE TracerInv(m)'
    BY <1>2, <2>1, <2>2 DEF NMInv, NMTypeOK, TracerInv, StartInv, Waiting,
       RandomStart, start_node, start_process, LeftBehind
  <2>5. ASSUME NEW m \in Node PROVE StartInv(m)'
    BY <1>2, <2>1, <2>2 DEF NMInv, NMTypeOK, StartInv, TracerInv, RandomStart,
       start_node, start_process, LeftBehind
  <2>6. CheckInv'
    BY <1>2, <2>1, <2>2 DEF NMInv, NMTypeOK, CheckInv, TracerInv, StartInv,
       RandomStart, start_node, start_process, LeftBehind
  <2>7. (cursor <= node_count)' /\ (Waiting => cursor < node_count)'
    BY <1>2, <2>1, <2>2 DEF NMInv, NMTypeOK, Waiting, RandomStart, start_node,
       start_process, LeftBehind
  <2>8. OrphansBounded'
    BY <1>2, <2>1, <2>2 DEF NMInv, NMTypeOK, OrphansBounded, TracerInv,
       RandomStart, start_node, start_process, LeftBehind
  <2> QED
    BY <2>3, <2>4, <2>5, <2>6, <2>7, <2>8 DEF NMInv
<1>3. CASE GraceRandomKill
  <2>1. PICK n \in Known : should_alive[n] /\ SendTerm(n) /\ cursor' = n
    BY <1>3 DEF GraceRandomKill
  <2>2. n \in Node /\ n < node_count /\ call = "idle"
    BY <1>3 DEF GraceRandomKill, Known
  <2>3. NMTypeOK'
    <3>1. term' \in [Node -> BOOLEAN]
      <4>1. (tracer # "strace" /\ process[n] = "running") \in BOOLEAN
        OBVIOUS
      <4> QED
        BY <2>1, <2>2, <4>1, Zenon DEF NMInv, NMTypeOK, SendTerm
    <3>2. /\ process' \in [Node -> {"none", "running", "dead"}]
          /\ server' \in [Node -> BOOLEAN]
          /\ orphans' \in [Node -> Nat]
      <4>1. CASE tracer = "ebpf"
        <5>1. SigKill(n)
          BY <2>1, <4>1 DEF SendTerm
        <5> QED
          BY <2>2, <5>1, OrphansType DEF NMInv, NMTypeOK, SigKill
      <4>2. CASE tracer # "ebpf"
        BY <2>1, <2>2, <4>2 DEF NMInv, NMTypeOK, SendTerm
      <4> QED
        BY <4>1, <4>2
    <3>3. call' \in Call /\ cursor' \in 0 .. MaxNodes
      BY <1>3, <2>1, <2>2 DEF Call, GraceRandomKill
    <3>4. UNCHANGED <<table, ret, history, tracer>>
      BY <1>3 DEF GraceRandomKill
    <3> QED
      BY <3>1, <3>2, <3>3, <3>4 DEF NMInv, NMTypeOK
  <2>4. ASSUME NEW m \in Node PROVE TracerInv(m)'
    BY <1>3, <2>1, <2>2 DEF NMInv, NMTypeOK, TracerInv, StartInv, Waiting,
       GraceRandomKill, SendTerm, SigKill, LeftBehind
  <2>5. ASSUME NEW m \in Node PROVE StartInv(m)'
    BY <1>3, <2>1, <2>2 DEF NMInv, NMTypeOK, StartInv, TracerInv, GraceRandomKill,
       SendTerm, SigKill, LeftBehind
  <2>6. CheckInv'
    BY <1>3, <2>1, <2>2 DEF NMInv, NMTypeOK, CheckInv, TracerInv, StartInv,
       GraceRandomKill, SendTerm, SigKill, LeftBehind
  <2>7. (cursor <= node_count)' /\ (Waiting => cursor < node_count)'
    BY <1>3, <2>1, <2>2 DEF NMInv, NMTypeOK, Waiting, GraceRandomKill, SendTerm,
       SigKill, LeftBehind
  <2>8. OrphansBounded'
    <3>1. CASE tracer = "ebpf"
      BY <1>3, <2>1, <2>2, <3>1 DEF NMInv, NMTypeOK, OrphansBounded, TracerInv,
         GraceRandomKill, SendTerm, SigKill, LeftBehind
    <3>2. CASE tracer # "ebpf"
      BY <1>3, <2>1, <2>2, <3>2 DEF NMInv, OrphansBounded, GraceRandomKill, SendTerm
    <3> QED
      BY <3>1, <3>2
  <2> QED
    BY <2>3, <2>4, <2>5, <2>6, <2>7, <2>8 DEF NMInv
<1>4. CASE StartNewNode
  <2>1. node_count \in Node
    BY <1>4 DEF NMInv, NMTypeOK, StartNewNode
  <2>2. NMTypeOK'
    <3>1. node_count' \in 0 .. MaxNodes
      BY <1>4 DEF NMInv, NMTypeOK, StartNewNode
    <3>2. orphans' \in [Node -> Nat]
      BY <1>4, <2>1, OrphansType DEF NMInv, StartNewNode, start_node, start_process
    <3> QED
      BY <1>4, <2>1, <3>1, <3>2 DEF NMInv, NMTypeOK, StartNewNode, start_node,
         start_process
  <2>3. ASSUME NEW m \in Node PROVE TracerInv(m)'
    BY <1>4, <2>1 DEF NMInv, NMTypeOK, TracerInv, StartInv, Waiting, StartNewNode,
       start_node, start_process, LeftBehind
  <2>4. ASSUME NEW m \in Node PROVE StartInv(m)'
    BY <1>4, <2>1 DEF NMInv, NMTypeOK, StartInv, TracerInv, StartNewNode,
       start_node, start_process, LeftBehind
  <2>5. CheckInv'
    BY <1>4, <2>1 DEF NMInv, NMTypeOK, CheckInv, TracerInv, StartInv, StartNewNode,
       start_node, start_process, LeftBehind
  <2>6. (cursor <= node_count)' /\ (Waiting => cursor < node_count)'
    BY <1>4, <2>1 DEF NMInv, NMTypeOK, Waiting, StartNewNode, start_node,
       start_process, LeftBehind
  <2>7. OrphansBounded'
    BY <1>4, <2>1 DEF NMInv, NMTypeOK, OrphansBounded, TracerInv, StartNewNode,
       start_node, start_process, LeftBehind
  <2> QED
    BY <2>2, <2>3, <2>4, <2>5, <2>6, <2>7 DEF NMInv
<1>5. CASE StopNodeWaited
  <2>1. cursor \in Node
    BY <1>5 DEF NMInv, NMTypeOK, Waiting, StopNodeWaited, Mask
  <2>2. NMTypeOK'
    BY <1>5, <2>1 DEF NMInv, NMTypeOK, Call, StopNodeWaited, Mask
  <2>3. ASSUME NEW m \in Node PROVE TracerInv(m)'
    BY <1>5, <2>1 DEF NMInv, NMTypeOK, TracerInv, StartInv, Waiting, StopNodeWaited, Mask
  <2>4. ASSUME NEW m \in Node PROVE StartInv(m)'
    BY <1>5, <2>1 DEF NMInv, NMTypeOK, StartInv, TracerInv, StopNodeWaited, Mask
  <2>5. CheckInv'
    BY <1>5, <2>1 DEF NMInv, NMTypeOK, CheckInv, TracerInv, StartInv, StopNodeWaited, Mask
  <2>6. (cursor <= node_count)' /\ (Waiting => cursor < node_count)'
    BY <1>5, <2>1 DEF NMInv, NMTypeOK, Waiting, StopNodeWaited, Mask
  <2>7. OrphansBounded'
    BY <1>5, <2>1 DEF NMInv, NMTypeOK, OrphansBounded, TracerInv, StopNodeWaited, Mask
  <2> QED
    BY <2>2, <2>3, <2>4, <2>5, <2>6, <2>7 DEF NMInv
<1>6. CASE GraceWaited
  <2>1. cursor \in Node
    BY <1>6 DEF NMInv, NMTypeOK, Waiting, GraceWaited, Mask
  <2>2. NMTypeOK'
    BY <1>6, <2>1 DEF NMInv, NMTypeOK, Call, GraceWaited, Mask
  <2>3. ASSUME NEW m \in Node PROVE TracerInv(m)'
    BY <1>6, <2>1 DEF NMInv, NMTypeOK, TracerInv, StartInv, Waiting, GraceWaited, Mask
  <2>4. ASSUME NEW m \in Node PROVE StartInv(m)'
    BY <1>6, <2>1 DEF NMInv, NMTypeOK, StartInv, TracerInv, GraceWaited, Mask
  <2>5. CheckInv'
    BY <1>6, <2>1 DEF NMInv, NMTypeOK, CheckInv, TracerInv, StartInv, GraceWaited, Mask
  <2>6. (cursor <= node_count)' /\ (Waiting => cursor < node_count)'
    BY <1>6, <2>1 DEF NMInv, NMTypeOK, Waiting, GraceWaited, Mask
  <2>7. OrphansBounded'
    BY <1>6, <2>1 DEF NMInv, NMTypeOK, OrphansBounded, TracerInv, GraceWaited, Mask
  <2> QED
    BY <2>2, <2>3, <2>4, <2>5, <2>6, <2>7 DEF NMInv
<1> QED
  BY <1>1, <1>2, <1>3, <1>4, <1>5, <1>6 DEF CriticalOperator

\* One step of stop_all keeps the inductive invariant.
LEMMA StopAllKeepsInv ==
    ASSUME NMInv, UNCHANGED tracer,
           stop_all \/ StopAllNode \/ StopAllNodeRR \/ StopAllWaited \/ StopAllDone
    PROVE  NMInv'
<1> USE DEF table, procs, control, history
<1>1. CASE stop_all
  <2>1. NMTypeOK'
    BY <1>1 DEF NMInv, NMTypeOK, Call, stop_all
  <2>2. ASSUME NEW m \in Node PROVE TracerInv(m)'
    BY <1>1 DEF NMInv, NMTypeOK, TracerInv, StartInv, Waiting, stop_all
  <2>3. ASSUME NEW m \in Node PROVE StartInv(m)'
    BY <1>1 DEF NMInv, NMTypeOK, StartInv, TracerInv, stop_all
  <2>4. CheckInv'
    BY <1>1 DEF NMInv, NMTypeOK, CheckInv, TracerInv, StartInv, stop_all
  <2>5. (cursor <= node_count)' /\ (Waiting => cursor < node_count)'
    BY <1>1 DEF NMInv, NMTypeOK, Waiting, stop_all
  <2>6. OrphansBounded'
    BY <1>1 DEF NMInv, NMTypeOK, OrphansBounded, TracerInv, stop_all
  <2> QED
    BY <2>1, <2>2, <2>3, <2>4, <2>5, <2>6 DEF NMInv
<1>2. CASE StopAllNode
  <2>1. cursor \in Node
    BY <1>2 DEF NMInv, NMTypeOK, StopAllNode
  <2>2. NMTypeOK'
    <3>1. orphans' \in [Node -> Nat]
      BY <1>2, <2>1, OrphansType DEF NMInv, StopAllNode, SigKill
    <3>2. /\ process' \in [Node -> {"none", "running", "dead"}]
          /\ server' \in [Node -> BOOLEAN] /\ should_alive' \in [Node -> BOOLEAN]
      BY <1>2, <2>1 DEF NMInv, NMTypeOK, StopAllNode, SigKill
    <3> QED
      BY <1>2, <3>1, <3>2 DEF NMInv, NMTypeOK, StopAllNode
  <2>3. ASSUME NEW m \in Node PROVE TracerInv(m)'
    BY <1>2, <2>1 DEF NMInv, NMTypeOK, TracerInv, StartInv, Waiting, StopAllNode,
       SigKill, LeftBehind
  <2>4. ASSUME NEW m \in Node PROVE StartInv(m)'
    BY <1>2, <2>1 DEF NMInv, NMTypeOK, StartInv, TracerInv, StopAllNode, SigKill,
       LeftBehind
  <2>5. CheckInv'
    BY <1>2, <2>1 DEF NMInv, NMTypeOK, CheckInv, TracerInv, StartInv, StopAllNode,
       SigKill, LeftBehind
  <2>6. (cursor <= node_count)' /\ (Waiting => cursor < node_count)'
    BY <1>2, <2>1 DEF NMInv, NMTypeOK, Waiting, StopAllNode, SigKill, LeftBehind
  <2>7. OrphansBounded'
    BY <1>2, <2>1 DEF NMInv, NMTypeOK, OrphansBounded, TracerInv, StopAllNode,
       SigKill, LeftBehind
  <2> QED
    BY <2>2, <2>3, <2>4, <2>5, <2>6, <2>7 DEF NMInv
<1>3. CASE StopAllNodeRR
  <2>1. cursor \in Node
    BY <1>3 DEF NMInv, NMTypeOK, StopAllNodeRR
  <2>2. NMTypeOK'
    BY <1>3, <2>1 DEF NMInv, NMTypeOK, Call, StopAllNodeRR, SendTerm
  <2>3. ASSUME NEW m \in Node PROVE TracerInv(m)'
    BY <1>3, <2>1 DEF NMInv, NMTypeOK, TracerInv, StartInv, Waiting, StopAllNodeRR,
       SendTerm
  <2>4. ASSUME NEW m \in Node PROVE StartInv(m)'
    BY <1>3, <2>1 DEF NMInv, NMTypeOK, StartInv, TracerInv, StopAllNodeRR, SendTerm
  <2>5. CheckInv'
    BY <1>3, <2>1 DEF NMInv, NMTypeOK, CheckInv, TracerInv, StartInv,
       StopAllNodeRR, SendTerm
  <2>6. (cursor <= node_count)' /\ (Waiting => cursor < node_count)'
    BY <1>3, <2>1 DEF NMInv, NMTypeOK, Waiting, StopAllNodeRR, SendTerm
  <2>7. OrphansBounded'
    BY <1>3, <2>1 DEF NMInv, NMTypeOK, OrphansBounded, TracerInv, StopAllNodeRR,
       SendTerm
  <2> QED
    BY <2>2, <2>3, <2>4, <2>5, <2>6, <2>7 DEF NMInv
<1>4. CASE StopAllWaited
  <2>1. cursor \in Node
    BY <1>4 DEF NMInv, NMTypeOK, Waiting, StopAllWaited
  <2>2. NMTypeOK'
    BY <1>4, <2>1 DEF NMInv, NMTypeOK, Call, StopAllWaited
  <2>3. ASSUME NEW m \in Node PROVE TracerInv(m)'
    BY <1>4, <2>1 DEF NMInv, NMTypeOK, TracerInv, StartInv, Waiting, StopAllWaited
  <2>4. ASSUME NEW m \in Node PROVE StartInv(m)'
    BY <1>4, <2>1 DEF NMInv, NMTypeOK, StartInv, TracerInv, StopAllWaited
  <2>5. CheckInv'
    BY <1>4, <2>1 DEF NMInv, NMTypeOK, CheckInv, TracerInv, StartInv, StopAllWaited
  <2>6. (cursor <= node_count)' /\ (Waiting => cursor < node_count)'
    BY <1>4, <2>1 DEF NMInv, NMTypeOK, Waiting, StopAllWaited
  <2>7. OrphansBounded'
    BY <1>4, <2>1 DEF NMInv, NMTypeOK, OrphansBounded, TracerInv, StopAllWaited
  <2> QED
    BY <2>2, <2>3, <2>4, <2>5, <2>6, <2>7 DEF NMInv
<1>5. CASE StopAllDone
  <2>1. NMTypeOK'
    BY <1>5 DEF NMInv, NMTypeOK, Call, StopAllDone
  <2>2. ASSUME NEW m \in Node PROVE TracerInv(m)'
    BY <1>5 DEF NMInv, NMTypeOK, TracerInv, StartInv, Waiting, StopAllDone
  <2>3. ASSUME NEW m \in Node PROVE StartInv(m)'
    BY <1>5 DEF NMInv, NMTypeOK, StartInv, TracerInv, StopAllDone
  <2>4. CheckInv'
    BY <1>5 DEF NMInv, NMTypeOK, CheckInv, TracerInv, StartInv, StopAllDone
  <2>5. (cursor <= node_count)' /\ (Waiting => cursor < node_count)'
    BY <1>5 DEF NMInv, NMTypeOK, Waiting, StopAllDone
  <2>6. OrphansBounded'
    BY <1>5 DEF NMInv, NMTypeOK, OrphansBounded, TracerInv, StopAllDone
  <2> QED
    BY <2>1, <2>2, <2>3, <2>4, <2>5, <2>6 DEF NMInv
<1> QED
  BY <1>1, <1>2, <1>3, <1>4, <1>5

\* Deaths of servers and exits of tracers keep the inductive invariant.
LEMMA EnvironmentKeepsInv ==
    ASSUME NMInv, UNCHANGED tracer, Environment
    PROVE  NMInv'
<1> USE DEF table, procs, control, history
<1>1. PICK n \in Node : ServerDies(n) \/ ServerTerminated(n)
                          \/ TracerExits(n) \/ OrphanDies(n)
  BY DEF Environment
<1>2. CASE ServerDies(n)
  <2>1. NMTypeOK'
    BY <1>2 DEF NMInv, NMTypeOK, Call, ServerDies
  <2>2. ASSUME NEW m \in Node PROVE TracerInv(m)'
    BY <1>2 DEF NMInv, NMTypeOK, TracerInv, StartInv, Waiting, ServerDies
  <2>3. ASSUME NEW m \in Node PROVE StartInv(m)'
    BY <1>2 DEF NMInv, NMTypeOK, StartInv, TracerInv, ServerDies
  <2>4. CheckInv'
    BY <1>2 DEF NMInv, NMTypeOK, CheckInv, TracerInv, StartInv, ServerDies
  <2>5. (cursor <= node_count)' /\ (Waiting => cursor < node_count)'
    BY <1>2 DEF NMInv, NMTypeOK, Waiting, ServerDies
  <2>6. OrphansBounded'
    BY <1>2 DEF NMInv, NMTypeOK, OrphansBounded, TracerInv, ServerDies
  <2> QED
    BY <2>1, <2>2, <2>3, <2>4, <2>5, <2>6 DEF NMInv
<1>3. CASE ServerTerminated(n)
  <2>1. NMTypeOK'
    BY <1>3 DEF NMInv, NMTypeOK, Call, ServerTerminated
  <2>2. ASSUME NEW m \in Node PROVE TracerInv(m)'
    BY <1>3 DEF NMInv, NMTypeOK, TracerInv, StartInv, Waiting, ServerTerminated
  <2>3. ASSUME NEW m \in Node PROVE StartInv(m)'
    BY <1>3 DEF NMInv, NMTypeOK, StartInv, TracerInv, ServerTerminated
  <2>4. CheckInv'
    BY <1>3 DEF NMInv, NMTypeOK, CheckInv, TracerInv, StartInv, ServerTerminated
  <2>5. (cursor <= node_count)' /\ (Waiting => cursor < node_count)'
    BY <1>3 DEF NMInv, NMTypeOK, Waiting, ServerTerminated
  <2>6. OrphansBounded'
    BY <1>3 DEF NMInv, NMTypeOK, OrphansBounded, TracerInv, ServerTerminated
  <2> QED
    BY <2>1, <2>2, <2>3, <2>4, <2>5, <2>6 DEF NMInv
<1>4. CASE TracerExits(n)
  <2>1. NMTypeOK'
    BY <1>4 DEF NMInv, NMTypeOK, Call, TracerExits
  <2>2. ASSUME NEW m \in Node PROVE TracerInv(m)'
    BY <1>4 DEF NMInv, NMTypeOK, TracerInv, StartInv, Waiting, TracerExits
  <2>3. ASSUME NEW m \in Node PROVE StartInv(m)'
    BY <1>4 DEF NMInv, NMTypeOK, StartInv, TracerInv, TracerExits
  <2>4. CheckInv'
    BY <1>4 DEF NMInv, NMTypeOK, CheckInv, TracerInv, StartInv, TracerExits
  <2>5. (cursor <= node_count)' /\ (Waiting => cursor < node_count)'
    BY <1>4 DEF NMInv, NMTypeOK, Waiting, TracerExits
  <2>6. OrphansBounded'
    BY <1>4 DEF NMInv, NMTypeOK, OrphansBounded, TracerInv, TracerExits
  <2> QED
    BY <2>1, <2>2, <2>3, <2>4, <2>5, <2>6 DEF NMInv
<1>5. CASE OrphanDies(n)
  <2>1. NMTypeOK'
    BY <1>5 DEF NMInv, NMTypeOK, Call, OrphanDies
  <2>2. ASSUME NEW m \in Node PROVE TracerInv(m)'
    BY <1>5 DEF NMInv, NMTypeOK, TracerInv, StartInv, Waiting, OrphanDies
  <2>3. ASSUME NEW m \in Node PROVE StartInv(m)'
    BY <1>5 DEF NMInv, NMTypeOK, StartInv, TracerInv, OrphanDies
  <2>4. CheckInv'
    BY <1>5 DEF NMInv, NMTypeOK, CheckInv, TracerInv, StartInv, OrphanDies
  <2>5. (cursor <= node_count)' /\ (Waiting => cursor < node_count)'
    BY <1>5 DEF NMInv, NMTypeOK, Waiting, OrphanDies
  <2>6. OrphansBounded'
    BY <1>5 DEF NMInv, NMTypeOK, OrphansBounded, TracerInv, OrphanDies
  <2> QED
    BY <2>1, <2>2, <2>3, <2>4, <2>5, <2>6 DEF NMInv
<1> QED
  BY <1>1, <1>2, <1>3, <1>4, <1>5

\* Whatever call a caller makes, and whatever the servers do meanwhile, keeps
\* the inductive invariant.
LEMMA ManagerKeepsInv ==
    ASSUME NMInv, [NMNext]_nmvars
    PROVE  NMInv'
<1>1. CASE UNCHANGED nmvars
  BY <1>1 DEF NMInv, NMTypeOK, Waiting, TracerInv, StartInv, CheckInv,
              OrphansBounded, nmvars, table, procs, control, history
<1>2. CASE NMNext
  BY <1>1, <1>2, StartAllKeepsInv, CheckKeepsInv, OperatorKeepsInv,
     StopAllKeepsInv, EnvironmentKeepsInv
     DEF NMNext, Continue, Stopped
<1> QED
  BY <1>1, <1>2

\* NMInv holds in every reachable state of the node manager.
THEOREM NMInvariance == NMSpec => []NMInv
<1>1. NMInit => NMInv
  BY NMInitEstablishesInv
<1>2. NMInv /\ [NMNext]_nmvars => NMInv'
  BY ManagerKeepsInv
<1> QED
  BY <1>1, <1>2, PTL DEF NMSpec

\* The node manager is type correct (NodeInfo and the state of its calls).
THEOREM NMTypeCorrect == NMSpec => []NMTypeOK
<1>1. NMInv => NMTypeOK
  BY DEF NMInv
<1> QED
  BY <1>1, NMInvariance, PTL

\* check() returns false only if a server died on its own or a graceful stop
\* gave up on a tracer, whatever operators ran before it.
THEOREM CheckSound == NMSpec => []CheckFailureHasCause
<1>1. NMInv => CheckFailureHasCause
  BY DEF NMInv, CheckInv, CheckFailureHasCause
<1> QED
  BY <1>1, NMInvariance, PTL

\* check() returns true only if no wanted node was missing when it began.
THEOREM CheckComplete == NMSpec => []CheckReportsMissing
<1>1. NMInv => CheckReportsMissing
  BY DEF NMInv, CheckInv, CheckReportsMissing
<1> QED
  BY <1>1, NMInvariance, PTL

\* Between two calls a node whose tracer exited by itself is still missing,
\* unless an operator stopped it after that.
THEOREM DeathsAreNotHidden == NMSpec => []DeathsStayVisible
<1>1. NMInv => DeathsStayVisible
  BY DEF NMInv, NMTypeOK, TracerInv, DeathsStayVisible
<1> QED
  BY <1>1, NMInvariance, PTL

\* Between two calls a stopped node has no running tracer, unless a graceful
\* stop gave up on it.
THEOREM StopEffective == NMSpec => []StoppedNodesAreDown
<1>1. NMInv => StoppedNodesAreDown
  BY DEF NMInv, TracerInv, StoppedNodesAreDown, Known
<1> QED
  BY <1>1, NMInvariance, PTL

\* No node has more servers than it was started, and rr leaves none behind.
THEOREM OrphansAreBounded == NMSpec => []OrphansBounded
<1>1. NMInv => OrphansBounded
  BY DEF NMInv
<1> QED
  BY <1>1, NMInvariance, PTL

\* stop_node and stop_all wait without a time limit only for an rr that acts
\* on the SIGTERM they have sent, whoever calls them.
THEOREM WaitsSignalled == NMSpec => []WaitsAreSignalled
<1> USE DEF table, procs, control, history
<1>1. NMInit => WaitsAreSignalled
  BY DEF NMInit, WaitsAreSignalled
<1>2. NMInv /\ WaitsAreSignalled /\ [NMNext]_nmvars => WaitsAreSignalled'
  <2> SUFFICES ASSUME NMInv, WaitsAreSignalled, [NMNext]_nmvars
               PROVE  WaitsAreSignalled'
    OBVIOUS
  <2>0. NMTypeOK /\ UNCHANGED tracer
    BY DEF NMInv, NMNext, nmvars
  <2>1. CASE UNCHANGED nmvars
    BY <2>1 DEF nmvars, WaitsAreSignalled
  <2>2. CASE start_all \/ check \/ stop_all \/ (Continue /\ ~StopAllNodeRR)
    <3>1. call' \notin {"stop_wait", "stopping_wait"}
      BY <2>2 DEF start_all, check, stop_all, EnterCheck, Continue, StartAllNode,
         StartAllDone, CheckNode, CheckDone, StopNodeWaited, GraceWaited,
         StopAllNode, StopAllWaited, StopAllDone
    <3> QED
      BY <3>1 DEF WaitsAreSignalled
  <2>3. CASE StopAllNodeRR
    <3>1. tracer = "rr" /\ cursor' = cursor /\ process' = process /\ cursor \in Node
      BY <2>0, <2>3 DEF StopAllNodeRR, SendTerm, NMTypeOK
    <3>2. term'[cursor] = (process[cursor] = "running")
      BY <2>0, <2>3, <3>1 DEF StopAllNodeRR, SendTerm, NMTypeOK
    <3> QED
      BY <2>0, <3>1, <3>2 DEF WaitsAreSignalled
  <2>4. CASE RandomKill
    <3>1. PICK n \in Known : stop_node(n) \/ stop_node_rr(n)
      BY <2>4 DEF RandomKill
    <3>2. CASE stop_node(n)
      BY <2>4, <3>2 DEF RandomKill, stop_node, WaitsAreSignalled
    <3>3. CASE stop_node_rr(n)
      <4>1. tracer = "rr" /\ cursor' = n /\ process' = process /\ n \in Node
        BY <3>1, <3>3 DEF stop_node_rr, SendTerm, Known
      <4>2. term'[n] = (process[n] = "running")
        BY <2>0, <3>3, <4>1 DEF stop_node_rr, SendTerm, NMTypeOK
      <4> QED
        BY <2>0, <4>1, <4>2 DEF WaitsAreSignalled
    <3> QED
      BY <3>1, <3>2, <3>3
  <2>5. CASE RandomStart \/ GraceRandomKill \/ StartNewNode
    BY <2>5 DEF RandomStart, GraceRandomKill, StartNewNode, WaitsAreSignalled
  <2>6. CASE Environment
    <3>1. PICK n \in Node : ServerDies(n) \/ ServerTerminated(n)
                              \/ TracerExits(n) \/ OrphanDies(n)
      BY <2>6 DEF Environment
    <3>2. UNCHANGED <<call, cursor, term>>
      BY <3>1 DEF ServerDies, ServerTerminated, TracerExits, OrphanDies
    <3>3. ASSUME NEW m \in Node PROVE process'[m] = "running" => process[m] = "running"
      BY <2>0, <3>1 DEF ServerDies, ServerTerminated, TracerExits, OrphanDies, NMTypeOK
    <3>4. Waiting => cursor \in Node
      BY <2>0 DEF NMInv, NMTypeOK
    <3> QED
      BY <2>0, <3>2, <3>3, <3>4 DEF WaitsAreSignalled, Waiting
  <2> QED
    BY <2>1, <2>2, <2>3, <2>4, <2>5, <2>6 DEF NMNext, CriticalOperator, Stopped
<1> QED
  BY <1>1, <1>2, NMInvariance, PTL DEF NMSpec

-----------------------------------------------------------------------------
(***************************************************************************)
(* main()                                                                  *)
(***************************************************************************)

\* main() uses the manager as any caller may: each step of the run, and each
\* step of its surroundings, is a step of the manager or leaves it alone.
LEMMA DriverCallsManager ==
    ASSUME [Next]_vars
    PROVE  [NMNext]_nmvars
<1> USE DEF nmvars
<1>1. CASE Main
  <2>1. UNCHANGED tracer
    BY <1>1 DEF Main, options
  <2>2. \/ start_all \/ check \/ stop_all \/ CriticalOperator \/ Continue
        \/ UNCHANGED nmvars
    BY <1>1 DEF Main, Boot, StartNodes, NodesStarted, NormalOp, NormalDone,
       CriticalOp, NoCandidate, CriticalOpDone, FinalCheck, Checked, RecoveryOp,
       RecoveryDone, StopNodes, Backup, SaveCount, Finish, NodeManagerStep
  <2> QED
    BY <2>1, <2>2 DEF NMNext
<1>2. CASE HandleTimeout \/ Over \/ UNCHANGED vars
  BY <1>2 DEF HandleTimeout, Over, vars
<1>3. CASE EnvironmentStep
  BY <1>3 DEF EnvironmentStep, options, NMNext
<1> QED
  BY <1>1, <1>2, <1>3 DEF Next

\* The manager keeps should_alive and the tracers within the table, and
\* stop_all, once it has passed a node, leaves it without a tracer.
LEMMA TableStep ==
    ASSUME NMInv, TableInv, [NMNext]_nmvars
    PROVE  TableInv'
<1> USE DEF table, procs, control, history, NMTypeOK, TableInv
<1>0. NMTypeOK /\ cursor <= node_count /\ (Waiting => cursor < node_count)
  BY DEF NMInv
<1>1. CASE UNCHANGED nmvars
  BY <1>0, <1>1 DEF nmvars
<1>2. CASE start_all
  BY <1>0, <1>2 DEF start_all
<1>3. CASE StartAllNode
  BY <1>0, <1>3 DEF StartAllNode, start_process
<1>4. CASE StartAllDone \/ check \/ CheckNode \/ CheckDone
  BY <1>0, <1>4 DEF StartAllDone, check, EnterCheck, CheckNode, CheckDone
<1>5. CASE RandomStart
  <2>1. PICK n \in Known : start_node(n)
    BY <1>5 DEF RandomStart
  <2> QED
    BY <1>0, <1>5, <2>1 DEF RandomStart, Known, start_node, start_process
<1>6. CASE StartNewNode
  BY <1>0, <1>6 DEF StartNewNode, start_node, start_process
<1>7. CASE RandomKill
  <2>1. PICK n \in Known : should_alive[n] /\ (stop_node(n) \/ stop_node_rr(n))
    BY <1>7 DEF RandomKill
  <2>2. CASE stop_node(n)
    BY <1>0, <1>7, <2>1, <2>2 DEF RandomKill, Known, stop_node, SigKill
  <2>3. CASE stop_node_rr(n)
    BY <1>0, <1>7, <2>1, <2>3 DEF RandomKill, Known, stop_node_rr, SendTerm
  <2> QED
    BY <2>1, <2>2, <2>3
<1>8. CASE GraceRandomKill
  <2>1. PICK n \in Known : should_alive[n] /\ SendTerm(n) /\ cursor' = n
    BY <1>8 DEF GraceRandomKill
  <2> QED
    BY <1>0, <1>8, <2>1 DEF GraceRandomKill, Known, SendTerm, SigKill
<1>9. CASE StopNodeWaited \/ GraceWaited
  BY <1>0, <1>9 DEF StopNodeWaited, GraceWaited, Waiting, Mask
<1>10. CASE stop_all
  BY <1>0, <1>10 DEF stop_all
<1>11. CASE StopAllNode
  BY <1>0, <1>11 DEF StopAllNode, SigKill
<1>12. CASE StopAllNodeRR
  BY <1>0, <1>12 DEF StopAllNodeRR, SendTerm
<1>13. CASE StopAllWaited
  BY <1>0, <1>13 DEF StopAllWaited
<1>14. CASE StopAllDone
  BY <1>0, <1>14 DEF StopAllDone
<1>15. CASE Environment
  <2>1. PICK n \in Node : ServerDies(n) \/ ServerTerminated(n)
                            \/ TracerExits(n) \/ OrphanDies(n)
    BY <1>15 DEF Environment
  <2> QED
    BY <1>0, <2>1 DEF ServerDies, ServerTerminated, TracerExits, OrphanDies
<1> QED
  BY <1>1, <1>2, <1>3, <1>4, <1>5, <1>6, <1>7, <1>8, <1>9, <1>10, <1>11, <1>12,
     <1>13, <1>14, <1>15 DEF NMNext, CriticalOperator, Continue, Stopped

\* What has once caused a failure stays on record, and so does a node that an
\* operator stopped after its death.
LEMMA HistoryGrows ==
    ASSUME NMInv, [NMNext]_nmvars
    PROVE  /\ \A n \in Node : (crashed[n] => crashed'[n]) /\ (lingering[n] => lingering'[n])
           /\ masked \subseteq masked'
<1> USE DEF table, procs, control, history
<1>0. crashed \in [Node -> BOOLEAN] /\ lingering \in [Node -> BOOLEAN] /\ cursor \in Int
  BY DEF NMInv, NMTypeOK
<1>1. CASE UNCHANGED history
  BY <1>1
<1>2. CASE StartAllDone \/ check
  BY <1>2 DEF StartAllDone, check, EnterCheck
<1>3. CASE RandomKill
  BY <1>3 DEF RandomKill, stop_node, stop_node_rr, Mask
<1>4. CASE StopNodeWaited
  BY <1>4 DEF StopNodeWaited, Mask
<1>5. CASE GraceWaited
  <2>1. lingering' = [lingering EXCEPT ![cursor] = @ \/ process[cursor] = "running"]
    BY <1>5 DEF GraceWaited
  <2>2. ASSUME NEW n \in Node, lingering[n] PROVE lingering'[n]
    BY <1>0, <2>1, <2>2, Zenon
  <2> QED
    BY <1>5, <2>2 DEF GraceWaited, Mask
<1>6. CASE Environment
  <2>1. PICK n \in Node : ServerDies(n) \/ ServerTerminated(n)
                            \/ TracerExits(n) \/ OrphanDies(n)
    BY <1>6 DEF Environment
  <2> QED
    BY <1>0, <2>1 DEF ServerDies, ServerTerminated, TracerExits, OrphanDies
<1>7. CASE \/ start_all \/ StartAllNode \/ CheckNode \/ CheckDone \/ RandomStart
           \/ StartNewNode \/ GraceRandomKill \/ stop_all \/ StopAllNode
           \/ StopAllNodeRR \/ StopAllWaited \/ StopAllDone \/ UNCHANGED nmvars
  BY <1>1, <1>7 DEF start_all, StartAllNode, CheckNode, CheckDone, RandomStart,
     StartNewNode, GraceRandomKill, stop_all, StopAllNode, StopAllNodeRR,
     StopAllWaited, StopAllDone, nmvars
<1> QED
  BY <1>2, <1>3, <1>4, <1>5, <1>6, <1>7 DEF NMNext, CriticalOperator, Continue, Stopped

\* How a call proceeds: start_all ends in check, and each call ends by itself.
\* The loop of check leaves the histories alone.
LEMMA CallProceeds ==
    ASSUME Continue
    PROVE  \/ call = "starting" /\ call' \in {"starting", "checking"}
           \/ /\ call = "checking" /\ call' \in {"checking", "idle"}
              /\ UNCHANGED history
           \/ call \in {"stop_wait", "grace_wait"} /\ call' = "idle"
           \/ /\ call \in {"stopping", "stopping_wait"}
              /\ call' \in {"stopping", "stopping_wait", "stopped"}
  BY DEF Continue, StartAllNode, StartAllDone, EnterCheck, CheckNode, CheckDone,
     StopNodeWaited, GraceWaited, StopAllNode, StopAllNodeRR, StopAllWaited,
     StopAllDone, control, history

\* What happens to the servers does not touch a call in progress, nor what
\* check() has to report.
LEMMA EnvironmentSpares ==
    ASSUME Environment
    PROVE  UNCHANGED <<control, table, masked, missing, lingering>>
  BY DEF Environment, ServerDies, ServerTerminated, TracerExits, OrphanDies,
     control, history, table

\* A critical operator returns, or waits for one tracer to exit.
LEMMA OperatorCalls ==
    ASSUME CriticalOperator \/ NoCandidate, call = "idle"
    PROVE  call' \in {"idle", "stop_wait", "grace_wait"}
  BY DEF CriticalOperator, NoCandidate, RandomKill, RandomStart, GraceRandomKill,
     StartNewNode, stop_node, stop_node_rr, control, nmvars

\* main() starts in a state that satisfies its inductive invariant.
LEMMA InitEstablishesMainInv == Init => MainInv
<1> SUFFICES ASSUME Init PROVE MainInv
  OBVIOUS
<1>1. NMInv
  BY NMInitEstablishesInv DEF Init
<1>2. TypeOK
  BY MainAssumption DEF Init, TypeOK
<1>3. CallInv /\ VerdictInv
  BY DEF Init, NMInit, CallInv, VerdictInv, Ending
<1>4. TableInv
  BY DEF Init, NMInit, TableInv
<1> QED
  BY <1>1, <1>2, <1>3, <1>4 DEF MainInv

\* Every step of a run keeps the types of main()'s state, and moves the count
\* of test cases exactly once.
LEMMA MainTypeStep ==
    ASSUME TypeOK, NMInv, [Next]_vars
    PROVE  TypeOK'
<1> USE MainAssumption DEF At
<1>1. CASE Main
  <2>0. check_after_fuzz' \in BOOLEAN
    BY <1>1, Zenon DEF Main, options, TypeOK
  <2>1. CASE Boot \/ StartNodes
    BY <2>0, <2>1 DEF Boot, StartNodes, TypeOK
  <2>2. CASE NodesStarted
    <3>1. /\ check_failed' \in BOOLEAN /\ UNCHANGED <<all_failed, nm_registered>>
          /\ is_fuzzing' \in {"none", "on", "off", "removed"}
      BY <2>2, Zenon DEF NodesStarted, TypeOK
    <3> QED
      BY <2>0, <2>2, <3>1 DEF NodesStarted, TypeOK
  <2>3. CASE NormalOp \/ NormalDone \/ CriticalOp \/ CriticalOpDone
    <3>1. UNCHANGED <<nm_registered, check_failed, all_failed, is_fuzzing,
                      test_case_count, outcome, judged>>
      BY <2>3, Zenon DEF NormalOp, NormalDone, CriticalOp, CriticalOpDone
    <3>2. /\ pc # "saved" /\ pc' \in {"normal", "critical", "critical_done"}
          /\ left' \in Nat /\ critics' \in Nat
      BY <2>3 DEF NormalOp, NormalDone, CriticalOp, CriticalOpDone, TypeOK
    <3> QED
      BY <2>0, <3>1, <3>2 DEF TypeOK
  <2>4. CASE FinalCheck
    BY <2>0, <2>4 DEF FinalCheck, NMInv, NMTypeOK, TypeOK
  <2>5. CASE Checked
    <3>1. /\ check_failed' \in BOOLEAN /\ UNCHANGED <<all_failed, nm_registered>>
          /\ is_fuzzing' \in {"none", "on", "off", "removed"}
      BY <2>5, Zenon DEF Checked, TypeOK
    <3> QED
      BY <2>0, <2>5, <3>1 DEF Checked, TypeOK
  <2>6. CASE RecoveryOp \/ RecoveryDone
    <3>1. /\ check_failed' \in BOOLEAN /\ all_failed' \in BOOLEAN
          /\ UNCHANGED <<nm_registered, is_fuzzing, critics, test_case_count, outcome, judged>>
      BY <2>6, Zenon DEF RecoveryOp, RecoveryDone, TypeOK
    <3>2. pc = "recovery" /\ pc' \in {"recovery", "stop"} /\ left' \in Nat
      BY <2>6 DEF RecoveryOp, RecoveryDone, TypeOK
    <3> QED
      BY <2>0, <3>1, <3>2 DEF TypeOK
  <2>7. CASE StopNodes \/ Backup \/ SaveCount \/ Finish
    <3>1. UNCHANGED <<nm_registered, check_failed, all_failed, left, critics, judged>>
      BY <2>7, Zenon DEF StopNodes, Backup, SaveCount, Finish
    <3>2. /\ is_fuzzing' \in {"none", "on", "off", "removed"}
          /\ outcome' \in {"running", "exit", "abort"}
          /\ pc' \in {"stopping", "backed", "saved"}
          /\ test_case_count' = IF pc' = "saved" THEN 1 ELSE 0
      BY <2>7 DEF StopNodes, Backup, SaveCount, Finish, TypeOK
    <3> QED
      BY <2>0, <3>1, <3>2 DEF TypeOK
  <2>8. CASE NodeManagerStep
    BY <2>0, <2>8 DEF NodeManagerStep, mainvars, TypeOK
  <2> QED
    BY <1>1, <2>1, <2>2, <2>3, <2>4, <2>5, <2>6, <2>7, <2>8 DEF Main
<1>2. CASE HandleTimeout
  BY <1>2 DEF HandleTimeout, options, TypeOK
<1>3. CASE EnvironmentStep \/ Over \/ UNCHANGED vars
  <2>1. UNCHANGED <<mainvars, check_after_fuzz>>
    BY <1>3 DEF EnvironmentStep, Over, vars, options
  <2> QED
    BY <2>1 DEF mainvars, TypeOK
<1> QED
  BY <1>1, <1>2, <1>3 DEF Next

\* Every step of a run keeps main() in step with the call it is in.
LEMMA CallStep ==
    ASSUME TypeOK, CallInv, NMInv, [Next]_vars
    PROVE  CallInv'
<1> USE DEF At, CallInv
<1>1. CASE Main
  <2>1. CASE \/ Boot \/ NodesStarted \/ NormalOp \/ NormalDone \/ CriticalOpDone
             \/ Checked \/ RecoveryOp \/ RecoveryDone \/ Backup \/ SaveCount \/ Finish
    <3>1. call' = call
      BY <2>1 DEF Boot, NodesStarted, NormalOp, NormalDone, CriticalOpDone, Checked,
         RecoveryOp, RecoveryDone, Backup, SaveCount, Finish, nmvars, control
    <3>2. CASE Boot \/ NodesStarted
      BY <3>1, <3>2 DEF Boot, NodesStarted
    <3>3. CASE NormalOp \/ NormalDone \/ CriticalOpDone
      BY <3>1, <3>3 DEF NormalOp, NormalDone, CriticalOpDone
    <3>4. CASE Checked
      BY <3>1, <3>4 DEF Checked
    <3>5. CASE RecoveryOp \/ RecoveryDone \/ Backup \/ SaveCount \/ Finish
      BY <3>1, <3>5 DEF RecoveryOp, RecoveryDone, Backup, SaveCount, Finish
    <3> QED
      BY <2>1, <3>2, <3>3, <3>4, <3>5
  <2>2. CASE StartNodes
    BY <2>2 DEF StartNodes, start_all
  <2>3. CASE CriticalOp
    <3>1. pc = "critical" /\ pc' = "critical_done" /\ (CriticalOperator \/ NoCandidate)
      BY <2>3 DEF CriticalOp
    <3> QED
      BY <3>1, OperatorCalls
  <2>4. CASE FinalCheck
    BY <2>4 DEF FinalCheck, check, EnterCheck
  <2>5. CASE StopNodes
    BY <2>5 DEF StopNodes, stop_all
  <2>6. CASE NodeManagerStep
    <3>1. pc' = pc /\ Continue
      BY <2>6 DEF NodeManagerStep, mainvars
    <3> QED
      BY <3>1, CallProceeds DEF TypeOK
  <2> QED
    BY <1>1, <2>1, <2>2, <2>3, <2>4, <2>5, <2>6 DEF Main
<1>2. CASE EnvironmentStep
  BY <1>2, EnvironmentSpares DEF EnvironmentStep, mainvars, control
<1>3. CASE HandleTimeout \/ Over \/ UNCHANGED vars
  BY <1>3 DEF HandleTimeout, Over, vars, mainvars, nmvars, control
<1> QED
  BY <1>1, <1>2, <1>3 DEF Next

\* Every step of a run keeps what its verdict rests on.
LEMMA VerdictStep ==
    ASSUME MainInv, [Next]_vars
    PROVE  VerdictInv'
<1> DEFINE Cause == \E n \in Node : crashed[n] \/ lingering[n]
<1>0. NMInv /\ TypeOK /\ CallInv /\ TableInv /\ VerdictInv
  BY DEF MainInv
<1>1. Cause => Cause'
  BY <1>0, DriverCallsManager, HistoryGrows
<1>2. masked \subseteq masked'
  BY <1>0, DriverCallsManager, HistoryGrows
<1>3. CheckInv /\ (~ret /\ call = "idle" => Cause) /\ (ret /\ call = "idle" => missing = {})
  BY <1>0 DEF NMInv, CheckInv
<1> USE DEF VerdictInv, Ending, At
<1>4. CASE Main
  <2>0. check_after_fuzz' = check_after_fuzz
    BY <1>4 DEF Main, options
  <2>1. CASE Boot \/ StartNodes \/ NormalOp \/ NormalDone \/ CriticalOp \/ CriticalOpDone
    <3>1. /\ pc \notin {"checked", "recovery", "stop", "stopping", "backed", "saved"}
          /\ pc' \notin {"checked", "recovery", "stop", "stopping", "backed", "saved"}
          /\ outcome' \in {"running", "segv"} /\ check_failed' = check_failed
      BY <2>1 DEF Boot, StartNodes, NormalOp, NormalDone, CriticalOp, CriticalOpDone
    <3> QED
      BY <1>0, <3>1 DEF TypeOK
  <2>2. CASE NodesStarted
    <3>1. /\ pc' \in {"normal", "stop"} /\ outcome' = "running"
          /\ check_failed' => pc' = "stop" /\ Cause
          /\ pc' = "stop" => check_failed'
      BY <1>0, <1>3, <2>2 DEF NodesStarted, TypeOK
    <3> QED
      BY <1>1, <3>1
  <2>3. CASE FinalCheck
    <3>1. /\ pc' = "checked" /\ outcome' = "running" /\ check_failed' = check_failed
          /\ pc = "critical" /\ critics = 0 /\ critics' = critics
          /\ judged' = died /\ missing' = Missing /\ masked' = masked /\ call = "idle"
      BY <2>3 DEF FinalCheck, check, EnterCheck
    <3>2. died \subseteq masked \cup Missing
      <4>1. ASSUME NEW n \in died \ masked PROVE n \in Missing
        <5>1. n \in Node /\ TracerInv(n)
          BY <1>0 DEF NMInv, NMTypeOK
        <5>2. should_alive[n] /\ process[n] = "dead"
          BY <3>1, <5>1 DEF TracerInv
        <5>3. n < node_count
          BY <1>0, <5>1, <5>2 DEF TableInv, NMInv, NMTypeOK
        <5> QED
          BY <5>1, <5>2, <5>3 DEF Missing, Known
      <4> QED
        BY <4>1
    <3> QED
      BY <1>0, <3>1, <3>2
  <2>4. CASE Checked
    <3>1. /\ pc = "checked" /\ outcome' = "running" /\ critics' = critics
          /\ judged' = judged /\ masked' = masked
          /\ all_failed' = all_failed
          /\ IF ret THEN /\ pc' = IF check_after_fuzz THEN "recovery" ELSE "stop"
                         /\ check_failed' = check_failed
                    ELSE check_failed' /\ pc' = "stop" /\ Cause
      BY <1>3, <2>4 DEF Checked, nmvars, history
    <3>2. ~check_failed /\ critics = 0 /\ (ret => judged \subseteq masked)
      BY <1>0, <1>3, <2>4, <3>1 DEF Checked
    <3> QED
      BY <1>1, <2>0, <3>1, <3>2
  <2>5. CASE RecoveryOp
    BY <1>0, <1>2, <2>0, <2>5 DEF RecoveryOp, nmvars, history
  <2>6. CASE RecoveryDone
    <3>1. /\ pc = "recovery" /\ pc' = "stop" /\ outcome' = "running"
          /\ check_failed' = all_failed /\ all_failed' = all_failed
          /\ critics' = critics /\ judged' = judged
      BY <2>6 DEF RecoveryDone
    <3> QED
      BY <1>0, <1>2, <2>0, <3>1
  <2>7. CASE StopNodes \/ Backup \/ SaveCount \/ Finish
    <3>1. /\ pc \in {"stop", "stopping", "backed", "saved"}
          /\ pc' \in {"stopping", "backed", "saved"}
          /\ outcome' \in {"running", IF check_failed THEN "abort" ELSE "exit"}
          /\ UNCHANGED <<check_failed, all_failed, critics, judged>>
      BY <2>7 DEF StopNodes, Backup, SaveCount, Finish
    <3> QED
      BY <1>0, <1>1, <1>2, <2>0, <3>1
  <2>8. CASE NodeManagerStep
    <3>1. /\ UNCHANGED <<pc, check_failed, all_failed, critics, judged, outcome>>
          /\ Continue
      BY <2>8 DEF NodeManagerStep, mainvars
    <3>2. pc = "checked" => missing' = missing
      BY <1>0, <3>1, CallProceeds DEF CallInv, history
    <3> QED
      BY <1>0, <1>1, <1>2, <2>0, <3>1, <3>2
  <2> QED
    BY <1>4, <2>1, <2>2, <2>3, <2>4, <2>5, <2>6, <2>7, <2>8 DEF Main
<1>5. CASE EnvironmentStep
  <2>1. UNCHANGED <<pc, check_after_fuzz, check_failed, all_failed, critics, judged, outcome, missing>>
    BY <1>5, EnvironmentSpares DEF EnvironmentStep, mainvars, options
  <2> QED
    BY <1>0, <1>1, <1>2, <2>1
<1>6. CASE HandleTimeout
  <2>1. /\ UNCHANGED <<pc, check_after_fuzz, check_failed, all_failed, critics, judged, missing>>
        /\ outcome' = "killed"
    BY <1>6 DEF HandleTimeout, options, nmvars, history
  <2> QED
    BY <1>0, <1>1, <1>2, <2>1
<1>7. CASE Over \/ UNCHANGED vars
  <2>1. UNCHANGED <<pc, check_after_fuzz, check_failed, all_failed, critics, judged, missing, outcome>>
    BY <1>7 DEF Over, vars, mainvars, nmvars, history
  <2> QED
    BY <1>0, <1>1, <1>2, <2>1
<1> QED
  BY <1>4, <1>5, <1>6, <1>7 DEF Next

\* MainInv holds in every reachable state of a run, for every number of nodes,
\* operators and options.
THEOREM MainInvariance == Spec => []MainInv
<1>1. Init => MainInv
  BY InitEstablishesMainInv
<1>2. MainInv /\ [Next]_vars => MainInv'
  BY DriverCallsManager, ManagerKeepsInv, TableStep, MainTypeStep, CallStep,
     VerdictStep DEF MainInv
<1> QED
  BY <1>1, <1>2, PTL DEF Spec

\* A run aborts only with a cause: a server that died on its own, a graceful
\* stop that gave up, or a recovery check in which nothing succeeded.
THEOREM AbortsHaveCauses == Spec => []AbortHasCause
<1>1. MainInv => AbortHasCause
  BY DEF MainInv, VerdictInv, AbortHasCause
<1> QED
  BY <1>1, MainInvariance, PTL

\* A run that ends with 0 has run all its operators, every node that died
\* before the final check was stopped by an operator afterwards, and some
\* operator succeeded after the faults where that was asked for.
THEOREM CleanExitsAreClean == Spec => []CleanExitIsClean
<1>1. MainInv => CleanExitIsClean
  BY DEF MainInv, VerdictInv, CleanExitIsClean
<1> QED
  BY <1>1, MainInvariance, PTL

\* main() is one of the callers that the manager is specified for, so every
\* theorem about NMSpec holds of a run as well.
THEOREM RunUsesManager == Spec => NMSpec
<1>1. Init => NMInit
  BY DEF Init
<1>2. [Next]_vars => [NMNext]_nmvars
  BY DriverCallsManager
<1> QED
  BY <1>1, <1>2, PTL DEF Spec, NMSpec

-----------------------------------------------------------------------------
(***************************************************************************)
(* A run ends.  Every start is paid for by an iteration of main(), and     *)
(* every step of main() brings the end closer.                             *)
(***************************************************************************)

\* Every step of a run keeps the account of starts: start_all starts a node
\* once, and a critical operator at most one node.
LEMMA StartCountStep ==
    ASSUME MainInv, StartCountInv, [Next]_vars
    PROVE  StartCountInv'
<1> USE MainAssumption DEF table, procs, control, history
<1>0. /\ NMTypeOK /\ critics \in Nat /\ cursor <= node_count
      /\ log_index \in [Node -> Nat] /\ call \in Call
  BY DEF MainInv, NMInv, TypeOK, NMTypeOK
<1>1. CASE UNCHANGED <<critics, log_index, call, cursor>>
  BY <1>1 DEF StartCountInv
<1>2. ASSUME UNCHANGED <<critics, log_index>>, call # "init",
             call' \notin {"init", "starting"}
      PROVE  StartCountInv'
  <2> SUFFICES ASSUME NEW n \in Node
               PROVE  log_index'[n] <= 1 + CriticCount - critics'
    BY <1>2 DEF StartCountInv
  <2>1. log_index[n] <= 0 \/ log_index[n] <= 1 + CriticCount - critics
    BY DEF StartCountInv
  <2> QED
    BY <1>0, <1>2, <2>1 DEF StartCountInv
<1>3. CASE start_all /\ UNCHANGED critics
  <2>1. /\ call = "init" /\ call' = "starting" /\ cursor' = 0
        /\ UNCHANGED <<log_index, critics>>
    BY <1>3 DEF start_all
  <2> QED
    BY <1>0, <2>1 DEF StartCountInv
<1>4. CASE StartAllNode /\ UNCHANGED critics
  <2>1. /\ call = "starting" /\ call' = call /\ cursor' = cursor + 1
        /\ log_index' = [log_index EXCEPT ![cursor] = @ + 1]
        /\ cursor \in Nat
    BY <1>0, <1>4 DEF StartAllNode, start_process, NMTypeOK
  <2> SUFFICES ASSUME NEW n \in Node
               PROVE  (log_index[n] <= IF call = "init" \/ (call = "starting" /\ cursor <= n)
                                         THEN 0 ELSE 1 + CriticCount - critics)'
    BY <1>4 DEF StartCountInv
  <2>2. log_index[n] <= IF cursor <= n THEN 0 ELSE 1 + CriticCount - critics
    BY <2>1 DEF StartCountInv
  <2>3. CASE n = cursor
    BY <1>0, <1>4, <2>1, <2>2, <2>3 DEF StartCountInv
  <2>4. CASE n # cursor
    BY <1>0, <1>4, <2>1, <2>2, <2>4
  <2> QED
    BY <2>3, <2>4
<1>5. CASE CriticalOp
  <2>1. critics > 0 /\ critics' = critics - 1 /\ call = "idle"
    BY <1>5 DEF CriticalOp, At, MainInv, CallInv
  <2>2. call' \in {"idle", "stop_wait", "grace_wait"}
    BY <1>5, <2>1, OperatorCalls DEF CriticalOp
  <2>3. ASSUME NEW n \in Node PROVE log_index'[n] <= log_index[n] + 1
    <3>1. CASE UNCHANGED log_index
      BY <1>0, <3>1
    <3>2. ASSUME NEW m, start_process(m) PROVE log_index'[n] <= log_index[n] + 1
      BY <1>0, <3>2 DEF start_process
    <3> QED
      BY <1>5, <3>1, <3>2 DEF CriticalOp, NoCandidate, nmvars, CriticalOperator,
         RandomKill, stop_node, stop_node_rr, RandomStart, StartNewNode, start_node,
         GraceRandomKill
  <2>4. ASSUME NEW n \in Node
        PROVE  log_index[n] <= 1 + CriticCount - critics /\ log_index'[n] \in Nat
    <3>1. log_index' \in [Node -> Nat]
      BY DriverCallsManager, ManagerKeepsInv DEF MainInv, NMInv, NMTypeOK
    <3> QED
      BY <2>1, <3>1 DEF StartCountInv
  <2> QED
    BY <1>0, <2>1, <2>2, <2>3, <2>4 DEF StartCountInv
<1>6. CASE Continue /\ ~StartAllNode /\ UNCHANGED critics
  <2>1. call # "init" /\ call' \notin {"init", "starting"} /\ UNCHANGED log_index
    BY <1>6 DEF Continue, StartAllDone, EnterCheck, CheckNode, CheckDone,
       StopNodeWaited, GraceWaited, StopAllNode, StopAllNodeRR, StopAllWaited,
       StopAllDone
  <2> QED
    BY <1>2, <1>6, <2>1
<1>7. CASE (check \/ stop_all) /\ UNCHANGED critics
  <2>1. call # "init" /\ call' \notin {"init", "starting"} /\ UNCHANGED log_index
    BY <1>7 DEF check, stop_all, EnterCheck
  <2> QED
    BY <1>2, <1>7, <2>1
<1>8. CASE Main
  BY <1>1, <1>3, <1>4, <1>5, <1>6, <1>7, <1>8
     DEF Main, Boot, StartNodes, NodesStarted, NormalOp, NormalDone, CriticalOpDone,
         FinalCheck, Checked, RecoveryOp, RecoveryDone, StopNodes, Backup, SaveCount,
         Finish, NodeManagerStep, nmvars, mainvars
<1>9. CASE HandleTimeout \/ Over \/ UNCHANGED vars
  BY <1>1, <1>9 DEF HandleTimeout, Over, vars, nmvars, mainvars
<1>10. CASE EnvironmentStep
  BY <1>1, <1>10, EnvironmentSpares DEF EnvironmentStep, mainvars
<1> QED
  BY <1>8, <1>9, <1>10 DEF Next

\* A run starts a node at most once for start_all and once for each critical
\* operator it has run, and leaves no more servers of it behind; the bound on
\* the starts never keeps a node from being started.
THEOREM StartsPaid == Spec => []StartsArePaid
<1>1. Init => StartCountInv
  BY MainAssumption DEF Init, NMInit, StartCountInv
<1>2. MainInv /\ StartCountInv /\ [Next]_vars => StartCountInv'
  BY StartCountStep
<1>3. MainInv /\ StartCountInv => StartsArePaid
  <2> SUFFICES ASSUME MainInv, StartCountInv PROVE StartsArePaid
    OBVIOUS
  <2>1. /\ critics \in Nat /\ log_index \in [Node -> Nat] /\ orphans \in [Node -> Nat]
        /\ server \in [Node -> BOOLEAN] /\ cursor \in Nat
        /\ node_count \in 0 .. MaxNodes
    BY DEF MainInv, NMInv, NMTypeOK, TypeOK
  <2>2. ASSUME NEW n \in Node
        PROVE  log_index[n] <= 1 + CriticCount - critics /\ orphans[n] <= 1 + CriticCount
    <3>1. log_index[n] <= 1 + CriticCount - critics
      BY <2>1, MainAssumption DEF StartCountInv
    <3>2. orphans[n] <= log_index[n]
      BY <2>1 DEF MainInv, NMInv, OrphansBounded
    <3> QED
      BY <2>1, <3>1, <3>2, MainAssumption
  <2>3. call = "starting" /\ cursor < node_count => log_index[cursor] < MaxStarts
    BY <2>1, MainAssumption DEF StartCountInv
  <2>4. pc = "critical" /\ critics > 0 => \A n \in Node : log_index[n] < MaxStarts
    BY <2>1, <2>2, MainAssumption
  <2> QED
    BY <2>2, <2>3, <2>4 DEF StartsArePaid
<1> QED
  BY <1>1, <1>2, <1>3, MainInvariance, PTL DEF Spec

\* A step inside a call of the manager leaves fewer of them.
LEMMA CallShortens ==
    ASSUME NMInv, Continue
    PROVE  CallSteps' < CallSteps
<1> USE DEF table, procs, control, history
<1>0. /\ cursor \in Nat /\ node_count \in Nat /\ cursor <= node_count
      /\ Waiting => cursor < node_count
  BY DEF NMInv, NMTypeOK
<1>1. CASE StartAllNode
  <2>1. call = "starting" /\ call' = call /\ cursor' = cursor + 1 /\ node_count' = node_count
    BY <1>1 DEF StartAllNode
  <2> QED
    BY <1>0, <2>1 DEF CallSteps
<1>2. CASE StartAllDone
  <2>1. /\ call = "starting" /\ call' = "checking" /\ cursor = node_count
        /\ cursor' = 0 /\ node_count' = node_count
    BY <1>2 DEF StartAllDone, EnterCheck
  <2> QED
    BY <1>0, <2>1 DEF CallSteps
<1>3. CASE CheckNode \/ CheckDone
  <2>1. /\ call = "checking" /\ node_count' = node_count
        /\ (call' = "checking" /\ cursor' = cursor + 1) \/ call' = "idle"
    BY <1>3 DEF CheckNode, CheckDone
  <2> QED
    BY <1>0, <2>1 DEF CallSteps
<1>4. CASE StopNodeWaited \/ GraceWaited
  <2>1. call \in {"stop_wait", "grace_wait"} /\ call' = "idle"
    BY <1>4 DEF StopNodeWaited, GraceWaited
  <2> QED
    BY <2>1 DEF CallSteps
<1>5. CASE StopAllNode
  <2>1. call = "stopping" /\ call' = call /\ cursor' = cursor + 1 /\ node_count' = node_count
    BY <1>5 DEF StopAllNode
  <2> QED
    BY <1>0, <2>1 DEF CallSteps
<1>6. CASE StopAllNodeRR
  <2>1. /\ call = "stopping" /\ call' = "stopping_wait"
        /\ cursor' = cursor /\ node_count' = node_count
    BY <1>6 DEF StopAllNodeRR
  <2> QED
    BY <1>0, <2>1 DEF CallSteps
<1>7. CASE StopAllWaited
  <2>1. /\ call = "stopping_wait" /\ call' = "stopping"
        /\ cursor' = cursor + 1 /\ node_count' = node_count
    BY <1>7 DEF StopAllWaited
  <2> QED
    BY <1>0, <2>1 DEF CallSteps
<1>8. CASE StopAllDone
  <2>1. call = "stopping" /\ call' = "stopped" /\ cursor = node_count
    BY <1>8 DEF StopAllDone
  <2> QED
    BY <1>0, <2>1 DEF CallSteps
<1> QED
  BY <1>1, <1>2, <1>3, <1>4, <1>5, <1>6, <1>7, <1>8 DEF Continue

\* Each step of main() that does not end the run brings its end closer.
LEMMA MainGetsCloser ==
    ASSUME MainInv, Main, outcome' = "running"
    PROVE  Closer
<1>0. critics \in Nat /\ left \in Nat /\ NMInv
  BY DEF MainInv, TypeOK
<1>1. CASE Boot
  <2>1. pc = "boot" /\ pc' = "start" /\ critics' = critics
    BY <1>1 DEF Boot, At
  <2>2. Place' < Place
    BY <2>1 DEF Place
  <2> QED
    BY <2>1, <2>2 DEF Closer
<1>2. CASE StartNodes
  <2>1. pc = "start" /\ pc' = "started" /\ critics' = critics
    BY <1>2 DEF StartNodes, At
  <2>2. Place' < Place
    BY <2>1 DEF Place
  <2> QED
    BY <2>1, <2>2 DEF Closer
<1>3. CASE NodesStarted
  <2>1. pc = "started" /\ pc' \in {"normal", "stop"} /\ critics' = critics
    BY <1>3 DEF NodesStarted, At
  <2>2. Place' < Place
    BY <2>1 DEF Place
  <2> QED
    BY <2>1, <2>2 DEF Closer
<1>4. CASE NormalOp \/ RecoveryOp
  <2>1. pc' = pc /\ critics' = critics /\ left' = left - 1
    BY <1>4 DEF NormalOp, RecoveryOp
  <2>2. Place' = Place
    BY <2>1 DEF Place
  <2> QED
    BY <1>0, <2>1, <2>2 DEF Closer
<1>5. CASE NormalDone
  <2>1. pc = "normal" /\ pc' = "critical" /\ critics' = critics
    BY <1>5 DEF NormalDone, At
  <2>2. Place' < Place
    BY <2>1 DEF Place
  <2> QED
    BY <2>1, <2>2 DEF Closer
<1>6. CASE CriticalOp
  <2>1. critics' = critics - 1
    BY <1>6 DEF CriticalOp
  <2> QED
    BY <1>0, <2>1 DEF Closer
<1>7. CASE CriticalOpDone
  <2>1. pc = "critical_done" /\ pc' = "normal" /\ critics' = critics
    BY <1>7 DEF CriticalOpDone, At
  <2>2. Place' < Place
    BY <2>1 DEF Place
  <2> QED
    BY <2>1, <2>2 DEF Closer
<1>8. CASE FinalCheck
  <2>1. pc = "critical" /\ pc' = "checked" /\ critics' = critics
    BY <1>8 DEF FinalCheck, At
  <2>2. Place' < Place
    BY <2>1 DEF Place
  <2> QED
    BY <2>1, <2>2 DEF Closer
<1>9. CASE Checked
  <2>1. pc = "checked" /\ pc' \in {"recovery", "stop"} /\ critics' = critics
    BY <1>9 DEF Checked, At
  <2>2. Place' < Place
    BY <2>1 DEF Place
  <2> QED
    BY <2>1, <2>2 DEF Closer
<1>10. CASE RecoveryDone
  <2>1. pc = "recovery" /\ pc' = "stop" /\ critics' = critics
    BY <1>10 DEF RecoveryDone, At
  <2>2. Place' < Place
    BY <2>1 DEF Place
  <2> QED
    BY <2>1, <2>2 DEF Closer
<1>11. CASE StopNodes \/ Backup \/ SaveCount
  <2>1. /\ \/ pc = "stop" /\ pc' = "stopping"
           \/ pc = "stopping" /\ pc' = "backed"
           \/ pc = "backed" /\ pc' = "saved"
        /\ critics' = critics
    BY <1>11 DEF StopNodes, Backup, SaveCount, At
  <2>2. Place' < Place
    BY <2>1 DEF Place
  <2> QED
    BY <2>1, <2>2 DEF Closer
<1>12. CASE NodeManagerStep
  <2>1. pc' = pc /\ critics' = critics /\ left' = left /\ Continue
    BY <1>12 DEF NodeManagerStep, mainvars
  <2>2. Place' = Place
    BY <2>1 DEF Place
  <2> QED
    BY <1>0, <2>1, <2>2, CallShortens DEF Closer
<1>13. ~Finish
  BY DEF Finish
<1> QED
  BY <1>1, <1>2, <1>3, <1>4, <1>5, <1>6, <1>7, <1>8, <1>9, <1>10, <1>11, <1>12, <1>13
     DEF Main

\* Every step of main() brings the end of the run closer, and neither servers
\* nor tracers set it back.
THEOREM MainGetsOn == Spec => MainAdvances
<1> DEFINE Advance == /\ {critics, Place, left, CallSteps} \subseteq Nat
                      /\ Main /\ outcome' = "running" => Closer
                      /\ ~Main => UNCHANGED <<critics, Place, left, CallSteps>>
<1>1. MainInv /\ [Next]_vars => [Advance]_vars
  <2> SUFFICES ASSUME MainInv, Next PROVE Advance
    OBVIOUS
  <2>1. Main /\ outcome' = "running" => Closer
    BY MainGetsCloser
  <2>0. {critics, Place, left, CallSteps} \subseteq Nat
    <3>1. Place \in Nat
      BY DEF Place
    <3>2. cursor \in Nat /\ node_count \in Nat /\ cursor <= node_count
      BY DEF MainInv, NMInv, NMTypeOK
    <3>3. CallSteps \in Nat
      BY <3>2 DEF CallSteps
    <3> QED
      BY <3>1, <3>3 DEF MainInv, TypeOK
  <2>2. CASE HandleTimeout \/ Over
    <3>1. UNCHANGED <<critics, pc, left, call, cursor, node_count>>
      BY <2>2 DEF HandleTimeout, Over, vars, mainvars, nmvars, control, table
    <3> QED
      BY <2>0, <2>1, <3>1 DEF Place, CallSteps
  <2>3. CASE EnvironmentStep
    <3>1. UNCHANGED <<critics, pc, left, call, cursor, node_count>>
      BY <2>3, EnvironmentSpares DEF EnvironmentStep, mainvars, control, table
    <3> QED
      BY <2>0, <2>1, <3>1 DEF Place, CallSteps
  <2> QED
    BY <2>0, <2>1, <2>2, <2>3 DEF Next
<1> QED
  BY <1>1, MainInvariance, PTL DEF Spec, MainAdvances

-----------------------------------------------------------------------------
(***************************************************************************)
(* main() implements the abstract run.  A step of main() that only moves   *)
(* within a phase is a stuttering step, a step of the manager or of the    *)
(* surroundings is TracersChange or a stuttering step, and every other     *)
(* step is the step of the abstract run with that name or purpose.         *)
(***************************************************************************)

SomeTracer == \E n \in Node : process[n] = "running"

\* From the check on no tracer is started: neither check, nor stop_all, nor
\* the end of a wait, nor what happens to the servers brings one to life.
LEMMA TracersOnlyEnd ==
    ASSUME NMInv,
           (Continue /\ call # "starting") \/ Environment \/ check \/ stop_all \/ start_all
    PROVE  SomeTracer' => SomeTracer
<1> USE DEF table, procs, control, history
<1>0. process \in [Node -> {"none", "running", "dead"}] /\ cursor \in Int
  BY DEF NMInv, NMTypeOK
<1> SUFFICES \A n \in Node : process'[n] = "running" => process[n] = "running"
  BY DEF SomeTracer
<1>1. CASE \/ check \/ stop_all \/ start_all \/ CheckNode \/ CheckDone \/ StopNodeWaited
           \/ GraceWaited \/ StopAllWaited \/ StopAllDone
  BY <1>1 DEF check, EnterCheck, stop_all, start_all, CheckNode, CheckDone,
     StopNodeWaited, GraceWaited, StopAllWaited, StopAllDone
<1>2. CASE StopAllNode
  BY <1>0, <1>2 DEF StopAllNode, SigKill
<1>3. CASE StopAllNodeRR
  BY <1>0, <1>3 DEF StopAllNodeRR, SendTerm
<1>4. CASE Environment
  <2>1. PICK n \in Node : ServerDies(n) \/ ServerTerminated(n)
                            \/ TracerExits(n) \/ OrphanDies(n)
    BY <1>4 DEF Environment
  <2> QED
    BY <1>0, <2>1 DEF ServerDies, ServerTerminated, TracerExits, OrphanDies
<1>5. ~(call # "starting" /\ (StartAllNode \/ StartAllDone))
  BY DEF StartAllNode, StartAllDone
<1> QED
  BY <1>1, <1>2, <1>3, <1>4, <1>5 DEF Continue

\* The phase of the abstract run that each place of main() belongs to.
LEMMA PhaseOf ==
    /\ pc = "boot" => Phase = "boot"
    /\ pc \in {"start", "started"} => Phase = "init"
    /\ pc \in {"normal", "critical", "critical_done", "checked"} => Phase = "fuzz"
    /\ pc = "recovery" => Phase = "recover"
    /\ pc \in {"stop", "stopping"} => Phase = "stop"
    /\ pc = "backed" => Phase = "backed"
    /\ pc = "saved" => Phase = "saved"
  BY DEF Phase

\* The same after a step.
LEMMA PhaseAfter ==
    /\ pc' = "boot" => Phase' = "boot"
    /\ pc' \in {"start", "started"} => Phase' = "init"
    /\ pc' \in {"normal", "critical", "critical_done", "checked"} => Phase' = "fuzz"
    /\ pc' = "recovery" => Phase' = "recover"
    /\ pc' \in {"stop", "stopping"} => Phase' = "stop"
    /\ pc' = "backed" => Phase' = "backed"
    /\ pc' = "saved" => Phase' = "saved"
  BY DEF Phase

\* A run starts as the abstract run does.
LEMMA InitRefines == Init => Run!RunInit
<1> SUFFICES ASSUME Init PROVE Run!RunInit
  OBVIOUS
<1>1. Phase = "boot"
  BY PhaseOf DEF Init
<1>2. (\E n \in Node : process[n] = "running") = FALSE
  BY DEF Init, NMInit
<1> QED
  BY <1>1, <1>2 DEF Init, Run!RunInit

\* A step that leaves the phase, the flag, the verdict, the count and the
\* outcome alone is a stuttering step, or TracersChange: the tracers may end at
\* any time, and come to life in the phases "init" and "fuzz" only.
LEMMA QuietStepRefines ==
    ASSUME TypeOK, Phase' = Phase,
           UNCHANGED <<is_fuzzing, check_failed, test_case_count, outcome>>,
           \/ SomeTracer' => SomeTracer
           \/ outcome = "running" /\ Phase \in {"init", "fuzz"}
    PROVE  [Run!Driver \/ Run!Killed]_(Run!runvars)
<1>1. CASE SomeTracer' = SomeTracer
  BY <1>1 DEF SomeTracer, Run!runvars
<1>2. CASE SomeTracer' # SomeTracer
  <2>1. SomeTracer \in BOOLEAN /\ SomeTracer' \in BOOLEAN
    BY DEF SomeTracer
  <2>2. \/ SomeTracer' = FALSE
        \/ outcome = "running" /\ Phase \in {"init", "fuzz"}
    BY <1>2, <2>1
  <2>3. Run!TracersChange
    BY <2>1, <2>2 DEF SomeTracer, Run!TracersChange, Run!In
  <2> QED
    BY <2>3 DEF Run!Driver
<1> QED
  BY <1>1, <1>2

\* Every step of a run is a step of the abstract run, or a stuttering step.
LEMMA StepRefines ==
    ASSUME MainInv, [Next]_vars
    PROVE  [Run!Driver \/ Run!Killed]_(Run!runvars)
<1>0. NMInv /\ TypeOK /\ CallInv /\ TableInv /\ VerdictInv
  BY DEF MainInv
<1> USE DEF At, Run!In
<1>1. CASE Main
  <2>1. CASE Boot
    <3>1. /\ pc = "boot" /\ outcome = "running" /\ test_case_count = 0
          /\ UNCHANGED <<process, check_failed, test_case_count>>
          /\ is_fuzzing' \in {"on", "off"}
          /\ \/ pc' = "start" /\ outcome' = outcome
             \/ pc' = pc /\ outcome' = "segv"
      BY <1>0, <2>1 DEF Boot, TypeOK, nmvars, procs
    <3>2. Run!Boot
      BY <3>1, PhaseOf, PhaseAfter DEF Run!Boot
    <3> QED
      BY <3>2 DEF Run!Driver
  <2>2. CASE StartNodes \/ FinalCheck \/ StopNodes
    <3>1. /\ outcome = "running" /\ (start_all \/ check \/ stop_all)
          /\ UNCHANGED <<is_fuzzing, check_failed, test_case_count, outcome>>
      BY <2>2 DEF StartNodes, FinalCheck, StopNodes
    <3>2. Phase' = Phase
      BY <2>2, PhaseOf, PhaseAfter DEF StartNodes, FinalCheck, StopNodes
    <3> QED
      BY <1>0, <3>1, <3>2, TracersOnlyEnd, QuietStepRefines
  <2>3. CASE NodesStarted
    <3>1. /\ pc = "started" /\ outcome = "running"
          /\ UNCHANGED <<process, test_case_count, outcome>>
          /\ \/ pc' = "normal" /\ is_fuzzing' = "on" /\ check_failed' = check_failed
             \/ pc' = "stop" /\ check_failed' = TRUE /\ is_fuzzing' = is_fuzzing
      BY <2>3 DEF NodesStarted, nmvars, procs
    <3>2. Run!FuzzOn \/ Run!Failed
      BY <3>1, PhaseOf, PhaseAfter DEF Run!FuzzOn, Run!Failed
    <3> QED
      BY <3>2 DEF Run!Driver
  <2>4. CASE NormalOp \/ NormalDone \/ CriticalOpDone \/ RecoveryOp
    <3>1. UNCHANGED <<is_fuzzing, check_failed, test_case_count, outcome, process>>
      BY <2>4 DEF NormalOp, NormalDone, CriticalOpDone, RecoveryOp, nmvars, procs
    <3>2. Phase' = Phase
      BY <2>4, PhaseOf, PhaseAfter DEF NormalOp, NormalDone, CriticalOpDone, RecoveryOp
    <3>3. SomeTracer' => SomeTracer
      BY <3>1 DEF SomeTracer
    <3> QED
      BY <1>0, <3>1, <3>2, <3>3, QuietStepRefines
  <2>5. CASE CriticalOp
    <3>1. /\ pc = "critical" /\ pc' = "critical_done" /\ outcome = "running"
          /\ UNCHANGED <<is_fuzzing, check_failed, test_case_count, outcome>>
      BY <2>5 DEF CriticalOp
    <3>2. Phase = "fuzz" /\ Phase' = "fuzz"
      BY <3>1, PhaseOf, PhaseAfter
    <3> QED
      BY <1>0, <3>1, <3>2, QuietStepRefines
  <2>6. CASE Checked
    <3>1. /\ pc = "checked" /\ outcome = "running"
          /\ UNCHANGED <<process, test_case_count, outcome>>
          /\ \/ /\ pc' \in {"recovery", "stop"} /\ is_fuzzing' = "off"
                /\ check_failed' = check_failed
             \/ pc' = "stop" /\ check_failed' = TRUE /\ is_fuzzing' = is_fuzzing
      BY <2>6 DEF Checked, nmvars, procs
    <3>2. Run!FuzzOff \/ Run!Failed
      BY <3>1, PhaseOf, PhaseAfter DEF Run!FuzzOff, Run!Failed
    <3> QED
      BY <3>2 DEF Run!Driver
  <2>7. CASE RecoveryDone
    <3>1. /\ pc = "recovery" /\ pc' = "stop" /\ outcome = "running"
          /\ UNCHANGED <<process, test_case_count, outcome, is_fuzzing>>
          /\ check_failed' = TRUE \/ check_failed' = check_failed
      <4>1. check_failed' = all_failed /\ all_failed \in BOOLEAN /\ pc = "recovery"
        BY <1>0, <2>7 DEF RecoveryDone, TypeOK
      <4>2. check_failed = FALSE
        BY <1>0, <4>1 DEF VerdictInv, Ending, TypeOK
      <4>3. check_failed' = TRUE \/ check_failed' = check_failed
        BY <4>1, <4>2
      <4> QED
        BY <2>7, <4>3 DEF RecoveryDone, nmvars, procs
    <3>2. Run!Failed \/ Run!Recovered
      BY <3>1, PhaseOf, PhaseAfter DEF Run!Failed, Run!Recovered
    <3> QED
      BY <3>2 DEF Run!Driver
  <2>8. CASE Backup
    <3>1. /\ pc = "stopping" /\ pc' = "backed" /\ outcome = "running"
          /\ is_fuzzing' = "removed"
          /\ UNCHANGED <<process, test_case_count, outcome, check_failed>>
      BY <2>8 DEF Backup, nmvars, procs
    <3>2. ~\E n \in Node : process[n] = "running"
      BY <1>0, <2>8 DEF Backup, TableInv
    <3>3. Run!Backup
      BY <3>1, <3>2, PhaseOf, PhaseAfter DEF Run!Backup
    <3> QED
      BY <3>3 DEF Run!Driver
  <2>9. CASE SaveCount
    <3>1. /\ pc = "backed" /\ pc' = "saved" /\ outcome = "running"
          /\ test_case_count' = 0 + 1
          /\ UNCHANGED <<process, is_fuzzing, outcome, check_failed>>
      BY <1>0, <2>9 DEF SaveCount, nmvars, procs, TypeOK
    <3>2. Run!SaveCount
      BY <3>1, PhaseOf, PhaseAfter DEF Run!SaveCount
    <3> QED
      BY <3>2 DEF Run!Driver
  <2>10. CASE Finish
    <3>1. /\ pc = "saved" /\ pc' = "saved" /\ outcome = "running"
          /\ outcome' = IF check_failed THEN "abort" ELSE "exit"
          /\ UNCHANGED <<process, is_fuzzing, test_case_count, check_failed>>
      BY <2>10 DEF Finish, nmvars, procs
    <3>2. Run!End
      BY <3>1, PhaseOf, PhaseAfter DEF Run!End
    <3> QED
      BY <3>2 DEF Run!Driver
  <2>11. CASE NodeManagerStep
    <3>1. /\ UNCHANGED <<pc, is_fuzzing, check_failed, test_case_count, outcome>>
          /\ Continue /\ outcome = "running"
      BY <2>11 DEF NodeManagerStep, mainvars
    <3>2. Phase' = Phase
      BY <3>1 DEF Phase
    <3>3. CASE call = "starting"
      <4>1. Phase = "init"
        BY <1>0, <3>3, PhaseOf DEF CallInv, TypeOK
      <4> QED
        BY <1>0, <3>1, <3>2, <4>1, QuietStepRefines
    <3>4. CASE call # "starting"
      BY <1>0, <3>1, <3>2, <3>4, TracersOnlyEnd, QuietStepRefines
    <3> QED
      BY <3>3, <3>4
  <2> QED
    BY <1>1, <2>1, <2>2, <2>3, <2>4, <2>5, <2>6, <2>7, <2>8, <2>9, <2>10, <2>11
       DEF Main
<1>2. CASE HandleTimeout
  <2>1. /\ UNCHANGED <<pc, process, is_fuzzing, check_failed, test_case_count>>
        /\ outcome = "running" /\ outcome' = "killed"
    BY <1>2 DEF HandleTimeout, nmvars, procs
  <2>2. Phase' = Phase
    BY <2>1 DEF Phase
  <2> QED
    BY <2>1, <2>2 DEF Run!Killed
<1>3. CASE EnvironmentStep
  <2>1. /\ UNCHANGED <<pc, is_fuzzing, check_failed, test_case_count, outcome>>
        /\ Environment
    BY <1>3 DEF EnvironmentStep, mainvars
  <2>2. Phase' = Phase
    BY <2>1 DEF Phase
  <2> QED
    BY <1>0, <2>1, <2>2, TracersOnlyEnd, QuietStepRefines
<1>4. CASE Over \/ UNCHANGED vars
  <2>1. UNCHANGED <<pc, process, is_fuzzing, check_failed, test_case_count, outcome>>
    BY <1>4 DEF Over, vars, mainvars, nmvars, procs
  <2> QED
    BY <2>1 DEF Phase, Run!runvars
<1> QED
  BY <1>1, <1>2, <1>3, <1>4 DEF Next

\* main() implements the abstract run, for every number of nodes and operators
\* and every tracer: the flag is never on again once it was switched off, no
\* tracer comes to life after the check, the verdict of STOP is final, and the
\* run is saved and counted only when no tracer is left.
THEOREM MainImplementsRun == Spec => ImplementsRun
<1>1. Init => Run!RunInit
  BY InitRefines
<1>2. MainInv /\ [Next]_vars => [Run!Driver \/ Run!Killed]_(Run!runvars)
  BY StepRefines
<1> QED
  BY <1>1, <1>2, MainInvariance, PTL DEF Spec, ImplementsRun, Run!RunSpec

=============================================================================
