---------------------------- MODULE NodeManager ----------------------------
(***************************************************************************)
(* The node manager of the test driver (core/include/dst_node_manager.hpp) *)
(* and the critical operators that call it.                                *)
(*                                                                         *)
(* The manager never supervises a server directly: ni.process is a TRACER  *)
(* (strace, rr or the eBPF loader) that runs the server.  The model has,   *)
(* for every node, the tracer as the manager sees it (process), the server *)
(* under that tracer (server) and the servers that killed tracers left     *)
(* behind (orphans).                                                       *)
(*                                                                         *)
(* The manager's calls are made by the main thread, one at a time.  The    *)
(* loops of start_all, stop_all and check advance one node per step,       *)
(* because servers and tracers die between two iterations.                 *)
(***************************************************************************)
EXTENDS Integers

CONSTANTS
    NodeCount,     \* --node_count
    MaxNodes,      \* bound on the nodes that StartNewNode may add
    MaxStarts,     \* bound on log_index: how often one node is started
    GraceKill,     \* is GraceRandomKill registered (dqlite_test, c-raft_test)?
    NewNodes       \* is StartNewNode registered (dqlite_test, c-raft_test)?

ASSUME NodeAssumption ==
    /\ NodeCount \in Nat
    /\ MaxNodes \in Nat
    /\ NodeCount <= MaxNodes
    /\ MaxStarts \in Nat
    /\ GraceKill \in BOOLEAN
    /\ NewNodes \in BOOLEAN

Node == 0 .. (MaxNodes - 1)

VARIABLES
    tracer,        \* "strace" (the default), "rr" (--start_with_rr) or "ebpf"
    node_count,    \* size of node_processes, and the field node_count
    should_alive,  \* NodeInfo.should_alive
    log_index,     \* NodeInfo.log_index
    process,       \* NodeInfo.process: "none" (nullptr), "running", "dead"
    server,        \* is the server under node n's current tracer up?
    term,          \* node n's current tracer acts on a SIGTERM
    orphans,       \* servers of node n that outlived their tracer
    call,          \* the call the main thread is in
    cursor,        \* its loop index, or the node it waits for
    ret,           \* what the last check() returned
    crashed,       \* history: a server of node n died on its own
    lingering,     \* history: grace_stop_node gave up on node n's tracer
    died,          \* history: nodes whose tracer exited when it was to be alive
    masked,        \* history: nodes an operator stopped after that
    missing        \* history: the nodes to report when check() began

table == <<node_count, should_alive, log_index>>
procs == <<process, server, term, orphans>>
control == <<call, cursor, ret>>
history == <<crashed, lingering, died, masked, missing>>
nmvars == <<tracer, table, procs, control, history>>

Known == {n \in Node : n < node_count}

Call == {"init", "starting", "checking", "idle", "stop_wait", "grace_wait",
         "stopping", "stopping_wait", "stopped"}

NMInit ==
    /\ tracer \in {"strace", "rr", "ebpf"}
    /\ node_count = NodeCount
    /\ should_alive = [n \in Node |-> FALSE]
    /\ log_index = [n \in Node |-> 0]
    /\ process = [n \in Node |-> "none"]
    /\ server = [n \in Node |-> FALSE]
    /\ term = [n \in Node |-> FALSE]
    /\ orphans = [n \in Node |-> 0]
    /\ call = "init" /\ cursor = 0 /\ ret = TRUE
    /\ crashed = [n \in Node |-> FALSE]
    /\ lingering = [n \in Node |-> FALSE]
    /\ died = {} /\ masked = {} /\ missing = {}

-----------------------------------------------------------------------------
(***************************************************************************)
(* The tracers.  A killed strace or eBPF loader leaves its server running; *)
(* rr sets PTRACE_O_EXITKILL, so its server dies with it.  On SIGTERM      *)
(* strace does nothing (with -o FILE it ignores the signal), rr forwards   *)
(* it to the server and kills what is left after five seconds, and the     *)
(* loader, which only handles SIGINT, dies.                                *)
(***************************************************************************)

LeftBehind(n) == IF tracer # "rr" /\ process[n] = "running" /\ server[n]
                   THEN 1 ELSE 0

\* boost::process::child::terminate(), and the destructor of a running child:
\* SIGKILL to the tracer, and waitpid.
SigKill(n) ==
    /\ process' = [process EXCEPT ![n] = "dead"]
    /\ orphans' = [orphans EXCEPT ![n] = @ + LeftBehind(n)]
    /\ server' = [server EXCEPT ![n] = FALSE]

\* kill(ni.process->id(), SIGTERM)
SendTerm(n) ==
    /\ term' = [term EXCEPT ![n] = tracer # "strace" /\ process[n] = "running"]
    /\ IF tracer = "ebpf" THEN SigKill(n) ELSE UNCHANGED <<process, server, orphans>>

-----------------------------------------------------------------------------
(***************************************************************************)
(* start_process, start_all                                                *)
(***************************************************************************)

\* A faulty start_process that does not count the start.
start_process_same_log(n) ==
    /\ log_index[n] < MaxStarts
    /\ process' = [process EXCEPT ![n] = "running"]
    /\ orphans' = [orphans EXCEPT ![n] = @ + LeftBehind(n)]
    /\ server' = [server EXCEPT ![n] = TRUE]
    /\ term' = [term EXCEPT ![n] = FALSE]
    /\ UNCHANGED log_index

\* start_process deletes the node's previous child object, whose destructor
\* kills a tracer that still runs, and then spawns the new tracer.
start_process(n) ==
    /\ log_index[n] < MaxStarts
    /\ process' = [process EXCEPT ![n] = "running"]
    /\ orphans' = [orphans EXCEPT ![n] = @ + LeftBehind(n)]
    /\ server' = [server EXCEPT ![n] = TRUE]
    /\ term' = [term EXCEPT ![n] = FALSE]
    /\ log_index' = [log_index EXCEPT ![n] = @ + 1]

\* start_all fills node_processes ...
start_all ==
    /\ call = "init"
    /\ should_alive' = [n \in Node |-> n < node_count]
    /\ call' = "starting" /\ cursor' = 0
    /\ UNCHANGED <<node_count, log_index, procs, ret, history>>

\* ... starts one node after the other ...
StartAllNode ==
    /\ call = "starting" /\ cursor < node_count
    /\ start_process(cursor)
    /\ cursor' = cursor + 1
    /\ UNCHANGED <<node_count, should_alive, call, ret, history>>

\* The nodes whose death check() is there to report.
Missing == {n \in Known : should_alive[n] /\ process[n] # "running"}

EnterCheck ==
    /\ call' = "checking" /\ cursor' = 0
    /\ missing' = Missing
    /\ UNCHANGED <<table, procs, ret, crashed, lingering, died, masked>>

\* ... and returns check().
StartAllDone ==
    /\ call = "starting" /\ cursor = node_count
    /\ EnterCheck

-----------------------------------------------------------------------------
(***************************************************************************)
(* check: the first node whose tracer does not match should_alive decides. *)
(***************************************************************************)

check ==
    /\ call = "idle"
    /\ EnterCheck

\* A faulty check that only looks for stopped nodes that still run.
MatchesStopped(n) == should_alive[n] \/ process[n] # "running"

Matches(n) == should_alive[n] <=> process[n] = "running"

CheckNode ==
    /\ call = "checking" /\ cursor < node_count
    /\ IF Matches(cursor)
         THEN cursor' = cursor + 1 /\ UNCHANGED <<call, ret>>
         ELSE call' = "idle" /\ ret' = FALSE /\ cursor' = 0
    /\ UNCHANGED <<table, procs, history>>

CheckDone ==
    /\ call = "checking" /\ cursor = node_count
    /\ call' = "idle" /\ ret' = TRUE /\ cursor' = 0
    /\ UNCHANGED <<table, procs, history>>

-----------------------------------------------------------------------------
(***************************************************************************)
(* The critical operators.  Each picks a node with one byte of the random  *)
(* file, modulo the number of candidates; with none it only returns true.  *)
(***************************************************************************)

\* A faulty start_node that restarts a node which is to be alive already.
start_node_unchecked(n) ==
    /\ start_process(n)
    /\ should_alive' = [should_alive EXCEPT ![n] = TRUE]

start_node(n) ==
    /\ ~should_alive[n]
    /\ start_process(n)
    /\ should_alive' = [should_alive EXCEPT ![n] = TRUE]

RandomStart ==
    /\ call = "idle"
    /\ \E n \in Known : start_node(n)
    /\ UNCHANGED <<node_count, control, history>>

\* StartNewNode appends a stopped node to the table and starts it.
StartNewNode ==
    /\ NewNodes
    /\ call = "idle"
    /\ node_count < MaxNodes
    /\ node_count' = node_count + 1
    /\ start_node(node_count)
    /\ UNCHANGED <<control, history>>

\* The operator stops a node whose tracer is gone already: from now on check()
\* cannot tell the node from one that was running when it was stopped.
Mask(n) ==
    /\ masked' = IF process[n] = "running" \/ term[n] THEN masked ELSE masked \cup {n}
    /\ UNCHANGED <<crashed, died, missing>>

\* A faulty stop_node that forgets should_alive = false.
stop_node_keeps_flag(n) ==
    /\ tracer # "rr"
    /\ SigKill(n) /\ UNCHANGED term
    /\ UNCHANGED <<table, control, history>>

\* A faulty stop_node that signals nobody.
stop_node_no_kill(n) ==
    /\ tracer # "rr"
    /\ should_alive' = [should_alive EXCEPT ![n] = FALSE]
    /\ UNCHANGED <<node_count, log_index, procs, control, history>>

\* stop_node with strace or eBPF: terminate() kills the tracer and reaps it.
stop_node(n) ==
    /\ tracer # "rr"
    /\ SigKill(n) /\ UNCHANGED term
    /\ should_alive' = [should_alive EXCEPT ![n] = FALSE]
    /\ Mask(n)
    /\ UNCHANGED <<node_count, log_index, control, lingering>>

\* A faulty stop_node that waits for rr without having signalled it.
stop_node_rr_no_term(n) ==
    /\ tracer = "rr"
    /\ call' = "stop_wait" /\ cursor' = n
    /\ UNCHANGED <<table, procs, ret, history>>

\* stop_node with rr: SIGTERM, then a wait() without a time limit.
stop_node_rr(n) ==
    /\ tracer = "rr"
    /\ SendTerm(n)
    /\ call' = "stop_wait" /\ cursor' = n
    /\ UNCHANGED <<table, ret, history>>

RandomKill ==
    /\ call = "idle"
    /\ \E n \in Known : should_alive[n] /\ (stop_node(n) \/ stop_node_rr(n))

StopNodeWaited ==
    /\ call = "stop_wait" /\ process[cursor] # "running"
    /\ should_alive' = [should_alive EXCEPT ![cursor] = FALSE]
    /\ Mask(cursor)
    /\ call' = "idle" /\ cursor' = 0
    /\ UNCHANGED <<node_count, log_index, procs, ret, lingering>>

\* grace_stop_node: SIGTERM, wait_for(200ms), and should_alive = false
\* whether or not the tracer has exited by then.
GraceRandomKill ==
    /\ GraceKill
    /\ call = "idle"
    /\ \E n \in Known : should_alive[n] /\ SendTerm(n) /\ cursor' = n
    /\ call' = "grace_wait"
    /\ UNCHANGED <<table, ret, history>>

GraceWaited ==
    /\ call = "grace_wait"
    /\ should_alive' = [should_alive EXCEPT ![cursor] = FALSE]
    /\ lingering' = [lingering EXCEPT ![cursor] = @ \/ process[cursor] = "running"]
    /\ Mask(cursor)
    /\ call' = "idle" /\ cursor' = 0
    /\ UNCHANGED <<node_count, log_index, procs, ret>>

-----------------------------------------------------------------------------
(***************************************************************************)
(* stop_all visits every node, the stopped ones too.                       *)
(***************************************************************************)

stop_all ==
    /\ call = "idle"
    /\ call' = "stopping" /\ cursor' = 0
    /\ UNCHANGED <<table, procs, ret, history>>

StopAllNode ==
    /\ call = "stopping" /\ cursor < node_count
    /\ tracer # "rr"
    /\ SigKill(cursor) /\ UNCHANGED term
    /\ should_alive' = [should_alive EXCEPT ![cursor] = FALSE]
    /\ cursor' = cursor + 1
    /\ UNCHANGED <<node_count, log_index, call, ret, history>>

StopAllNodeRR ==
    /\ call = "stopping" /\ cursor < node_count
    /\ tracer = "rr"
    /\ SendTerm(cursor)
    /\ call' = "stopping_wait"
    /\ UNCHANGED <<table, cursor, ret, history>>

StopAllWaited ==
    /\ call = "stopping_wait" /\ process[cursor] # "running"
    /\ should_alive' = [should_alive EXCEPT ![cursor] = FALSE]
    /\ call' = "stopping" /\ cursor' = cursor + 1
    /\ UNCHANGED <<node_count, log_index, procs, ret, history>>

StopAllDone ==
    /\ call = "stopping" /\ cursor = node_count
    /\ call' = "stopped" /\ cursor' = 0
    /\ UNCHANGED <<table, procs, ret, history>>

-----------------------------------------------------------------------------
(***************************************************************************)
(* The environment: servers die on their own at any time, rr carries out   *)
(* a SIGTERM, and a tracer exits once its server is gone.                  *)
(***************************************************************************)

ServerDies(n) ==
    /\ server[n] /\ ~term[n]
    /\ server' = [server EXCEPT ![n] = FALSE]
    /\ crashed' = [crashed EXCEPT ![n] = TRUE]
    /\ UNCHANGED <<table, process, term, orphans, control, lingering, died, masked, missing>>

ServerTerminated(n) ==
    /\ server[n] /\ term[n]
    /\ server' = [server EXCEPT ![n] = FALSE]
    /\ UNCHANGED <<table, process, term, orphans, control, history>>

TracerExits(n) ==
    /\ process[n] = "running" /\ ~server[n]
    /\ process' = [process EXCEPT ![n] = "dead"]
    /\ died' = IF should_alive[n] /\ ~term[n] THEN died \cup {n} ELSE died
    /\ UNCHANGED <<table, server, term, orphans, control,
                   crashed, lingering, masked, missing>>

OrphanDies(n) ==
    /\ orphans[n] > 0
    /\ orphans' = [orphans EXCEPT ![n] = @ - 1]
    /\ UNCHANGED <<table, process, server, term, control, history>>

Environment == \E n \in Node : ServerDies(n) \/ ServerTerminated(n)
                                 \/ TracerExits(n) \/ OrphanDies(n)

-----------------------------------------------------------------------------

\* The steps inside a call, and the operators a caller may choose between.
Continue == \/ StartAllNode \/ StartAllDone \/ CheckNode \/ CheckDone
            \/ StopNodeWaited \/ GraceWaited
            \/ StopAllNode \/ StopAllNodeRR \/ StopAllWaited \/ StopAllDone

CriticalOperator == RandomKill \/ RandomStart \/ GraceRandomKill \/ StartNewNode

\* A caller that makes the manager's calls in any order between start_all
\* and stop_all.
Stopped == call = "stopped" /\ UNCHANGED nmvars

NMNext ==
    /\ UNCHANGED tracer
    /\ \/ start_all \/ check \/ stop_all \/ CriticalOperator
       \/ Continue \/ Environment \/ Stopped

NMSpec == NMInit /\ [][NMNext]_nmvars

-----------------------------------------------------------------------------
(***************************************************************************)
(* Properties                                                              *)
(***************************************************************************)

\* Every variable has its type.
NMTypeOK ==
    /\ tracer \in {"strace", "rr", "ebpf"}
    /\ node_count \in 0 .. MaxNodes
    /\ should_alive \in [Node -> BOOLEAN]
    /\ log_index \in [Node -> Nat]
    /\ process \in [Node -> {"none", "running", "dead"}]
    /\ server \in [Node -> BOOLEAN]
    /\ term \in [Node -> BOOLEAN]
    /\ orphans \in [Node -> Nat]
    /\ call \in Call
    /\ cursor \in 0 .. MaxNodes
    /\ ret \in BOOLEAN
    /\ crashed \in [Node -> BOOLEAN]
    /\ lingering \in [Node -> BOOLEAN]
    /\ died \in SUBSET Node
    /\ masked \in SUBSET Node
    /\ missing \in SUBSET Node

\* When check() has returned false, some server died on its own or some
\* graceful stop gave up on a tracer: stops, restarts and new nodes alone,
\* in any order, never make check() report a failure (check, lines 182-204).
CheckFailureHasCause ==
    (call = "idle" /\ ~ret) => \E n \in Node : crashed[n] \/ lingering[n]

\* check() returns true only if no node was missing when it began: a tracer
\* that was gone while its node was to be alive is always reported, whatever
\* dies while the loop runs (check, lines 182-204).
CheckReportsMissing ==
    (call = "idle" /\ ret) => missing = {}

\* Between two calls, a node whose tracer exited by itself is still there for
\* check() to report, unless an operator stopped the node after that: neither
\* a restart nor a new node nor the crash of another one hides it (start_node
\* and stop_node, lines 115-173).
DeathsStayVisible ==
    call = "idle" =>
        \A n \in died \ masked : should_alive[n] /\ process[n] = "dead"

\* Between two calls, a node that is to be stopped has no running tracer,
\* unless a graceful stop gave up on it: stop_node, stop_all and StartNewNode
\* leave the table and the processes in agreement (lines 85-173).
StoppedNodesAreDown ==
    call \in {"idle", "stopped"} =>
        \A n \in Known : ~should_alive[n] => process[n] # "running" \/ lingering[n]

\* Only a killed strace leaves a server behind: at most one per start of the
\* node, and none when the tracer is rr (start_process and terminate()).
OrphansBounded ==
    \A n \in Node :
        /\ orphans[n] + (IF server[n] THEN 1 ELSE 0) <= log_index[n]
        /\ tracer = "rr" => orphans[n] = 0

\* The inductive invariant behind the properties above.  Its clauses say why a
\* tracer runs or not (the server died, or the tracer acts on a SIGTERM), that
\* a SIGTERM is pending for a wanted node only while the manager waits for it,
\* how far start_all has come, and what check() has established so far.
Waiting == call \in {"stop_wait", "grace_wait", "stopping_wait"}

TracerInv(n) ==
    /\ server[n] => process[n] = "running"
    /\ process[n] = "none" => ~term[n]
    /\ process[n] = "running" /\ ~server[n] => crashed[n] \/ term[n]
    /\ process[n] = "dead" /\ should_alive[n] => crashed[n] \/ term[n]
    /\ process[n] = "running" /\ ~should_alive[n] => lingering[n]
    /\ term[n] /\ should_alive[n] => Waiting /\ cursor = n
    /\ n \in died \ masked /\ call \notin {"stopping", "stopping_wait", "stopped"} =>
           should_alive[n] /\ process[n] = "dead" /\ ~term[n]

StartInv(n) ==
    /\ call = "init" => process[n] = "none"
    /\ call = "starting" /\ n < node_count => should_alive[n]
    /\ call = "starting" => (cursor <= n <=> process[n] = "none")
    /\ call \notin {"init", "starting"} /\ n < node_count => process[n] # "none"

CheckInv ==
    /\ ~ret => \E n \in Node : crashed[n] \/ lingering[n]
    /\ call = "checking" => \A n \in missing :
           cursor <= n /\ n < node_count /\ should_alive[n] /\ process[n] # "running"
    /\ call # "checking" /\ ret => missing = {}

NMInv ==
    /\ NMTypeOK
    /\ \A n \in Node : TracerInv(n) /\ StartInv(n)
    /\ CheckInv
    /\ cursor <= node_count
    /\ Waiting => cursor < node_count
    /\ OrphansBounded

\* A wait without a time limit is for an rr that was sent a SIGTERM and acts on
\* it: stop_node and stop_all never wait for a tracer that nothing will end
\* (lines 91-92 and 152-153).
WaitsAreSignalled ==
    call \in {"stop_wait", "stopping_wait"} =>
        tracer = "rr" /\ (process[cursor] = "running" => term[cursor])

\* check() fails only because a server that no operator stopped has died, as
\* the comment of check() has it (lines 175-179).
CheckFailsOnlyForDeaths ==
    (call = "idle" /\ ~ret) => \E n \in Node : crashed[n]

=============================================================================
