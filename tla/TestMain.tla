------------------------------ MODULE TestMain ------------------------------
(***************************************************************************)
(* One run of the test driver, main() of core/src/dst_test_main.cpp, on    *)
(* top of the node manager: boot, start of the nodes, normal and critical  *)
(* operators, the check, the recovery check, the shutdown and the verdict  *)
(* (abort() or return 0) that the fuzzer reads from the exit status.       *)
(*                                                                         *)
(* The fuzzer may kill the driver at any moment (SIGALRM handler of        *)
(* TestRunning.cpp); servers and tracers live on then.                     *)
(***************************************************************************)
EXTENDS NodeManager

CONSTANTS
    NormalCount,     \* --normal_count
    CriticCount,     \* --critic_count
    NormalOps        \* normal operators left in the registry after the init one

ASSUME MainAssumption ==
    /\ NormalCount \in Nat
    /\ CriticCount \in Nat
    /\ NormalOps \in Nat
    /\ CriticCount < MaxStarts    \* the bound on starts never blocks a start

VARIABLES
    pc,              \* where main() is
    check_after_fuzz,  \* the option --check_after_fuzz=true
    nm_registered,   \* did the build register a NodeManager?
    is_fuzzing,      \* the shared flag: "none" (no segment), "on", "off", "removed"
    check_failed,
    all_failed,      \* all_operators_after_fuzzing_failed
    left,            \* iterations left of the current loop over normal operators
    critics,         \* iterations left of the loop over critical operators
    test_case_count, \* the file test_case_count, relative to the start of the run
    outcome,         \* "running", "exit", "abort", "segv" or "killed"
    judged           \* history: the nodes in died when the last check() began

mainvars == <<pc, nm_registered, is_fuzzing, check_failed, all_failed, left,
              critics, test_case_count, outcome, judged>>
options == <<tracer, check_after_fuzz>>
vars == <<nmvars, check_after_fuzz, mainvars>>

Init ==
    /\ NMInit
    /\ pc = "boot"
    /\ nm_registered \in BOOLEAN /\ check_after_fuzz \in BOOLEAN
    /\ is_fuzzing = "none"
    /\ check_failed = FALSE /\ all_failed = TRUE
    /\ left = 0 /\ critics = CriticCount
    /\ test_case_count = 0
    /\ outcome = "running"
    /\ judged = {}

At(l) == outcome = "running" /\ pc = l

-----------------------------------------------------------------------------

\* Options, env_init.sh, split_files and the shared flag.  Without a node
\* manager main() jumps to STOP and calls stop_all on a null pointer.
Boot ==
    /\ At("boot")
    /\ is_fuzzing' \in {"on", "off"}     \* --fuzz_before_init
    /\ IF nm_registered
         THEN pc' = "start" /\ UNCHANGED outcome
         ELSE outcome' = "segv" /\ UNCHANGED pc
    /\ UNCHANGED <<nmvars, nm_registered, check_failed, all_failed, left,
                   critics, test_case_count, judged>>

StartNodes ==
    /\ At("start") /\ start_all
    /\ pc' = "started"
    /\ UNCHANGED <<nm_registered, is_fuzzing, check_failed, all_failed, left,
                   critics, test_case_count, outcome, judged>>

\* start_all() has returned: a failed check leads to STOP, otherwise the init
\* operator runs, fuzzing is switched on and the first normal operators run.
NodesStarted ==
    /\ At("started") /\ call = "idle"
    /\ IF ret
         THEN /\ pc' = "normal" /\ left' = NormalCount /\ is_fuzzing' = "on"
              /\ UNCHANGED check_failed
         ELSE /\ pc' = "stop" /\ check_failed' = TRUE
              /\ UNCHANGED <<left, is_fuzzing>>
    /\ UNCHANGED <<nmvars, nm_registered, all_failed, critics, test_case_count, outcome, judged>>

\* One iteration of run_some_normal_operators.  Its threads are joined and
\* their results are ignored.
NormalOp ==
    /\ At("normal") /\ left > 0 /\ NormalOps > 0
    /\ left' = left - 1
    /\ UNCHANGED <<nmvars, pc, nm_registered, is_fuzzing, check_failed, all_failed,
                   critics, test_case_count, outcome, judged>>

NormalDone ==
    /\ At("normal") /\ (left = 0 \/ NormalOps = 0)
    /\ pc' = "critical"
    /\ UNCHANGED <<nmvars, nm_registered, is_fuzzing, check_failed, all_failed, left,
                   critics, test_case_count, outcome, judged>>

\* A critical operator that finds no node to act on.
NoCandidate ==
    /\ \/ \A n \in Known : should_alive[n]
       \/ \A n \in Known : ~should_alive[n]
    /\ UNCHANGED nmvars

CriticalOp ==
    /\ At("critical") /\ critics > 0
    /\ CriticalOperator \/ NoCandidate
    /\ critics' = critics - 1
    /\ pc' = "critical_done"
    /\ UNCHANGED <<nm_registered, is_fuzzing, check_failed, all_failed, left,
                   test_case_count, outcome, judged>>

CriticalOpDone ==
    /\ At("critical_done") /\ call = "idle"
    /\ pc' = "normal" /\ left' = NormalCount
    /\ UNCHANGED <<nmvars, nm_registered, is_fuzzing, check_failed, all_failed,
                   critics, test_case_count, outcome, judged>>

FinalCheck ==
    /\ At("critical") /\ critics = 0
    /\ check
    /\ pc' = "checked" /\ judged' = died
    /\ UNCHANGED <<nm_registered, is_fuzzing, check_failed, all_failed, left,
                   critics, test_case_count, outcome>>

\* A faulty driver that does not look at the result of check().
CheckedIgnored ==
    /\ At("checked") /\ call = "idle"
    /\ is_fuzzing' = "off" /\ left' = NormalCount
    /\ pc' = IF check_after_fuzz THEN "recovery" ELSE "stop"
    /\ UNCHANGED <<nmvars, nm_registered, check_failed, all_failed, critics,
                   test_case_count, outcome, judged>>

\* check() has returned.  If it passed, fuzzing is switched off, for the
\* recovery check or for good.
Checked ==
    /\ At("checked") /\ call = "idle"
    /\ IF ret
         THEN /\ is_fuzzing' = "off" /\ left' = NormalCount
              /\ pc' = IF check_after_fuzz THEN "recovery" ELSE "stop"
              /\ UNCHANGED check_failed
         ELSE /\ check_failed' = TRUE /\ pc' = "stop"
              /\ UNCHANGED <<is_fuzzing, left>>
    /\ UNCHANGED <<nmvars, nm_registered, all_failed, critics, test_case_count, outcome, judged>>

SomeServerUp == \E n \in Node : server[n] \/ orphans[n] > 0

\* One operator of the recovery check; it can only succeed if a server is up.
RecoveryOp ==
    /\ At("recovery") /\ left > 0 /\ NormalOps > 0
    /\ left' = left - 1
    /\ \/ SomeServerUp /\ all_failed' = FALSE
       \/ UNCHANGED all_failed
    /\ UNCHANGED <<nmvars, pc, nm_registered, is_fuzzing, check_failed, critics,
                   test_case_count, outcome, judged>>

\* A faulty recovery check that fails the run as soon as one operator failed.
RecoveryDoneAnyFailed ==
    /\ At("recovery")
    /\ check_failed' \in {all_failed, TRUE}
    /\ pc' = "stop"
    /\ UNCHANGED <<nmvars, nm_registered, is_fuzzing, all_failed, left, critics,
                   test_case_count, outcome, judged>>

\* A faulty driver that switches the faults on again after the recovery check.
RecoveryDoneRearms ==
    /\ At("recovery") /\ (left = 0 \/ NormalOps = 0)
    /\ check_failed' = all_failed /\ is_fuzzing' = "on"
    /\ pc' = "stop"
    /\ UNCHANGED <<nmvars, nm_registered, all_failed, left, critics,
                   test_case_count, outcome, judged>>

RecoveryDone ==
    /\ At("recovery") /\ (left = 0 \/ NormalOps = 0)
    /\ check_failed' = all_failed
    /\ pc' = "stop"
    /\ UNCHANGED <<nmvars, nm_registered, is_fuzzing, all_failed, left, critics,
                   test_case_count, outcome, judged>>

-----------------------------------------------------------------------------

\* STOP: stop_all(), reached from every path.
StopNodes ==
    /\ At("stop") /\ stop_all
    /\ pc' = "stopping"
    /\ UNCHANGED <<nm_registered, is_fuzzing, check_failed, all_failed, left,
                   critics, test_case_count, outcome, judged>>

\* remove_is_fuzzing, stop.sh and the backup of the run under its number.
Backup ==
    /\ At("stopping") /\ call = "stopped"
    /\ is_fuzzing' = "removed"
    /\ pc' = "backed"
    /\ UNCHANGED <<nmvars, nm_registered, check_failed, all_failed, left, critics,
                   test_case_count, outcome, judged>>

\* The file test_case_count gets the next number.
SaveCount ==
    /\ At("backed")
    /\ test_case_count' = test_case_count + 1
    /\ pc' = "saved"
    /\ UNCHANGED <<nmvars, nm_registered, is_fuzzing, check_failed, all_failed, left,
                   critics, outcome, judged>>

\* The exit status.
Finish ==
    /\ At("saved")
    /\ outcome' = IF check_failed THEN "abort" ELSE "exit"
    /\ UNCHANGED <<nmvars, pc, nm_registered, is_fuzzing, check_failed, all_failed, left,
                   critics, test_case_count, judged>>

\* HandleTimeout of the fuzzer: SIGKILL to the driver, and to nobody else.
HandleTimeout ==
    /\ outcome = "running"
    /\ outcome' = "killed"
    /\ UNCHANGED <<nmvars, pc, nm_registered, is_fuzzing, check_failed, all_failed,
                   left, critics, test_case_count, judged, options>>

NodeManagerStep == outcome = "running" /\ Continue /\ UNCHANGED mainvars
EnvironmentStep == Environment /\ UNCHANGED mainvars /\ UNCHANGED options
Over == outcome # "running" /\ UNCHANGED vars

Main == /\ \/ Boot \/ StartNodes \/ NodesStarted \/ NormalOp \/ NormalDone
           \/ CriticalOp \/ CriticalOpDone \/ FinalCheck \/ Checked
           \/ RecoveryOp \/ RecoveryDone \/ StopNodes \/ Backup \/ SaveCount \/ Finish
           \/ NodeManagerStep
        /\ UNCHANGED options

Next == Main \/ HandleTimeout \/ EnvironmentStep \/ Over

\* The driver keeps running, rr acts on a SIGTERM (it kills its server after
\* five seconds at the latest) and a tracer without a server exits.
Fairness ==
    /\ WF_vars(Main)
    /\ \A n \in Node : /\ WF_vars(ServerTerminated(n) /\ UNCHANGED mainvars /\ UNCHANGED options)
                       /\ WF_vars(TracerExits(n) /\ UNCHANGED mainvars /\ UNCHANGED options)

Spec == Init /\ [][Next]_vars /\ Fairness

-----------------------------------------------------------------------------
(***************************************************************************)
(* Properties                                                              *)
(***************************************************************************)

\* The run aborts only if a server died on its own, a graceful stop gave up on
\* a tracer, or not one operator of the recovery check succeeded (lines
\* 336-341, 378-383 and 420-424).
AbortHasCause ==
    outcome = "abort" =>
        \/ \E n \in Node : crashed[n] \/ lingering[n]
        \/ check_after_fuzz /\ all_failed

\* A run ends with 0 only if every node whose tracer had exited by itself
\* before the final check was stopped by an operator afterwards, and if some
\* operator succeeded after the faults were switched off, where that was asked
\* for (lines 378-425).
CleanExitIsClean ==
    outcome = "exit" =>
        /\ critics = 0
        /\ judged \subseteq masked
        /\ check_after_fuzz => ~all_failed

\* The inductive invariant behind these properties.  TypeOK and CallInv say
\* where main() may be and which call of the manager it may be in there.
TypeOK ==
    /\ pc \in {"boot", "start", "started", "normal", "critical", "critical_done",
               "checked", "recovery", "stop", "stopping", "backed", "saved"}
    /\ check_after_fuzz \in BOOLEAN /\ nm_registered \in BOOLEAN
    /\ is_fuzzing \in {"none", "on", "off", "removed"}
    /\ check_failed \in BOOLEAN /\ all_failed \in BOOLEAN
    /\ left \in Nat /\ critics \in Nat
    /\ test_case_count = IF pc = "saved" THEN 1 ELSE 0
    /\ outcome \in {"running", "exit", "abort", "segv", "killed"}
    /\ judged \in SUBSET Node

CallInv ==
    /\ pc \in {"boot", "start"} => call = "init"
    /\ pc = "started" => call \in {"starting", "checking", "idle"}
    /\ pc \in {"normal", "critical", "recovery", "stop"} => call = "idle"
    /\ pc = "critical_done" => call \in {"idle", "stop_wait", "grace_wait"}
    /\ pc = "checked" => call \in {"checking", "idle"}
    /\ pc = "stopping" => call \in {"stopping", "stopping_wait", "stopped"}
    /\ pc \in {"backed", "saved"} => call = "stopped"

\* Only nodes of the table are to be alive or have a tracer, and stop_all
\* leaves no tracer behind it.
TableInv ==
    \A n \in Node :
        /\ n >= node_count => ~should_alive[n] /\ process[n] = "none"
        /\ call \in {"stopping", "stopping_wait"} /\ n < cursor => process[n] # "running"
        /\ call = "stopped" => process[n] # "running"

\* What the verdict rests on.
Ending == pc \in {"stop", "stopping", "backed", "saved"}

VerdictInv ==
    /\ check_failed => /\ Ending
                       /\ \/ \E n \in Node : crashed[n] \/ lingering[n]
                          \/ check_after_fuzz /\ all_failed
    /\ pc = "checked" => judged \subseteq masked \cup missing
    /\ pc = "recovery" => check_after_fuzz /\ judged \subseteq masked
    /\ pc \in {"checked", "recovery"} => critics = 0
    /\ Ending /\ ~check_failed => /\ critics = 0 /\ judged \subseteq masked
                                  /\ check_after_fuzz => ~all_failed
    /\ outcome = "abort" => check_failed
    /\ outcome = "exit" => Ending /\ ~check_failed

MainInv == NMInv /\ TypeOK /\ CallInv /\ TableInv /\ VerdictInv

\* main() implements the abstract run: a tracer is alive if some node has one,
\* and the number of this run is what test_case_count is relative to.
Phase ==
    CASE pc = "boot" -> "boot"
      [] pc \in {"start", "started"} -> "init"
      [] pc \in {"normal", "critical", "critical_done", "checked"} -> "fuzz"
      [] pc = "recovery" -> "recover"
      [] pc \in {"stop", "stopping"} -> "stop"
      [] OTHER -> pc

Run == INSTANCE TestRun WITH
           phase <- Phase,
           tracers <- \E n \in Node : process[n] = "running",
           number <- 0

\* Faults are on from the start of the operators and never again after they
\* were switched off, no node is started after the check, the verdict does not
\* change once STOP is reached, the run is backed up only when no tracer is
\* alive, whatever the nodes do meanwhile, and before the count moves on
\* (lines 300-466).
ImplementsRun == Run!RunSpec

\* Apart from start_all, every start of a node is paid for by an iteration over
\* the critical operators: a run starts a node, and so leaves servers of it
\* behind, at most 1 + --critic_count times, and the bound MaxStarts of the model
\* never holds a start back (lines 360-375, and start_process of the manager).
StartsArePaid ==
    /\ \A n \in Node : /\ log_index[n] <= 1 + CriticCount - critics
                       /\ orphans[n] <= 1 + CriticCount
    /\ call = "starting" /\ cursor < node_count => log_index[cursor] < MaxStarts
    /\ pc = "critical" /\ critics > 0 => \A n \in Node : log_index[n] < MaxStarts

\* Its inductive form: no node is started before start_all comes to it.
StartCountInv ==
    /\ critics <= CriticCount
    /\ \A n \in Node :
           log_index[n] <= IF call = "init" \/ (call = "starting" /\ cursor <= n)
                             THEN 0 ELSE 1 + CriticCount - critics

\* How far main() is from its end, where the loop over the critical operators
\* leads back to "normal" with one iteration less left.
Place ==
    CASE pc = "boot" -> 11         [] pc = "start" -> 10   [] pc = "started" -> 9
      [] pc = "critical_done" -> 8 [] pc = "normal" -> 7   [] pc = "critical" -> 6
      [] pc = "checked" -> 5       [] pc = "recovery" -> 4 [] pc = "stop" -> 3
      [] pc = "stopping" -> 2      [] pc = "backed" -> 1   [] OTHER -> 0

\* The steps that are left of the manager's call.
CallSteps ==
    CASE call = "starting" -> 2 * node_count - cursor + 2
      [] call = "checking" -> node_count - cursor + 1
      [] call \in {"stop_wait", "grace_wait"} -> 1
      [] call = "stopping" -> 2 * (node_count - cursor) + 1
      [] call = "stopping_wait" -> 2 * (node_count - cursor)
      [] OTHER -> 0

Closer ==
    \/ critics' < critics
    \/ critics' = critics /\ Place' < Place
    \/ critics' = critics /\ Place' = Place /\ left' < left
    \/ critics' = critics /\ Place' = Place /\ left' = left /\ CallSteps' < CallSteps

\* Every step of main() brings the run closer to its end, in an order that has
\* no infinite descent, and nothing that servers and tracers do sets it back: no
\* loop of the driver depends on what the nodes do (lines 300-466).
MainAdvances ==
    [][/\ {critics, Place, left, CallSteps} \subseteq Nat
       /\ Main /\ outcome' = "running" => Closer
       /\ ~Main => UNCHANGED <<critics, Place, left, CallSteps>>]_vars

\* Every run comes to an end: no operator, check or stop of a traced node
\* blocks main() for ever.
RunEnds == <>(outcome # "running")

=============================================================================
