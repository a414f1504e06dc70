------------------------------ MODULE TestRun -------------------------------
(***************************************************************************)
(* What a run of the test driver promises to the rest of DistFuzz, without *)
(* nodes, operators and calls: the fuzzer reads its outcome, the tracers   *)
(* read its flag is_fuzzing and write the coverage map while they live,    *)
(* and the next run reads test_case_count.  TestMain implements this.      *)
(***************************************************************************)
EXTENDS Integers

VARIABLES
    phase,            \* "boot", "init", "fuzz", "recover", "stop", "backed" or "saved"
    is_fuzzing,       \* "none" (no segment), "on", "off" or "removed"
    check_failed,
    tracers,          \* is some tracer of this run alive?
    number,           \* the number this run has, read at boot
    test_case_count,  \* the file test_case_count
    outcome           \* "running", "exit", "abort", "segv" or "killed"

runvars == <<phase, is_fuzzing, check_failed, tracers, number, test_case_count, outcome>>

RunInit ==
    /\ phase = "boot" /\ is_fuzzing = "none"
    /\ check_failed = FALSE /\ tracers = FALSE
    /\ number = 0 /\ test_case_count = 0
    /\ outcome = "running"

In(p) == outcome = "running" /\ phase = p

Boot ==
    /\ In("boot")
    /\ number' = test_case_count
    /\ is_fuzzing' \in {"on", "off"}
    /\ \/ phase' = "init" /\ UNCHANGED outcome
       \/ outcome' = "segv" /\ UNCHANGED phase
    /\ UNCHANGED <<check_failed, tracers, test_case_count>>

\* Nodes are started and killed until the check; from then on they only stop.
TracersChange ==
    /\ \/ In("init") \/ In("fuzz")
       \/ tracers' = FALSE
    /\ tracers' \in BOOLEAN
    /\ UNCHANGED <<phase, is_fuzzing, check_failed, number, test_case_count, outcome>>

\* Faults are switched on once the nodes are up.
FuzzOn ==
    /\ In("init")
    /\ phase' = "fuzz" /\ is_fuzzing' = "on"
    /\ UNCHANGED <<check_failed, tracers, number, test_case_count, outcome>>

\* Faults are switched off for good, after a check that passed.
FuzzOff ==
    /\ In("fuzz")
    /\ phase' \in {"recover", "stop"} /\ is_fuzzing' = "off"
    /\ UNCHANGED <<check_failed, tracers, number, test_case_count, outcome>>

Failed ==
    /\ In("init") \/ In("fuzz") \/ In("recover")
    /\ phase' = "stop" /\ check_failed' = TRUE
    /\ UNCHANGED <<is_fuzzing, tracers, number, test_case_count, outcome>>

Recovered ==
    /\ In("recover")
    /\ phase' = "stop"
    /\ UNCHANGED <<is_fuzzing, check_failed, tracers, number, test_case_count, outcome>>

\* A faulty backup that does not wait for the tracers.
BackupEarly ==
    /\ In("stop")
    /\ phase' = "backed" /\ is_fuzzing' = "removed"
    /\ UNCHANGED <<check_failed, tracers, number, test_case_count, outcome>>

\* The run is backed up under its number when no tracer is left.
Backup ==
    /\ In("stop") /\ ~tracers
    /\ phase' = "backed" /\ is_fuzzing' = "removed"
    /\ UNCHANGED <<check_failed, tracers, number, test_case_count, outcome>>

\* A faulty driver that leaves the count as it was if the check failed.
SaveIfPassed ==
    /\ In("backed")
    /\ phase' = "saved"
    /\ test_case_count' = IF check_failed THEN test_case_count ELSE number + 1
    /\ UNCHANGED <<is_fuzzing, check_failed, tracers, number, outcome>>

SaveCount ==
    /\ In("backed")
    /\ phase' = "saved"
    /\ test_case_count' = number + 1
    /\ UNCHANGED <<is_fuzzing, check_failed, tracers, number, outcome>>

End ==
    /\ In("saved")
    /\ outcome' = IF check_failed THEN "abort" ELSE "exit"
    /\ UNCHANGED <<phase, is_fuzzing, check_failed, tracers, number, test_case_count>>

\* The driver is killed; what it started lives on.
Killed ==
    /\ outcome = "running"
    /\ outcome' = "killed"
    /\ UNCHANGED <<phase, is_fuzzing, check_failed, tracers, number, test_case_count>>

Driver == \/ Boot \/ TracersChange \/ FuzzOn \/ FuzzOff \/ Failed \/ Recovered
          \/ Backup \/ SaveCount \/ End

RunSpec == RunInit /\ [][Driver \/ Killed]_runvars

=============================================================================
