------------------------------ MODULE Campaign ------------------------------
(***************************************************************************)
(* One test case after the other: the fuzzer clears the maps, forks the    *)
(* driver, arms a timer, waits, disarms it and judges the run from the     *)
(* exit status (ExecuteCase), then files crashes and hangs (FuzzUnit,      *)
(* AddInterestingSeed, crash_handler, hang_handler).  The driver is the    *)
(* abstract run of TestRun, which TestMain implements.                     *)
(*                                                                         *)
(* SIGALRM may be delivered between any two statements while the timer is  *)
(* armed; it kills the child only, so tracers of a run that timed out live *)
(* on and write branchTraceBit of the following runs.  Where the target is *)
(* started through a shell script (general_test, raftis_test), the child   *)
(* is the shell: its exit status hides the driver's, and the driver        *)
(* survives it.  globalTraceBit is written by instrumented servers only.   *)
(*                                                                         *)
(* exec_tmout < hang_tmout is false (both are EXEC_TIMEOUT), so            *)
(* hang_handler does not run the case again; eflag and cflag are false, so *)
(* the handlers of faulted runs are not called.                            *)
(***************************************************************************)
EXTENDS TestRun, FiniteSets, Sequences, Functions

CONSTANTS
    Loc,        \* locations of globalTraceBit; none if the target is not instrumented
    MaxRuns     \* bound on the test cases

ASSUME CampaignAssumption ==
    /\ IsFiniteSet(Loc) /\ MaxRuns \in Nat

VARIABLES
    wrapped,          \* is the driver started through a shell?
    pc,               \* where FuzzUnit is
    child,            \* "none", "running" or "zombie"
    status,           \* how the child ended: "exited", "signaled" or "sigkill"
    child_pid,        \* is child_pid positive?
    child_timed_out,
    timer,            \* is the timer armed?
    globalTraceBit,   \* the locations that are not 0
    crashTrace, timeoutTrace,
    exec_count, total_crash_count, unique_crash_count,
    total_timeout_count, unique_hang_count,
    leftover,         \* are tracers of earlier runs alive?
    strays,           \* earlier drivers that outlived their shell
    armed,            \* history: this run's timer has been set
    failed,           \* history: runs that ended with abort or a segmentation fault
    alarms, others,   \* history: children killed by the alarm, by others
    tainted,          \* history: another run's tracer has written branchTraceBit
    backups           \* history: the numbers under which runs were backed up

fuzzvars == <<pc, child, status, child_pid, child_timed_out, timer>>
counts == <<crashTrace, timeoutTrace, exec_count, total_crash_count,
            unique_crash_count, total_timeout_count, unique_hang_count>>
rest == <<leftover, strays, wrapped>>
history == <<armed, failed, alarms, others, tainted, backups>>
vars == <<runvars, fuzzvars, globalTraceBit, counts, rest, history>>

\* No driver has been started: the run variables are those of a run that ended.
Init ==
    /\ phase = "saved" /\ is_fuzzing = "removed" /\ check_failed = FALSE
    /\ tracers = FALSE /\ number = 0 /\ test_case_count = 0 /\ outcome = "exit"
    /\ pc = "idle" /\ child = "none" /\ status = "exited"
    /\ child_pid = FALSE /\ child_timed_out = FALSE /\ timer = FALSE
    /\ globalTraceBit = {} /\ crashTrace = {} /\ timeoutTrace = {}
    /\ exec_count = 0 /\ total_crash_count = 0 /\ unique_crash_count = 0
    /\ total_timeout_count = 0 /\ unique_hang_count = 0
    /\ leftover = FALSE /\ strays = {} /\ wrapped \in BOOLEAN
    /\ armed = FALSE /\ failed = 0 /\ alarms = 0 /\ others = 0
    /\ tainted = FALSE /\ backups = <<>>

-----------------------------------------------------------------------------
(***************************************************************************)
(* ExecuteCase                                                             *)
(***************************************************************************)

\* Lines 206-216: the flag and the maps are cleared.
ClearMaps ==
    /\ pc = "idle" /\ exec_count < MaxRuns
    /\ child_timed_out' = FALSE
    /\ globalTraceBit' = {}
    /\ armed' = FALSE /\ tainted' = FALSE
    /\ pc' = "fork"
    /\ UNCHANGED <<runvars, child, status, child_pid, timer, counts, rest, failed, alarms, others, backups>>

\* fork(): a new driver starts.  What the last one left behind stays.
Fork ==
    /\ pc = "fork"
    /\ child' = "running" /\ child_pid' = TRUE
    /\ leftover' = (leftover \/ tracers)
    /\ strays' = IF outcome = "running"
                   THEN strays \cup {[run |-> exec_count, backed |-> phase = "backed",
                        number |-> IF phase = "boot" THEN test_case_count ELSE number]}
                   ELSE strays
    /\ phase' = "boot" /\ is_fuzzing' = "none" /\ check_failed' = FALSE
    /\ tracers' = FALSE /\ outcome' = "running" /\ UNCHANGED <<number, test_case_count>>
    /\ pc' = "arm"
    /\ UNCHANGED <<wrapped, status, child_timed_out, timer, globalTraceBit, counts, history>>

Arm ==
    /\ pc = "arm"
    /\ timer' = TRUE /\ armed' = TRUE
    /\ pc' = "wait"
    /\ UNCHANGED <<runvars, child, status, child_pid, child_timed_out, globalTraceBit,
                   counts, rest, failed, alarms, others, tainted, backups>>

\* waitpid() reaps the child.
Wait ==
    /\ pc = "wait" /\ child = "zombie"
    /\ child' = "none"
    /\ pc' = "reaped"
    /\ UNCHANGED <<runvars, status, child_pid, child_timed_out, timer, globalTraceBit,
                   counts, rest, history>>

Forget ==
    /\ pc = "reaped"
    /\ child_pid' = FALSE
    /\ pc' = "disarm"
    /\ UNCHANGED <<runvars, child, status, child_timed_out, timer, globalTraceBit,
                   counts, rest, history>>

\* A faulty fuzzer that does not disarm the timer.
DisarmMissing ==
    /\ pc = "disarm"
    /\ exec_count' = exec_count + 1
    /\ pc' = "file"
    /\ UNCHANGED <<runvars, child, status, child_pid, child_timed_out, timer, globalTraceBit,
                   crashTrace, timeoutTrace, total_crash_count, unique_crash_count,
                   total_timeout_count, unique_hang_count, rest, history>>

\* Lines 280-292.
Disarm ==
    /\ pc = "disarm"
    /\ timer' = FALSE
    /\ exec_count' = exec_count + 1
    /\ pc' = "file"
    /\ UNCHANGED <<runvars, child, status, child_pid, child_timed_out, globalTraceBit,
                   crashTrace, timeoutTrace, total_crash_count, unique_crash_count,
                   total_timeout_count, unique_hang_count, rest, history>>

\* A faulty verdict that takes every signal after a timeout for the timeout.
VerdictAnySignal ==
    IF status = "exited" THEN "FAULT_NONE"
    ELSE IF child_timed_out THEN "FAULT_TMOUT" ELSE "FAULT_CRASH"

\* Lines 293-304.
Verdict ==
    IF status = "exited" THEN "FAULT_NONE"
    ELSE IF child_timed_out /\ status = "sigkill" THEN "FAULT_TMOUT" ELSE "FAULT_CRASH"

-----------------------------------------------------------------------------
(***************************************************************************)
(* AddInterestingSeed and its handlers                                     *)
(***************************************************************************)

NoFault ==
    /\ pc = "file" /\ Verdict = "FAULT_NONE"
    /\ pc' = "idle"
    /\ UNCHANGED <<runvars, child, status, child_pid, child_timed_out, timer,
                   globalTraceBit, counts, rest, history>>

\* A crash is unique if it hit a location no earlier crash had hit.
crash_handler ==
    /\ pc = "file" /\ Verdict = "FAULT_CRASH"
    /\ total_crash_count' = total_crash_count + 1
    /\ crashTrace' = crashTrace \cup globalTraceBit
    /\ unique_crash_count' =
           unique_crash_count + (IF globalTraceBit \ crashTrace # {} THEN 1 ELSE 0)
    /\ pc' = "idle"
    /\ UNCHANGED <<runvars, child, status, child_pid, child_timed_out, timer, globalTraceBit,
                   timeoutTrace, exec_count, total_timeout_count, unique_hang_count,
                   rest, history>>

hang_handler ==
    /\ pc = "file" /\ Verdict = "FAULT_TMOUT"
    /\ total_timeout_count' = total_timeout_count + 1
    /\ timeoutTrace' = timeoutTrace \cup globalTraceBit
    /\ unique_hang_count' =
           unique_hang_count + (IF globalTraceBit \ timeoutTrace # {} THEN 1 ELSE 0)
    /\ pc' = "idle"
    /\ UNCHANGED <<runvars, child, status, child_pid, child_timed_out, timer, globalTraceBit,
                   crashTrace, exec_count, total_crash_count, unique_crash_count,
                   rest, history>>

-----------------------------------------------------------------------------
(***************************************************************************)
(* The timer, the driver and what is left of earlier runs                  *)
(***************************************************************************)

\* What SIGKILL does to the child: nothing to a zombie.  The shell's death
\* leaves the driver running.
KillChild ==
    IF child = "running"
      THEN /\ child' = "zombie" /\ status' = "sigkill"
           /\ IF wrapped THEN UNCHANGED runvars ELSE Killed
      ELSE UNCHANGED <<runvars, child, status>>

\* A faulty handler that only notes the timeout.
HandleTimeoutNoKill ==
    /\ timer /\ timer' = FALSE
    /\ child_timed_out' = (child_timed_out \/ child_pid)
    /\ UNCHANGED <<runvars, pc, child, status, child_pid, globalTraceBit, counts, rest,
                   history>>

\* SIGALRM: the timer has no interval and is spent.
HandleTimeout ==
    /\ timer /\ timer' = FALSE
    /\ IF child_pid
         THEN child_timed_out' = TRUE /\ KillChild
         ELSE UNCHANGED <<runvars, child, status, child_timed_out>>
    /\ alarms' = alarms + (IF child_pid /\ child = "running" THEN 1 ELSE 0)
    /\ UNCHANGED <<pc, child_pid, globalTraceBit, counts, rest, armed, failed, others,
                   tainted, backups>>

\* Somebody else kills the child (the kernel short of memory, an operator).
KilledByOther ==
    /\ child = "running" /\ KillChild
    /\ others' = others + 1
    /\ UNCHANGED <<pc, child_pid, child_timed_out, timer, globalTraceBit, counts, rest,
                   armed, failed, alarms, tainted, backups>>

\* A step of the driver.  The driver is the child, or the shell's.
DriverStep ==
    /\ Driver
    /\ failed' = failed + (IF outcome' # outcome /\ outcome' \in {"abort", "segv"} THEN 1 ELSE 0)
    /\ backups' = IF phase' = "backed" /\ phase # "backed" THEN Append(backups, number)
                                                        ELSE backups
    /\ IF outcome' # outcome /\ ~wrapped
         THEN child' = "zombie" /\ status' = (IF outcome' = "exit" THEN "exited" ELSE "signaled")
         ELSE UNCHANGED <<child, status>>
    /\ UNCHANGED <<pc, child_pid, child_timed_out, timer, globalTraceBit, counts, rest,
                   armed, alarms, others, tainted>>

\* The shell ends after its driver and turns a signal into an exit code.
ShellEnds ==
    /\ wrapped /\ child = "running" /\ outcome # "running"
    /\ child' = "zombie" /\ status' = "exited"
    /\ UNCHANGED <<runvars, pc, child_pid, child_timed_out, timer, globalTraceBit, counts,
                   rest, history>>

\* An instrumented server, of this run or of an earlier one, hits a location.
Hit ==
    /\ exec_count > 0 \/ tracers
    /\ \E l \in Loc \ globalTraceBit : globalTraceBit' = globalTraceBit \cup {l}
    /\ UNCHANGED <<runvars, fuzzvars, counts, rest, history>>

\* A tracer of an earlier run writes branchTraceBit after it was cleared.
ForeignTrace ==
    /\ leftover \/ (tracers /\ pc = "fork")
    /\ pc # "idle"
    /\ tainted' = TRUE
    /\ UNCHANGED <<runvars, fuzzvars, globalTraceBit, counts, rest, armed, failed, alarms,
                   others, backups>>

LeftoverDies ==
    /\ leftover /\ leftover' = FALSE
    /\ UNCHANGED <<runvars, fuzzvars, globalTraceBit, counts, strays, wrapped, history>>

\* A driver that outlived its shell is backed up, and writes the count.
StrayBackup ==
    \E d \in strays :
        /\ ~d.backed
        /\ strays' = (strays \ {d}) \cup {[d EXCEPT !.backed = TRUE]}
        /\ backups' = Append(backups, d.number)
        /\ UNCHANGED <<runvars, fuzzvars, globalTraceBit, counts, leftover, wrapped, armed, failed,
                       alarms, others, tainted>>

StraySave ==
    \E d \in strays :
        /\ d.backed
        /\ strays' = strays \ {d}
        /\ test_case_count' = d.number + 1
        /\ UNCHANGED <<phase, is_fuzzing, check_failed, tracers, number, outcome, fuzzvars,
                       globalTraceBit, counts, leftover, wrapped, history>>

Over == pc = "idle" /\ exec_count = MaxRuns /\ UNCHANGED vars

Fuzzer == \/ ClearMaps \/ Fork \/ Arm \/ Wait \/ Forget \/ Disarm
          \/ NoFault \/ crash_handler \/ hang_handler
World == \/ KilledByOther \/ DriverStep \/ ShellEnds \/ Hit \/ ForeignTrace
         \/ LeftoverDies \/ StrayBackup \/ StraySave

Next == Fuzzer \/ HandleTimeout \/ World \/ Over

\* The fuzzer keeps running and an armed timer fires.  Nothing is assumed of
\* the driver.
Fairness == WF_vars(Fuzzer) /\ WF_vars(HandleTimeout)

Spec == Init /\ [][Next]_vars /\ Fairness

-----------------------------------------------------------------------------
(***************************************************************************)
(* Properties                                                              *)
(***************************************************************************)

\* Between two test cases, every run that failed and every child that was
\* killed has been filed once, as a crash or as a timeout, wherever the alarm
\* fell; a run that failed is a crash, and only a child somebody else killed
\* may be filed as either.  Behind a shell the failures are lost (lines
\* 293-304 of TestRunning.cpp).
EveryFailureIsFiled ==
    LET seen == IF wrapped THEN 0 ELSE failed IN
    pc = "idle" =>
        /\ total_crash_count + total_timeout_count = seen + alarms + others
        /\ total_crash_count >= seen
        /\ total_timeout_count >= alarms

\* The alarm of a run is its own: child_timed_out is never set by a timer that
\* an earlier run armed, and child_pid names a process that has been reaped
\* only between waitpid and the next statement, so the SIGKILL of a late alarm
\* can miss its child there and nowhere else (lines 94-101, 206 and 260-282).
AlarmIsOwn ==
    /\ child_timed_out => armed
    /\ child_pid /\ child = "none" => pc = "reaped"

\* Only a child that was killed can leave tracers that write the coverage of a
\* later run; no sequence of runs that end by themselves mixes their coverage
\* (lines 214-216, and lines 431-440 of dst_test_main.cpp).
CoverageIsOwn == tainted => alarms + others > 0

\* Crashes and hangs in the report are told apart by what they hit: there are
\* never more unique ones than locations they have hit, so none where the
\* target is not instrumented (lines 503-551 and 627-689).
UniqueAreDistinct ==
    /\ unique_crash_count <= Cardinality(crashTrace)
    /\ unique_hang_count <= Cardinality(timeoutTrace)

\* A backup of a run is overwritten by a later one only if a child was killed,
\* and one kill costs at most one backup: a number is used again only if a
\* driver was killed between the backup and the new count (lines 135-139 and
\* 449-454 of dst_test_main.cpp).  It needs the driver to be the child.
OneBackupPerKill ==
    ~wrapped => Len(backups) - Cardinality(Range(backups)) <= alarms + others

\* A child has ended and is not filed yet, and how.
Pending(hows) == pc \notin {"idle", "fork"} /\ child # "running" /\ status \in hows
Once(b) == IF b THEN 1 ELSE 0
Seen == IF wrapped THEN 0 ELSE failed

\* What the steps of ExecuteCase, the signals and the driver agree on: where
\* child, child_pid and the timer are at each point, what the end of the child
\* says of the driver, and in which phases there are tracers.
StagesAgree ==
    /\ child = "none" <=> pc \in {"idle", "fork", "reaped", "disarm", "file"}
    /\ child_pid <=> pc \in {"arm", "wait", "reaped"}
    /\ timer => pc \in {"wait", "reaped", "disarm"} /\ armed
    /\ child_timed_out => armed
    /\ ~wrapped => (child = "running" <=> outcome = "running")
    /\ child # "running" \/ outcome = "killed" =>
           \/ outcome \in {"exit", "abort", "segv"}
           \/ alarms + others > 0
    /\ outcome \in {"exit", "abort", "segv"} => phase \in {"boot", "saved"}
    /\ tracers => phase \in {"init", "fuzz", "recover", "stop"}
    /\ leftover \/ tainted => alarms + others > 0

\* The account of failures, with the one that is still to be filed.
Accounts ==
    /\ total_crash_count + total_timeout_count + Once(Pending({"signaled", "sigkill"}))
         = Seen + alarms + others
    /\ total_crash_count + Once(Pending({"signaled"})) >= Seen
    /\ total_timeout_count + Once(Pending({"sigkill"}) /\ child_timed_out) >= alarms

Typed ==
    /\ pc \in {"idle", "fork", "arm", "wait", "reaped", "disarm", "file"}
    /\ child \in {"none", "running", "zombie"}
    /\ status \in {"exited", "signaled", "sigkill"}
    /\ outcome \in {"running", "exit", "abort", "segv", "killed"}
    /\ child_pid \in BOOLEAN /\ child_timed_out \in BOOLEAN /\ timer \in BOOLEAN
    /\ wrapped \in BOOLEAN /\ armed \in BOOLEAN /\ leftover \in BOOLEAN
    /\ tainted \in BOOLEAN /\ tracers \in BOOLEAN
    /\ total_crash_count \in Nat /\ total_timeout_count \in Nat
    /\ failed \in Nat /\ alarms \in Nat /\ others \in Nat

\* The inductive invariant behind the verdicts: at every point of ExecuteCase
\* the stages agree and the account of failures is balanced (lines 94-101,
\* 205-305, 503-551 and 627-689 of TestRunning.cpp).
CampaignInv == Typed /\ StagesAgree /\ Accounts

\* What OneBackupPerKill needs: a driver that is the child has the number that
\* is in the file until it writes the next one, and a number in the file that has
\* been used stands for a kill, unless its run is still in between (lines 135-139
\* and 449-454 of dst_test_main.cpp).
BackupInv ==
    ~wrapped =>
        /\ number \in Nat /\ test_case_count \in Nat /\ backups \in Seq(Nat)
        /\ strays = {}
        /\ outcome = "running" /\ phase \notin {"boot", "saved"} => number = test_case_count
        /\ Range(backups) \subseteq 0 .. test_case_count
        /\ Len(backups) + Once(test_case_count \in Range(backups) /\ ~In("backed"))
             <= Cardinality(Range(backups)) + alarms + others
        /\ In("backed") => test_case_count \in Range(backups)

\* ExecuteCase never blocks in waitpid on a child that nothing will end: as long
\* as the child runs, the timer is armed, and if the alarm comes first it kills
\* the child (lines 94-101 and 260-282).
WaitIsTimed == pc = "wait" /\ child = "running" => timer

\* Every test case comes to an end, whatever the driver does: the timer fires
\* and the child dies (lines 260-282).
ExecutionEnds == pc = "wait" ~> pc = "idle"

=============================================================================
