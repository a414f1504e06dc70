--------------------------- MODULE CampaignProofs ---------------------------
(***************************************************************************)
(* Proofs about Campaign for any number of test cases, any set of          *)
(* locations, and a driver that is the child or is behind a shell.         *)
(***************************************************************************)
EXTENDS Campaign, FiniteSetTheorems, TLAPS

\* Zenon is tried first, then SMT, then Zenon for longer.
USE ZenonT(5), SMTT(15), ZenonT(20)

\* Before the first test case nothing has been counted and nothing runs.
LEMMA InitInv == Init => CampaignInv
<1> SUFFICES ASSUME Init PROVE CampaignInv
  OBVIOUS
<1>1. Typed
  BY DEF Init, Typed
<1>2. StagesAgree
  BY DEF Init, StagesAgree
<1>3. Accounts
  BY DEF Init, Accounts, Pending, Once, Seen
<1> QED
  BY <1>1, <1>2, <1>3 DEF CampaignInv

\* The steps of ExecuteCase and of the handlers keep the invariant.
LEMMA FuzzerInv == CampaignInv /\ Fuzzer => CampaignInv'
<1> SUFFICES ASSUME CampaignInv, Fuzzer PROVE CampaignInv'
  OBVIOUS
<1> USE DEF CampaignInv, Typed, StagesAgree, Accounts, Pending, Once, Seen,
            runvars, counts, rest, history
<1>1. CASE ClearMaps
  BY <1>1 DEF ClearMaps
<1>2. CASE Fork
  BY <1>2 DEF Fork
<1>3. CASE Arm
  BY <1>3 DEF Arm
<1>4. CASE Wait
  BY <1>4 DEF Wait
<1>5. CASE Forget
  <2>1. Typed'
    BY <1>5 DEF Forget
  <2>2. StagesAgree'
    BY <1>5 DEF Forget
  <2>3. Accounts'
    BY <1>5 DEF Forget
  <2> QED
    BY <2>1, <2>2, <2>3
<1>6. CASE Disarm
  <2>1. Typed'
    BY <1>6 DEF Disarm
  <2>2. StagesAgree'
    BY <1>6 DEF Disarm
  <2>3. Accounts'
    BY <1>6 DEF Disarm
  <2> QED
    BY <2>1, <2>2, <2>3
<1>7. CASE NoFault
  BY <1>7 DEF NoFault, Verdict
<1>8. CASE crash_handler
  BY <1>8 DEF crash_handler, Verdict
<1>9. CASE hang_handler
  BY <1>9 DEF hang_handler, Verdict
<1> QED
  BY <1>1, <1>2, <1>3, <1>4, <1>5, <1>6, <1>7, <1>8, <1>9 DEF Fuzzer

\* The alarm keeps the invariant wherever it falls, and so does a SIGKILL from
\* outside.
LEMMA KillInv == CampaignInv /\ (HandleTimeout \/ KilledByOther) => CampaignInv'
<1> SUFFICES ASSUME CampaignInv, HandleTimeout \/ KilledByOther PROVE CampaignInv'
  OBVIOUS
<1>0. HandleTimeout => timer' \in BOOLEAN
  BY Zenon DEF HandleTimeout
<1> USE DEF CampaignInv, Typed, StagesAgree, Accounts, Pending, Once, Seen,
            runvars, counts, rest, KillChild, Killed
<1>1. CASE HandleTimeout /\ child_pid /\ child = "running"
  <2>1. Typed'
    BY <1>0, <1>1 DEF HandleTimeout
  <2>2. StagesAgree'
    BY <1>1 DEF HandleTimeout
  <2>3. Accounts'
    BY <1>1 DEF HandleTimeout
  <2> QED
    BY <2>1, <2>2, <2>3
<1>2. CASE HandleTimeout /\ child_pid /\ child # "running"
  <2>1. Typed'
    BY <1>0, <1>2 DEF HandleTimeout
  <2>2. StagesAgree'
    BY <1>2 DEF HandleTimeout
  <2>3. Accounts'
    BY <1>2 DEF HandleTimeout
  <2> QED
    BY <2>1, <2>2, <2>3
<1>3. CASE HandleTimeout /\ ~child_pid
  <2>0. /\ timer' = FALSE /\ alarms' = alarms
        /\ UNCHANGED <<pc, child, status, child_pid, child_timed_out, outcome, phase,
                       tracers, leftover, wrapped, armed, failed, others, tainted,
                       total_crash_count, total_timeout_count>>
    BY <1>3 DEF HandleTimeout
  <2>1. Typed'
    BY <1>0, <1>3, <2>0
  <2>2. StagesAgree'
    BY <2>0
  <2>3. Accounts'
    BY <2>0
  <2> QED
    BY <2>1, <2>2, <2>3
<1>4. CASE KilledByOther
  BY <1>4 DEF KilledByOther
<1> QED
  BY <1>1, <1>2, <1>3, <1>4

\* A step of the driver changes its outcome only when it ends by itself.
LEMMA DriverEnds ==
    ASSUME CampaignInv, Driver
    PROVE  /\ outcome' \in {"running", "exit", "abort", "segv", "killed"}
           /\ tracers' \in BOOLEAN
           /\ outcome' # outcome => /\ outcome = "running"
                                    /\ outcome' \in {"exit", "abort", "segv"}
           /\ outcome' \in {"exit", "abort", "segv"} => phase' \in {"boot", "saved"}
           /\ tracers' => phase' \in {"init", "fuzz", "recover", "stop"}
  BY DEF CampaignInv, Typed, StagesAgree, Driver, Boot, TracersChange, FuzzOn, FuzzOff,
         Failed, Recovered, Backup, SaveCount, End, In

\* A step of the driver, of the shell, of servers and of what earlier runs left
\* behind keeps the invariant.
LEMMA WorldInv == CampaignInv /\ World => CampaignInv'
<1> SUFFICES ASSUME CampaignInv, World PROVE CampaignInv'
  OBVIOUS
<1>1. CASE KilledByOther
  BY <1>1, KillInv
<1>0. LeftoverDies => leftover' \in BOOLEAN
  BY Zenon DEF LeftoverDies
<1> USE DEF CampaignInv, Typed, StagesAgree, Accounts, Pending, Once, Seen,
            runvars, fuzzvars, counts, rest, history
<1>2. CASE DriverStep /\ outcome' # outcome /\ ~wrapped
  BY <1>2, DriverEnds DEF DriverStep
<1>3. CASE DriverStep /\ ~(outcome' # outcome /\ ~wrapped)
  BY <1>3, DriverEnds DEF DriverStep
<1>4. CASE ShellEnds
  BY <1>4 DEF ShellEnds
<1>5. CASE Hit
  BY <1>5 DEF Hit
<1>6. CASE ForeignTrace
  BY <1>6 DEF ForeignTrace
<1>7. CASE LeftoverDies
  <2>1. Typed'
    BY <1>0, <1>7 DEF LeftoverDies
  <2>2. StagesAgree'
    BY <1>7 DEF LeftoverDies
  <2>3. Accounts'
    BY <1>7 DEF LeftoverDies
  <2> QED
    BY <2>1, <2>2, <2>3
<1>8. CASE StrayBackup
  BY <1>8 DEF StrayBackup
<1>9. CASE StraySave
  BY <1>9 DEF StraySave
<1> QED
  BY <1>1, <1>2, <1>3, <1>4, <1>5, <1>6, <1>7, <1>8, <1>9 DEF World

\* The invariant of the campaign holds for every number of test cases, whether
\* the driver is the child or behind a shell (ExecuteCase and its handlers).
THEOREM CampaignInvariant == Spec => []CampaignInv
<1>1. CampaignInv /\ [Next]_vars => CampaignInv'
  <2> SUFFICES ASSUME CampaignInv, [Next]_vars PROVE CampaignInv'
    OBVIOUS
  <2>1. CASE UNCHANGED vars
    BY <2>1 DEF CampaignInv, Typed, StagesAgree, Accounts, Pending, Once, Seen,
                vars, runvars, fuzzvars, counts, rest, history
  <2>2. CASE Over
    BY <2>1, <2>2 DEF Over
  <2> QED
    BY <2>1, <2>2, FuzzerInv, KillInv, WorldInv DEF Next
<1> QED
  BY InitInv, <1>1, PTL DEF Spec

\* Between two test cases every failure and every kill has been filed once, in
\* the right class, for any number of test cases (ExecuteCase lines 293-305,
\* crash_handler, hang_handler).
THEOREM FailuresFiled == Spec => []EveryFailureIsFiled
<1>1. CampaignInv => EveryFailureIsFiled
  BY DEF CampaignInv, Typed, Accounts, Pending, Once, Seen, EveryFailureIsFiled
<1> QED
  BY CampaignInvariant, <1>1, PTL

\* No test case is charged with a timeout of an earlier one's timer, and a late
\* alarm can miss its child only between waitpid and the next statement (lines
\* 94-101 and 205-282 of TestRunning.cpp).
THEOREM AlarmsAreOwn == Spec => []AlarmIsOwn
<1>1. CampaignInv => AlarmIsOwn
  BY DEF CampaignInv, StagesAgree, AlarmIsOwn
<1> QED
  BY CampaignInvariant, <1>1, PTL

\* Without a kill no run's tracers write the coverage of another, for any number
\* of test cases (lines 214-216 of TestRunning.cpp).
THEOREM OwnCoverage == Spec => []CoverageIsOwn
<1>1. CampaignInv => CoverageIsOwn
  BY DEF CampaignInv, StagesAgree, CoverageIsOwn
<1> QED
  BY CampaignInvariant, <1>1, PTL

-----------------------------------------------------------------------------
\* What UniqueAreDistinct needs to be inductive: the traces are sets of
\* locations, so they are finite.
UniqueInv ==
    /\ globalTraceBit \subseteq Loc /\ crashTrace \subseteq Loc /\ timeoutTrace \subseteq Loc
    /\ unique_crash_count \in Nat /\ unique_hang_count \in Nat
    /\ UniqueAreDistinct

\* A trace that grows by a new location can pay for one more unique report.
LEMMA TracePays ==
    ASSUME NEW S, NEW T, S \subseteq Loc, T \subseteq Loc,
           NEW n \in Nat, n <= Cardinality(S)
    PROVE  n + (IF T \ S # {} THEN 1 ELSE 0) <= Cardinality(S \cup T)
<1>1. IsFiniteSet(S \cup T)
  BY FS_Subset, CampaignAssumption, S \cup T \subseteq Loc
<1>2. /\ IsFiniteSet(S) /\ Cardinality(S) <= Cardinality(S \cup T)
      /\ Cardinality(S) = Cardinality(S \cup T) => S = S \cup T
  BY <1>1, FS_Subset, S \subseteq S \cup T
<1>3. Cardinality(S) \in Nat /\ Cardinality(S \cup T) \in Nat
  BY <1>1, <1>2, FS_CardinalityType
<1>4. T \ S # {} => S # S \cup T
  OBVIOUS
<1> QED
  BY <1>2, <1>3, <1>4

\* There are never more unique crashes or hangs than locations they have hit,
\* for any number of test cases and locations (crash_handler, hang_handler).
THEOREM UniqueDistinct == Spec => []UniqueAreDistinct
<1>1. Init => UniqueInv
  BY FS_EmptySet DEF Init, UniqueInv, UniqueAreDistinct
<1>2. UniqueInv /\ [Next]_vars => UniqueInv'
  <2> SUFFICES ASSUME UniqueInv, [Next]_vars PROVE UniqueInv'
    OBVIOUS
  <2> USE DEF UniqueInv, UniqueAreDistinct
  <2>1. CASE UNCHANGED <<globalTraceBit, crashTrace, timeoutTrace,
                         unique_crash_count, unique_hang_count>>
    BY <2>1
  <2>2. CASE crash_handler
    BY <2>2, TracePays DEF crash_handler
  <2>3. CASE hang_handler
    BY <2>3, TracePays DEF hang_handler
  <2>4. CASE ClearMaps
    BY <2>4 DEF ClearMaps, counts
  <2>5. CASE Hit
    BY <2>5 DEF Hit, counts
  <2> QED
    BY <2>1, <2>2, <2>3, <2>4, <2>5
       DEF Next, Fuzzer, World, Fork, Arm, Wait, Forget, Disarm, NoFault, HandleTimeout,
           KilledByOther, DriverStep, ShellEnds, ForeignTrace, LeftoverDies, StrayBackup,
           StraySave, Over, vars, counts
<1>3. UniqueInv => UniqueAreDistinct
  BY DEF UniqueInv
<1> QED
  BY <1>1, <1>2, <1>3, PTL DEF Spec

\* A number that is used for a backup, for the first time or again.
LEMMA AppendBackup ==
    ASSUME NEW s \in Seq(Nat), NEW n \in Nat, NEW m \in Nat, Range(s) \subseteq 0 .. m
    PROVE  /\ Append(s, n) \in Seq(Nat) /\ Len(Append(s, n)) = Len(s) + 1 /\ Len(s) \in Nat
           /\ Range(Append(s, n)) = Range(s) \cup {n}
           /\ IsFiniteSet(Range(s)) /\ Cardinality(Range(s)) \in Nat
           /\ n \notin Range(s) => Cardinality(Range(s) \cup {n}) = Cardinality(Range(s)) + 1
<1>1. Append(s, n) \in Seq(Nat) /\ Len(Append(s, n)) = Len(s) + 1 /\ Len(s) \in Nat
  OBVIOUS
<1>2. Range(Append(s, n)) = Range(s) \cup {n}
  <2>1. /\ DOMAIN s = 1 .. Len(s) /\ DOMAIN Append(s, n) = 1 .. Len(s) + 1
        /\ \A j \in 1 .. Len(s) : Append(s, n)[j] = s[j]
        /\ Append(s, n)[Len(s) + 1] = n
    OBVIOUS
  <2>2. 1 .. Len(s) + 1 = (1 .. Len(s)) \cup {Len(s) + 1}
    BY <1>1
  <2> QED
    BY <2>1, <2>2 DEF Range
<1>3. IsFiniteSet(0 .. m)
  BY FS_Interval
<1>4. IsFiniteSet(Range(s))
  BY <1>3, FS_Subset
<1> QED
  BY <1>1, <1>2, <1>4, FS_CardinalityType, FS_AddElement

\* A step of a driver that is the child keeps the numbers of the backups.
LEMMA DriverBackups ==
    ASSUME CampaignInv, BackupInv, DriverStep, ~wrapped
    PROVE  BackupInv'
<1>0. /\ number \in Nat /\ test_case_count \in Nat /\ backups \in Seq(Nat)
      /\ strays = {} /\ Range(backups) \subseteq 0 .. test_case_count
      /\ outcome = "running" /\ phase \notin {"boot", "saved"} => number = test_case_count
      /\ Len(backups) + Once(test_case_count \in Range(backups) /\ ~In("backed"))
           <= Cardinality(Range(backups)) + alarms + others
      /\ In("backed") => test_case_count \in Range(backups)
      /\ alarms \in Nat /\ others \in Nat
  BY DEF BackupInv, CampaignInv, Typed
<1>1. UNCHANGED <<wrapped, strays, alarms, others>>
  BY DEF DriverStep, rest
<1>2. CASE Backup
  <2>1. /\ outcome = "running" /\ phase = "stop" /\ phase' = "backed" /\ number = test_case_count
        /\ UNCHANGED <<outcome, number, test_case_count>>
        /\ backups' = Append(backups, test_case_count)
    BY <1>0, <1>2 DEF Backup, In, DriverStep
  <2>2. /\ Append(backups, test_case_count) \in Seq(Nat)
        /\ Len(Append(backups, test_case_count)) = Len(backups) + 1 /\ Len(backups) \in Nat
        /\ Range(Append(backups, test_case_count)) = Range(backups) \cup {test_case_count}
        /\ Cardinality(Range(backups)) \in Nat
        /\ test_case_count \notin Range(backups) =>
               Cardinality(Range(backups) \cup {test_case_count}) = Cardinality(Range(backups)) + 1
    BY <1>0, AppendBackup
  <2>3. Len(backups') <= Cardinality(Range(backups')) + alarms + others
    <3>1. CASE test_case_count \in Range(backups)
      <4>1. Range(backups) \cup {test_case_count} = Range(backups)
        BY <3>1
      <4> QED
        BY <1>0, <2>1, <2>2, <3>1, <4>1 DEF Once, In
    <3>2. CASE test_case_count \notin Range(backups)
      BY <1>0, <2>1, <2>2, <3>2 DEF Once
    <3> QED
      BY <3>1, <3>2
  <2>4. Range(backups') \subseteq 0 .. test_case_count /\ test_case_count \in Range(backups')
    BY <1>0, <2>1, <2>2
  <2>5. In("backed")' /\ Len(backups') \in Nat
    BY <2>1, <2>2 DEF In
  <2> QED
    BY <1>0, <1>1, <2>1, <2>2, <2>3, <2>4, <2>5 DEF BackupInv, Once
<1>3. CASE SaveCount
  <2>1. /\ In("backed") /\ phase' = "saved" /\ test_case_count' = test_case_count + 1
        /\ UNCHANGED <<number, outcome, backups>>
    BY <1>0, <1>3 DEF SaveCount, In, DriverStep
  <2>2. /\ test_case_count' \notin Range(backups')
        /\ Range(backups') \subseteq 0 .. test_case_count'
    BY <1>0, <2>1
  <2>3. ~In("backed")'
    BY <2>1 DEF In
  <2> QED
    BY <1>0, <1>1, <2>1, <2>2, <2>3 DEF BackupInv, Once
<1>4. CASE ~Backup /\ ~SaveCount
  <2>1. /\ test_case_count' = test_case_count /\ number' \in Nat
        /\ outcome' = "running" /\ phase' \notin {"boot", "saved"} => number' = test_case_count
    BY <1>0, <1>4 DEF DriverStep, Driver, Boot, TracersChange, FuzzOn, FuzzOff, Failed, Recovered,
       End, In
  <2>2. (In("backed")' <=> In("backed")) /\ backups' = backups
    BY <1>4 DEF DriverStep, Driver, Boot, TracersChange, FuzzOn, FuzzOff, Failed, Recovered,
       End, In
  <2>3. Once(test_case_count \in Range(backups) /\ ~In("backed"))'
          = Once(test_case_count \in Range(backups) /\ ~In("backed"))
    BY <2>1, <2>2 DEF Once
  <2> QED
    BY <1>0, <1>1, <2>1, <2>2, <2>3 DEF BackupInv
<1> QED
  BY <1>2, <1>3, <1>4

\* A kill may leave a number that was used in the file.
LEMMA KillBackups ==
    ASSUME CampaignInv, BackupInv, HandleTimeout \/ KilledByOther
    PROVE  BackupInv'
<1>1. UNCHANGED <<number, test_case_count, backups, wrapped, strays, phase>>
  BY DEF HandleTimeout, KilledByOther, KillChild, Killed, runvars, rest
<1>2. CASE wrapped
  BY <1>1, <1>2 DEF BackupInv
<1>3. CASE ~wrapped /\ UNCHANGED <<outcome, alarms, others>>
  BY <1>1, <1>3 DEF BackupInv, In, Once
<1>4. CASE ~wrapped /\ outcome' = "killed" /\ alarms' + others' = alarms + others + 1
  <2>1. /\ number \in Nat /\ test_case_count \in Nat /\ backups \in Seq(Nat)
        /\ strays = {} /\ Range(backups) \subseteq 0 .. test_case_count
        /\ Len(backups) + Once(test_case_count \in Range(backups) /\ ~In("backed"))
             <= Cardinality(Range(backups)) + alarms + others
        /\ alarms \in Nat /\ others \in Nat
    BY <1>4 DEF BackupInv, CampaignInv, Typed
  <2>2. alarms' \in Nat /\ others' \in Nat
    BY <2>1 DEF HandleTimeout, KilledByOther
  <2>3. Len(backups) \in Nat /\ Cardinality(Range(backups)) \in Nat
    BY <2>1, AppendBackup
  <2>4. Len(backups) + 1 <= Cardinality(Range(backups)) + alarms' + others'
    <3>1. Len(backups) <= Cardinality(Range(backups)) + alarms + others
      BY <2>1, <2>3 DEF Once
    <3>2. ASSUME NEW l \in Nat, NEW r \in Nat, NEW a \in Nat, NEW b \in Nat, NEW c \in Nat,
                 NEW d \in Nat, l <= r + a + b, c + d = a + b + 1
          PROVE  l + 1 <= r + c + d
      BY <3>2
    <3> QED
      BY <1>4, <2>1, <2>2, <2>3, <3>1, <3>2
  <2>5. Len(backups) + Once(test_case_count \in Range(backups) /\ ~In("backed"))'
          <= Cardinality(Range(backups)) + alarms' + others'
    BY <2>2, <2>3, <2>4 DEF Once
  <2>6. ~In("backed")' /\ outcome' # "running"
    BY <1>4 DEF In
  <2> QED
    BY <1>1, <2>1, <2>5, <2>6 DEF BackupInv
<1>5. CASE ~wrapped
  <2>1. alarms \in Nat /\ others \in Nat
    BY DEF CampaignInv, Typed
  <2>2. CASE HandleTimeout /\ child_pid /\ child = "running"
    BY <1>4, <1>5, <2>1, <2>2 DEF HandleTimeout, KillChild, Killed
  <2>3. CASE HandleTimeout /\ ~(child_pid /\ child = "running")
    BY <1>3, <1>5, <2>1, <2>3 DEF HandleTimeout, KillChild, runvars
  <2>4. CASE KilledByOther
    BY <1>4, <1>5, <2>1, <2>4 DEF KilledByOther, KillChild, Killed
  <2> QED
    BY <2>2, <2>3, <2>4
<1> QED
  BY <1>2, <1>5

\* One kill costs at most one backup, for any number of test cases, where the
\* driver is the child (dst_test_main.cpp lines 135-139 and 449-454).
THEOREM BackupsSurvive == Spec => []OneBackupPerKill
<1>1. Init => BackupInv
  BY FS_EmptySet DEF Init, BackupInv, Range, In, Once
<1>2. CampaignInv /\ BackupInv /\ [Next]_vars => BackupInv'
  <2> SUFFICES ASSUME CampaignInv, BackupInv, [Next]_vars PROVE BackupInv'
    OBVIOUS
  <2>1. CASE UNCHANGED <<number, test_case_count, backups, wrapped, strays, phase, outcome,
                         alarms, others>>
    BY <2>1 DEF BackupInv, In, Once
  <2>2. CASE Fork
    <3>1. ~wrapped => strays' = strays
      BY <2>2 DEF Fork, CampaignInv, StagesAgree
    <3>2. /\ UNCHANGED <<number, test_case_count, backups, wrapped, alarms, others>>
          /\ phase' = "boot"
      BY <2>2 DEF Fork, history
    <3>3. ~wrapped => ~In("backed")
      BY <2>2 DEF Fork, CampaignInv, StagesAgree, In
    <3>4. ~In("backed")'
      BY <3>2 DEF In
    <3> QED
      BY <3>1, <3>2, <3>3, <3>4 DEF BackupInv, Once
  <2>3. CASE DriverStep /\ wrapped
    BY <2>3 DEF BackupInv, DriverStep, rest
  <2>4. CASE DriverStep /\ ~wrapped
    BY <2>4, DriverBackups
  <2>5. CASE StrayBackup \/ StraySave
    <3>1. strays # {} /\ wrapped' = wrapped
      BY <2>5 DEF StrayBackup, StraySave
    <3> QED
      BY <3>1 DEF BackupInv
  <2>6. CASE HandleTimeout \/ KilledByOther
    BY <2>6, KillBackups
  <2> QED
    BY <2>1, <2>2, <2>3, <2>4, <2>5, <2>6
       DEF Next, Fuzzer, World, ClearMaps, Arm, Wait, Forget, Disarm, NoFault, crash_handler,
           hang_handler, ShellEnds, Hit, ForeignTrace, LeftoverDies, Over, vars, runvars,
           rest, history
<1>3. CampaignInv /\ BackupInv => OneBackupPerKill
  <2> SUFFICES ASSUME CampaignInv, BackupInv, ~wrapped
               PROVE  Len(backups) - Cardinality(Range(backups)) <= alarms + others
    BY DEF OneBackupPerKill
  <2>1. /\ Len(backups) \in Nat /\ Cardinality(Range(backups)) \in Nat
        /\ alarms \in Nat /\ others \in Nat
    BY AppendBackup DEF BackupInv, CampaignInv, Typed
  <2> QED
    BY <2>1 DEF BackupInv, Once
<1> QED
  BY <1>1, <1>2, <1>3, CampaignInvariant, PTL DEF Spec

\* ExecuteCase waits for a running child only while the timer is armed: an
\* alarm in waitpid always finds the child, and kills it (lines 94-101 and
\* 260-282 of TestRunning.cpp).
THEOREM WaitsAreTimed == Spec => []WaitIsTimed
<1> USE DEF WaitIsTimed
<1>1. Init => WaitIsTimed
  BY DEF Init
<1>2. CampaignInv /\ WaitIsTimed /\ [Next]_vars => WaitIsTimed'
  <2> SUFFICES ASSUME CampaignInv, WaitIsTimed, [Next]_vars, pc' = "wait",
                      child' = "running"
               PROVE  timer'
    OBVIOUS
  <2>1. CASE Fuzzer
    <3>1. Arm
      BY <2>1 DEF Fuzzer, ClearMaps, Fork, Wait, Forget, Disarm, NoFault,
         crash_handler, hang_handler
    <3> QED
      BY <3>1 DEF Arm
  <2>2. CASE HandleTimeout
    <3>1. pc = "wait" /\ child_pid
      BY <2>2 DEF HandleTimeout, CampaignInv, StagesAgree
    <3>2. child' # "running"
      BY <2>2, <3>1 DEF HandleTimeout, KillChild
    <3> QED
      BY <3>2
  <2>3. CASE World
    <3>1. pc' = pc /\ timer' = timer /\ (child' = "zombie" \/ child' = child)
      BY <2>3 DEF World, KilledByOther, KillChild, DriverStep, ShellEnds, Hit,
         ForeignTrace, LeftoverDies, StrayBackup, StraySave, fuzzvars
    <3> QED
      BY <3>1
  <2>4. CASE Over \/ UNCHANGED vars
    BY <2>4 DEF Over, vars, fuzzvars
  <2> QED
    BY <2>1, <2>2, <2>3, <2>4 DEF Next
<1> QED
  BY <1>1, <1>2, CampaignInvariant, PTL DEF Spec

=============================================================================
