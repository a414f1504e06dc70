---------------------------- MODULE EbpfInjector ----------------------------
(***************************************************************************)
(* Which descriptors the eBPF injector faults (bpf/dst_fuzz_fault.bpf.c).  *)
(* A probe at the entry of an open sets should_record if the name passes   *)
(* the filter, the probe at its return consumes the flag and records the   *)
(* descriptor; sockets are always recorded.  The threads of the traced     *)
(* server share one flag, nothing is hooked when a descriptor is closed,   *)
(* and descriptors are recorded modulo FD_SIZE.                            *)
(***************************************************************************)
EXTENDS Integers

CONSTANTS
    Task,     \* threads of the traced server
    FD_SIZE,  \* entries of record_fds
    MaxFd,    \* bound: the largest descriptor
    MaxOpens  \* bound: opens and sockets of the server

ASSUME EbpfAssumption == FD_SIZE \in Nat \ {0, 1} /\ MaxFd \in Nat /\ MaxOpens \in Nat

Fd == 0 .. MaxFd
Slot == 0 .. FD_SIZE - 1
OpenKind == {"kept", "dropped", "socket"}   \* the name passes the filter, or not

VARIABLES
    should_record,
    record_fds,    \* the entries that are 1
    open,          \* what each descriptor is, or "closed"
    call,          \* what each thread is opening, or "none"
    opens,
    wanted,        \* history: entries of files that passed, and of sockets
    raced,         \* history: two opens have overlapped
    failed         \* history: socket() has failed

ebpfvars == <<should_record, record_fds, open, call, opens, wanted, raced, failed>>

EbpfInit ==
    /\ should_record = FALSE /\ record_fds = {}
    /\ open = [f \in Fd |-> IF f < 1 THEN "dropped" ELSE "closed"]
    /\ call = [t \in Task |-> "none"] /\ opens = 0
    /\ wanted = {} /\ raced = FALSE /\ failed = FALSE

\* filter_by_filename, at the entry of open, openat and openat2.  A name that
\* does not pass leaves the flag as it is.  socket() has no entry probe.
Enter(t) ==
    /\ call[t] = "none" /\ opens < MaxOpens
    /\ \E k \in OpenKind :
           /\ call' = [call EXCEPT ![t] = k]
           /\ should_record' = (should_record \/ k = "kept")
           /\ raced' = (raced \/ (k # "socket" /\ \E u \in Task : call[u] \in {"kept", "dropped"}))
    /\ opens' = opens + 1
    /\ UNCHANGED <<record_fds, open, wanted, failed>>

\* A faulty probe that does not consume the flag.
record_fd_keeps(f) ==
    /\ should_record' = should_record
    /\ record_fds' = IF should_record /\ f > 0 THEN record_fds \cup {f % FD_SIZE} ELSE record_fds

\* A faulty probe that leaves out the last entry.
record_fd_short(f) ==
    /\ should_record' = FALSE
    /\ record_fds' = IF should_record /\ f > 0 /\ f % FD_SIZE < FD_SIZE - 1
                       THEN record_fds \cup {f % FD_SIZE} ELSE record_fds

\* record_fd: f is the descriptor, -1 if the open failed.
record_fd(f) ==
    /\ should_record' = FALSE
    /\ record_fds' = IF should_record /\ f > 0 THEN record_fds \cup {f % FD_SIZE} ELSE record_fds

OpenReturns(t) ==
    /\ call[t] \in {"kept", "dropped"}
    /\ \/ \E f \in Fd :
              /\ open[f] = "closed" /\ open' = [open EXCEPT ![f] = call[t]]
              /\ record_fd(f)
              /\ wanted' = IF call[t] = "kept" THEN wanted \cup {f % FD_SIZE} ELSE wanted
       \/ record_fd(-1) /\ UNCHANGED <<open, wanted>>
    /\ call' = [call EXCEPT ![t] = "none"]
    /\ UNCHANGED <<opens, raced, failed>>

\* The return of socket(): the entry is computed from an error code, too.
SocketReturns(t) ==
    /\ call[t] = "socket"
    /\ \/ \E f \in Fd :
              /\ open[f] = "closed" /\ open' = [open EXCEPT ![f] = "socket"]
              /\ record_fds' = record_fds \cup {f % FD_SIZE}
              /\ wanted' = wanted \cup {f % FD_SIZE}
              /\ UNCHANGED failed
       \/ /\ \E b \in Slot : record_fds' = record_fds \cup {b}
          /\ failed' = TRUE /\ UNCHANGED <<open, wanted>>
    /\ call' = [call EXCEPT ![t] = "none"]
    /\ UNCHANGED <<should_record, opens, raced>>

\* close() is not hooked.
Close ==
    /\ \E f \in Fd : open[f] # "closed" /\ open' = [open EXCEPT ![f] = "closed"]
    /\ UNCHANGED <<should_record, record_fds, call, opens, wanted, raced, failed>>

\* The server may do no more calls.
Idle == UNCHANGED ebpfvars

EbpfNext == \/ \E t \in Task : Enter(t) \/ OpenReturns(t) \/ SocketReturns(t)
            \/ Close \/ Idle

EbpfSpec == EbpfInit /\ [][EbpfNext]_ebpfvars

\* handle_events may fault a call on descriptor f.
Faulted(f) == f < FD_SIZE /\ f \in record_fds

-----------------------------------------------------------------------------

\* A descriptor is faulted only if its entry once belonged to a file that
\* passed the filter or to a socket, unless two opens overlapped or socket()
\* failed (lines 81-142, 144-165, 303-319 and 332).
FaultedWasWanted ==
    \A f \in Fd : Faulted(f) => f \in wanted \/ raced \/ failed

\* A file that passed the filter is faulted as long as it is open, unless two
\* opens overlapped; descriptors from FD_SIZE on never are (lines 144-165).
KeptIsFaulted ==
    \A f \in 1 .. FD_SIZE - 1 : f \in Fd /\ open[f] = "kept" /\ ~raced => Faulted(f)

\* The inductive invariant behind the two: as long as no two opens overlap, the
\* flag belongs to the one open whose name passed (lines 81-165).
EbpfTypeOK ==
    /\ should_record \in BOOLEAN /\ raced \in BOOLEAN /\ failed \in BOOLEAN
    /\ record_fds \subseteq Slot /\ wanted \subseteq Slot
    /\ open \in [Fd -> OpenKind \cup {"closed"}]
    /\ call \in [Task -> OpenKind \cup {"none"}]

FlagInv ==
    ~raced =>
        /\ \A t, u \in Task :
               call[t] \in {"kept", "dropped"} /\ call[u] \in {"kept", "dropped"} => t = u
        /\ should_record <=> \E t \in Task : call[t] = "kept"

EbpfInv ==
    /\ EbpfTypeOK /\ FlagInv /\ KeptIsFaulted
    /\ ~raced /\ ~failed => record_fds \subseteq wanted

=============================================================================
