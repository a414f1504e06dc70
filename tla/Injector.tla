------------------------------ MODULE Injector ------------------------------
(***************************************************************************)
(* The fault injector of the modified strace (strace/src/dst_fuzz.c): one  *)
(* tracer, the threads of the server it traces, and the bytes of the       *)
(* node's random file that decide which call is faulted and how.           *)
(*                                                                         *)
(* strace handles one stop of one thread at a time, so the hooks at the    *)
(* entry and at the exit of a call are atomic, and hooks of different      *)
(* threads interleave.  A duplicated call is recorded in ONE global slot,  *)
(* stored_regs: at the exit of that call the thread is sent back to repeat *)
(* it, and the next hooked entry, which ought to be that repetition, skips *)
(* its random event.                                                       *)
(***************************************************************************)
EXTENDS Integers

CONSTANTS
    Thread,        \* threads of the traced server
    NoThread,      \* stored_regs == NULL
    MaxCalls,      \* bound on the calls of one thread
    FileBytes      \* length of the random file of the node

ASSUME InjectorAssumption ==
    /\ NoThread \notin Thread
    /\ MaxCalls \in Nat
    /\ FileBytes \in Nat

\* What the descriptor and the call are: "ignored" stands for the standard
\* streams, pipes and the filtered paths.
Kind == {"send", "recv", "file", "eventfd", "ignored"}
IsFile == {"file", "eventfd"}

\* What the entry hook decided.  A failed, lost or partitioned call is not
\* executed by the kernel; "lost" reports success all the same.
Event == {"pass", "delay", "fail", "lost", "dup", "netpart"}
Suppressed == {"fail", "lost", "netpart"}

VARIABLES
    is_fuzzing,    \* the shared flag, as get_is_fuzzing() reads it
    stored_regs,   \* the thread whose call is to be repeated, or NoThread
    net_partition,
    bytes,         \* bytes left in the random file
    st,            \* "user", "kernel" or "again" (sent back to repeat its call)
    kind,          \* the current or last call of the thread
    event,         \* the last decision for it
    calls,         \* calls of the thread so far
    exec,          \* history: executions of that call
    dups,          \* history: decisions to duplicate it
    faults,        \* history: faults injected so far
    stolen         \* history: did another entry take its slot?

\* Executions of one call are counted up to here.
MaxExec == FileBytes + 2

slot == <<stored_regs, net_partition, bytes>>
history == <<exec, dups, faults, stolen>>
vars == <<is_fuzzing, slot, st, kind, event, calls, history>>

Init ==
    /\ is_fuzzing \in BOOLEAN
    /\ stored_regs = NoThread
    /\ net_partition = FALSE
    /\ bytes = FileBytes
    /\ st = [t \in Thread |-> "user"]
    /\ kind = [t \in Thread |-> "ignored"]
    /\ event = [t \in Thread |-> "pass"]
    /\ calls = [t \in Thread |-> 0]
    /\ exec = [t \in Thread |-> 0]
    /\ dups = [t \in Thread |-> 0]
    /\ faults = 0
    /\ stolen = [t \in Thread |-> FALSE]

-----------------------------------------------------------------------------
(***************************************************************************)
(* The random event.  Past the end of the file every byte reads as 0:      *)
(* a call is then not faulted (0 < 50), a partition is healed (0 % 2 = 0)  *)
(* and the first event, DELAY, is taken.                                   *)
(***************************************************************************)

AfterWrapped(n) == IF bytes > n THEN bytes - n ELSE FileBytes

After(n) == IF bytes > n THEN bytes - n ELSE 0

\* events[] has four entries, but five are drawn from for a send on a socket:
\* the fifth is read past the end of the array and may hold anything.
Drawn(k) == IF k = "send" THEN Event ELSE {"delay", "fail"}

\* How many further bytes the event draws: the length of a delay, or the error
\* code, which is fixed for an eventfd.
Cost(k, e) == CASE e = "delay" -> 2
                [] e = "fail" /\ k # "eventfd" -> 1
                [] OTHER -> 0

\* Inject event e after n bytes were drawn: DUP records the call in the slot.
Inject(t, e, n) ==
    /\ event' = [event EXCEPT ![t] = e]
    /\ bytes' = After(n)
    /\ stored_regs' = IF e = "dup" THEN t ELSE stored_regs
    /\ dups' = [dups EXCEPT ![t] = IF e = "dup" THEN @ + 1 ELSE @]
    /\ faults' = faults + 1

\* The first byte is below 50: no fault.  (NO_FAULT, which injects nothing and
\* draws nothing, is not set.)
DrawNothing(t) ==
    /\ event' = [event EXCEPT ![t] = "pass"]
    /\ bytes' = After(1)
    /\ UNCHANGED <<stored_regs, net_partition, dups, faults>>

\* Under a partition one more byte decides whether it is healed or the call
\* fails as well.
DrawPartitioned(t) ==
    /\ bytes > 1 /\ net_partition /\ kind'[t] \notin IsFile
    /\ Inject(t, "netpart", 2)
    /\ UNCHANGED net_partition

DrawEvent(t) ==
    LET tested == net_partition /\ kind'[t] \notin IsFile
        drawn  == IF tested THEN 2 ELSE 1
    IN  /\ bytes > 0
        /\ \E e \in Drawn(kind'[t]) :
               /\ bytes > drawn \/ e = "delay"
               /\ Inject(t, e, drawn + 1 + Cost(kind'[t], e))
               /\ net_partition' = (e = "netpart" \/ (net_partition /\ ~tested))

\* The slot is taken: free it and let this call through, whoever made it.
TakeSlot(t) ==
    /\ stored_regs # NoThread
    /\ stored_regs' = NoThread
    /\ stolen' = IF stored_regs = t THEN stolen
                   ELSE [stolen EXCEPT ![stored_regs] = TRUE]
    /\ event' = [event EXCEPT ![t] = "pass"]
    /\ UNCHANGED <<net_partition, bytes, dups, faults>>

\* Fuzzing is switched off, or the descriptor is none that is faulted.
Unfaulted(t) ==
    /\ stored_regs = NoThread
    /\ ~is_fuzzing \/ kind'[t] = "ignored"
    /\ event' = [event EXCEPT ![t] = "pass"]
    /\ UNCHANGED <<slot, dups, faults, stolen>>

RandomEvent(t) ==
    /\ stored_regs = NoThread
    /\ is_fuzzing /\ kind'[t] # "ignored"
    /\ DrawNothing(t) \/ DrawPartitioned(t) \/ DrawEvent(t)
    /\ UNCHANGED stolen

-----------------------------------------------------------------------------

\* A faulty hook that tests the flag before it frees the slot.
FlagFirst(t) ==
    \/ ~is_fuzzing /\ event' = [event EXCEPT ![t] = "pass"]
         /\ UNCHANGED <<slot, dups, faults, stolen>>
    \/ is_fuzzing /\ (TakeSlot(t) \/ Unfaulted(t) \/ RandomEvent(t))

handle_random_event(t) == TakeSlot(t) \/ Unfaulted(t) \/ RandomEvent(t)

-----------------------------------------------------------------------------

\* dst_fuzz_syscall_enter for a new call of thread t.  The history variables
\* start again, except that a fresh DUP is counted for the new call.
SyscallEnter(t) ==
    /\ st[t] = "user" /\ calls[t] < MaxCalls
    /\ \E k \in Kind : kind' = [kind EXCEPT ![t] = k]
    /\ handle_random_event(t)
    /\ st' = [st EXCEPT ![t] = "kernel"]
    /\ calls' = [calls EXCEPT ![t] = @ + 1]
    /\ UNCHANGED <<is_fuzzing, exec>>

\* The thread was sent back and enters its call again.
SyscallAgain(t) ==
    /\ st[t] = "again"
    /\ kind' = kind
    /\ handle_random_event(t)
    /\ st' = [st EXCEPT ![t] = "kernel"]
    /\ UNCHANGED <<is_fuzzing, calls, exec>>

\* A faulty hook that sends back any thread while the slot is taken.
SyscallExitAny(t) ==
    /\ st[t] = "kernel"
    /\ exec' = [exec EXCEPT ![t] = IF event[t] \in Suppressed \/ @ = MaxExec
                                      THEN @ ELSE @ + 1]
    /\ st' = [st EXCEPT ![t] = IF stored_regs # NoThread THEN "again" ELSE "returned"]
    /\ UNCHANGED <<is_fuzzing, slot, kind, event, calls, dups, faults, stolen>>

\* A faulty hook that marks the duplicated call instead of asking the slot.
SyscallExitMarked(t) ==
    /\ st[t] = "kernel"
    /\ exec' = [exec EXCEPT ![t] = IF event[t] \in Suppressed \/ @ = MaxExec
                                      THEN @ ELSE @ + 1]
    /\ st' = [st EXCEPT ![t] = IF dups[t] > 0 THEN "again" ELSE "returned"]
    /\ UNCHANGED <<is_fuzzing, slot, kind, event, calls, dups, faults, stolen>>

\* dst_fuzz_syscall_exiting_finish: the thread whose registers are in the slot
\* is sent back.
SyscallExit(t) ==
    /\ st[t] = "kernel"
    /\ exec' = [exec EXCEPT ![t] = IF event[t] \in Suppressed \/ @ = MaxExec
                                      THEN @ ELSE @ + 1]
    /\ st' = [st EXCEPT ![t] = IF stored_regs = t THEN "again" ELSE "returned"]
    /\ UNCHANGED <<is_fuzzing, slot, kind, event, calls, dups, faults, stolen>>

\* The server goes on; the history of the call is closed.
Resume(t) ==
    /\ st[t] = "returned"
    /\ st' = [st EXCEPT ![t] = "user"]
    /\ exec' = [exec EXCEPT ![t] = 0]
    /\ dups' = [dups EXCEPT ![t] = 0]
    /\ stolen' = [stolen EXCEPT ![t] = FALSE]
    /\ UNCHANGED <<is_fuzzing, slot, kind, event, calls, faults>>

\* set_is_fuzzing() of the driver, in another process, at any moment.
set_is_fuzzing ==
    /\ is_fuzzing' = ~is_fuzzing
    /\ UNCHANGED <<slot, st, kind, event, calls, history>>

Done ==
    /\ \A t \in Thread : st[t] = "user" /\ calls[t] = MaxCalls
    /\ UNCHANGED vars

Next ==
    \/ \E t \in Thread : \/ SyscallEnter(t) \/ SyscallAgain(t)
                         \/ SyscallExit(t) \/ Resume(t)
    \/ set_is_fuzzing \/ Done

Spec == Init /\ [][Next]_vars

\* The kernel runs every thread, and strace handles every stop; injected delays
\* are below a second.
Fairness == \A t \in Thread : WF_vars(SyscallAgain(t)) /\ WF_vars(SyscallExit(t))
FairSpec == Spec /\ Fairness

-----------------------------------------------------------------------------
(***************************************************************************)
(* Properties                                                              *)
(***************************************************************************)

\* Every variable has its type.
TypeOK ==
    /\ is_fuzzing \in BOOLEAN
    /\ stored_regs \in Thread \cup {NoThread}
    /\ net_partition \in BOOLEAN
    /\ bytes \in 0 .. FileBytes
    /\ st \in [Thread -> {"user", "kernel", "again", "returned"}]
    /\ kind \in [Thread -> Kind]
    /\ event \in [Thread -> Event]
    /\ calls \in [Thread -> 0 .. MaxCalls]
    /\ exec \in [Thread -> 0 .. MaxExec]
    /\ dups \in [Thread -> Nat]
    /\ faults \in Nat
    /\ stolen \in [Thread -> BOOLEAN]

\* The slot never outlives the call it was filled for: its thread is in that
\* call, a duplicated send on a socket, or on its way back into it (stored_regs,
\* lines 169-173, 376 and 492-506).
SlotBelongsToItsCall ==
    stored_regs # NoThread =>
        /\ st[stored_regs] \in {"kernel", "again"}
        /\ event[stored_regs] = "dup" /\ kind[stored_regs] = "send"

\* A call that was duplicated once, and whose slot no other thread took, is
\* executed exactly twice and returns what its repetition returned.  A call
\* that was not duplicated is executed at most once.
DuplicatedExactlyOnce ==
    \A t \in Thread : st[t] = "returned" =>
        /\ dups[t] = 1 /\ ~stolen[t] => exec[t] = 2 /\ event[t] = "pass"
        /\ dups[t] = 0 => exec[t] = IF event[t] \in Suppressed THEN 0 ELSE 1
        /\ exec[t] <= dups[t] + 1

\* Each fault costs a byte of the random file: a node injects at most as many
\* faults as its file has bytes, and none once the file is used up.
FaultsBounded == faults + bytes <= FileBytes

\* What the hooks keep between the entry and the return of a call: how often it
\* was executed and whether it will be repeated, from the decisions taken for it
\* and from who took the slot.
CallInv(t) ==
    /\ dups[t] <= faults
    /\ st[t] = "user" => exec[t] = 0 /\ dups[t] = 0 /\ ~stolen[t]
    /\ st[t] \in {"kernel", "again"} /\ event[t] = "dup" =>
           dups[t] >= 1 /\ (stored_regs = t \/ stolen[t])
    /\ st[t] = "again" => event[t] = "dup" /\ exec[t] <= dups[t]
    /\ st[t] = "kernel" => exec[t] <= (IF event[t] = "dup" THEN dups[t] - 1 ELSE dups[t])
    /\ st[t] = "returned" => exec[t] <= dups[t] + 1
    /\ dups[t] = 1 /\ ~stolen[t] =>
           \/ st[t] = "kernel" /\ event[t] = "dup" /\ exec[t] = 0
           \/ st[t] = "again" /\ exec[t] = 1
           \/ st[t] = "kernel" /\ event[t] = "pass" /\ exec[t] = 1
           \/ st[t] = "returned" /\ event[t] = "pass" /\ exec[t] = 2
    /\ dups[t] = 0 /\ st[t] = "returned" =>
           exec[t] = IF event[t] \in Suppressed THEN 0 ELSE 1

\* The inductive invariant of the injector.
InjectorInv ==
    /\ TypeOK
    /\ SlotBelongsToItsCall
    /\ FaultsBounded
    /\ \A t \in Thread : CallInv(t)

\* A call that is repeated skips its random event, as the comment at lines
\* 165-168 has it: "we should set it back and skip the random event to let it
\* be called".  The entry of another thread may take the slot first, and the
\* repetition is then faulted, or duplicated, like any other call.
RepetitionSkipsEvent ==
    \A t \in Thread : st[t] = "kernel" /\ exec[t] > 0 => event[t] = "pass"

\* Each time a thread is sent back its call has been executed once more, and the
\* random file pays for it: a call is repeated at most as often as the file has
\* bytes, whoever takes the slot and whenever the flag is switched, so that
\* executions are never counted up to MaxExec (lines 169-173 and 492-506).
RepetitionsArePaid ==
    [][\A t \in Thread : st[t] = "kernel" /\ st'[t] = "again" =>
           exec'[t] = exec[t] + 1 /\ exec'[t] <= dups'[t] /\ dups'[t] <= FileBytes]_vars

\* Every hooked call returns to the server, however the hooks of the threads
\* interleave and whenever the driver switches the flag: no call is repeated
\* for ever (lines 169-173 free the slot before the flag is looked at).
CallsReturn == \A t \in Thread : st[t] = "kernel" ~> st[t] = "returned"

=============================================================================
