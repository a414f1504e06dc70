--------------------------- MODULE InjectorProofs ---------------------------
(***************************************************************************)
(* Proofs about the two fault injectors.  The modified strace: for any     *)
(* number of threads, calls and random bytes, the slot of a duplicated     *)
(* call belongs to a call in progress, an undisturbed duplicate is         *)
(* executed exactly twice, and the random file bounds the faults.  The     *)
(* eBPF programs: for any number of threads and descriptors, the shared    *)
(* flag marks the right descriptors unless two opens overlap.              *)
(***************************************************************************)
EXTENDS Injector, EbpfInjector, TLAPS

\* Zenon is tried first, then SMT, then Zenon for longer.
USE ZenonT(5), SMTT(15), ZenonT(20)

\* The threads are idle and the slot is empty at the start.
LEMMA InitEstablishesInv == Init => InjectorInv
<1> SUFFICES ASSUME Init PROVE InjectorInv
  OBVIOUS
<1> USE InjectorAssumption DEF Init
<1>0. stolen \in [Thread -> BOOLEAN] /\ \A t \in Thread : ~stolen[t]
  BY Zenon
<1>1. TypeOK
  <2>1. is_fuzzing \in BOOLEAN /\ net_partition \in BOOLEAN
    BY Zenon
  <2>2. bytes \in 0 .. FileBytes /\ faults \in Nat
    OBVIOUS
  <2>3. /\ exec \in [Thread -> 0 .. MaxExec]
        /\ dups \in [Thread -> Nat]
        /\ calls \in [Thread -> 0 .. MaxCalls]
    BY DEF MaxExec
  <2>4. /\ kind \in [Thread -> Kind]
        /\ event \in [Thread -> Event]
        /\ st \in [Thread -> {"user", "kernel", "again", "returned"}]
    BY DEF Kind, Event
  <2> QED
    BY <1>0, <2>1, <2>2, <2>3, <2>4 DEF TypeOK
<1>2. SlotBelongsToItsCall /\ FaultsBounded
  BY DEF SlotBelongsToItsCall, FaultsBounded
<1>3. ASSUME NEW t \in Thread PROVE CallInv(t)
  <2>1. st[t] = "user" /\ exec[t] = 0 /\ dups[t] = 0 /\ event[t] = "pass"
    OBVIOUS
  <2> QED
    BY <1>0, <2>1 DEF CallInv
<1> QED
  BY <1>1, <1>2, <1>3 DEF InjectorInv

\* Drawing bytes never lengthens the file, and a draw of at least one byte from
\* a non-empty file shortens it.
LEMMA AfterDraws ==
    ASSUME NEW n \in Nat, bytes \in 0 .. FileBytes
    PROVE  /\ After(n) \in 0 .. FileBytes
           /\ After(n) <= bytes
           /\ n > 0 /\ bytes > 0 => After(n) + 1 <= bytes
BY InjectorAssumption DEF After

\* A draw that adds d faults and takes at least d bytes keeps their sum bounded.
LEMMA DrawKeepsBound ==
    ASSUME NEW f \in Nat, NEW b \in Nat, NEW c \in Nat, NEW d \in Nat,
           f + b <= FileBytes, c + d <= b
    PROVE  (f + d) + c <= FileBytes
BY InjectorAssumption

\* A draw without a fault keeps it bounded as well.
LEMMA ReadKeepsBound ==
    ASSUME NEW f \in Nat, NEW b \in Nat, NEW c \in Nat, f + b <= FileBytes, c <= b
    PROVE  f + c <= FileBytes
BY InjectorAssumption

\* What the entry hook does for thread t: it frees the slot, lets the call
\* through, or injects an event that costs at least a byte.
LEMMA HookCases ==
    ASSUME InjectorInv, NEW t \in Thread, kind' \in [Thread -> Kind],
           handle_random_event(t)
    PROVE  \/ TakeSlot(t)
           \/ /\ stored_regs = NoThread
              /\ event' = [event EXCEPT ![t] = "pass"]
              /\ bytes' \in 0 .. FileBytes /\ bytes' <= bytes
              /\ net_partition' \in BOOLEAN
              /\ UNCHANGED <<stored_regs, dups, faults, stolen>>
           \/ /\ stored_regs = NoThread
              /\ bytes' \in 0 .. FileBytes /\ bytes' + 1 <= bytes
              /\ net_partition' \in BOOLEAN
              /\ faults' = faults + 1
              /\ stolen' = stolen
              /\ \E e \in Event :
                    /\ e = "dup" => kind'[t] = "send"
                    /\ event' = [event EXCEPT ![t] = e]
                    /\ stored_regs' = IF e = "dup" THEN t ELSE stored_regs
                    /\ dups' = [dups EXCEPT ![t] = IF e = "dup" THEN @ + 1 ELSE @]
<1> USE DEF InjectorInv, TypeOK
<1>1. CASE TakeSlot(t)
  BY <1>1
<1>2. CASE Unfaulted(t)
  BY <1>2, InjectorAssumption DEF Unfaulted, slot
<1>3. CASE RandomEvent(t) /\ DrawNothing(t)
  BY <1>3, AfterDraws DEF RandomEvent, DrawNothing
<1>4. CASE RandomEvent(t) /\ DrawPartitioned(t)
  <2>1. After(2) \in 0 .. FileBytes /\ After(2) + 1 <= bytes
    BY <1>4, AfterDraws, InjectorAssumption DEF DrawPartitioned
  <2> QED
    BY <1>4, <2>1 DEF RandomEvent, DrawPartitioned, Inject, Event
<1>5. CASE RandomEvent(t) /\ DrawEvent(t)
  <2> DEFINE tested == net_partition /\ kind'[t] \notin IsFile
             drawn  == IF tested THEN 2 ELSE 1
  <2>1. PICK e \in Drawn(kind'[t]) :
            /\ Inject(t, e, drawn + 1 + Cost(kind'[t], e))
            /\ net_partition' = (e = "netpart" \/ (net_partition /\ ~tested))
    BY <1>5 DEF DrawEvent
  <2>2. drawn + 1 + Cost(kind'[t], e) \in Nat /\ drawn + 1 + Cost(kind'[t], e) > 0
    BY DEF Cost
  <2> HIDE DEF drawn
  <2>3. bytes > 0
    BY <1>5 DEF DrawEvent
  <2>4. bytes' \in 0 .. FileBytes /\ bytes' + 1 <= bytes
    BY <2>1, <2>2, <2>3, AfterDraws, InjectorAssumption DEF Inject
  <2>5. e \in Event /\ (e = "dup" => kind'[t] = "send")
    BY DEF Drawn, Event
  <2>6. net_partition' \in BOOLEAN
    BY <2>1, Zenon
  <2> QED
    BY <1>5, <2>1, <2>4, <2>5, <2>6 DEF RandomEvent, Inject
<1> QED
  BY <1>1, <1>2, <1>3, <1>4, <1>5 DEF handle_random_event, RandomEvent

\* The entry of thread t into a new or a repeated call.
LEMMA EntryKeepsInv ==
    ASSUME InjectorInv, NEW t \in Thread,
           st[t] \in {"user", "again"},
           kind' \in [Thread -> Kind],
           \A u \in Thread \ {t} : kind'[u] = kind[u],
           calls' \in [Thread -> 0 .. MaxCalls],
           handle_random_event(t),
           st' = [st EXCEPT ![t] = "kernel"],
           UNCHANGED <<is_fuzzing, exec>>
    PROVE  InjectorInv'
<1> USE InjectorAssumption DEF InjectorInv
<1>1. CASE TakeSlot(t)
  <2> PICK s \in Thread : s = stored_regs
    BY <1>1 DEF TakeSlot, TypeOK
  <2>1. stolen' \in [Thread -> BOOLEAN]
    BY <1>1, Zenon DEF TakeSlot, TypeOK
  <2>2. TypeOK'
    BY <1>1, <2>1 DEF TakeSlot, TypeOK, Event
  <2>3. SlotBelongsToItsCall' /\ FaultsBounded'
    BY <1>1 DEF TakeSlot, SlotBelongsToItsCall, FaultsBounded
  <2>4. ASSUME NEW u \in Thread PROVE CallInv(u)'
    <3>1. CASE u = t
      <4>1. \/ exec[t] = 0 /\ dups[t] = 0 /\ ~stolen[t]
            \/ exec[t] <= dups[t] /\ st[t] = "again" /\ dups[t] >= 1
        <5>1. CASE st[t] = "user"
          BY <5>1 DEF CallInv
        <5>2. CASE st[t] = "again"
          BY <5>2 DEF CallInv
        <5> QED
          BY <5>1, <5>2
      <4>2. stolen'[t] = stolen[t]
        BY <1>1 DEF TakeSlot, TypeOK
      <4>3. dups[t] = 1 /\ ~stolen[t] => exec[t] = 1
        BY <4>1 DEF CallInv
      <4> QED
        BY <1>1, <3>1, <4>1, <4>2, <4>3 DEF TakeSlot, CallInv, TypeOK
    <3>2. CASE u # t /\ u = s
      <4>1. stolen'[u] /\ st[u] \in {"kernel", "again"}
        BY <1>1, <3>2 DEF TakeSlot, TypeOK, SlotBelongsToItsCall
      <4> QED
        BY <1>1, <3>2, <4>1 DEF TakeSlot, CallInv, TypeOK
    <3>3. CASE u # t /\ u # s
      <4>1. stolen'[u] = stolen[u]
        BY <1>1, <3>3 DEF TakeSlot, TypeOK
      <4> QED
        BY <1>1, <3>3, <4>1 DEF TakeSlot, CallInv, TypeOK
    <3> QED
      BY <3>1, <3>2, <3>3
  <2> QED
    BY <2>2, <2>3, <2>4
<1>2. CASE /\ stored_regs = NoThread
           /\ event' = [event EXCEPT ![t] = "pass"]
           /\ bytes' \in 0 .. FileBytes /\ bytes' <= bytes
           /\ net_partition' \in BOOLEAN
           /\ UNCHANGED <<stored_regs, dups, faults, stolen>>
  <2>1. TypeOK'
    BY <1>2 DEF TypeOK, Event
  <2>2. SlotBelongsToItsCall' /\ FaultsBounded'
    <3>1. SlotBelongsToItsCall'
      BY <1>2 DEF TypeOK, SlotBelongsToItsCall
    <3>2. FaultsBounded'
      <4>1. /\ faults \in Nat /\ bytes \in Nat /\ FileBytes \in Nat
            /\ faults + bytes <= FileBytes
        BY DEF TypeOK, FaultsBounded
      <4>2. bytes' \in Nat /\ bytes' <= bytes
        BY <1>2
      <4>3. faults + bytes' <= FileBytes
        BY ONLY <4>1, <4>2, ReadKeepsBound
      <4>4. faults' = faults
        BY <1>2
      <4> QED
        BY <4>3, <4>4 DEF FaultsBounded
    <3> QED
      BY <3>1, <3>2
  <2>3. ASSUME NEW u \in Thread PROVE CallInv(u)'
    <3>1. CASE u = t
      BY <1>2, <3>1 DEF CallInv, TypeOK
    <3>2. CASE u # t
      BY <1>2, <3>2 DEF CallInv, TypeOK
    <3> QED
      BY <3>1, <3>2
  <2> QED
    BY <2>1, <2>2, <2>3
<1>3. CASE /\ stored_regs = NoThread
           /\ bytes' \in 0 .. FileBytes /\ bytes' + 1 <= bytes
           /\ net_partition' \in BOOLEAN
           /\ faults' = faults + 1
           /\ stolen' = stolen
           /\ \E e \in Event :
                 /\ e = "dup" => kind'[t] = "send"
                 /\ event' = [event EXCEPT ![t] = e]
                 /\ stored_regs' = IF e = "dup" THEN t ELSE stored_regs
                 /\ dups' = [dups EXCEPT ![t] = IF e = "dup" THEN @ + 1 ELSE @]
  <2> PICK e \in Event :
                 /\ e = "dup" => kind'[t] = "send"
                 /\ event' = [event EXCEPT ![t] = e]
                 /\ stored_regs' = IF e = "dup" THEN t ELSE stored_regs
                 /\ dups' = [dups EXCEPT ![t] = IF e = "dup" THEN @ + 1 ELSE @]
    BY <1>3
  <2>1. TypeOK'
    BY <1>3 DEF TypeOK
  <2>2. SlotBelongsToItsCall' /\ FaultsBounded'
    <3>1. SlotBelongsToItsCall'
      BY <1>3 DEF TypeOK, SlotBelongsToItsCall
    <3>2. FaultsBounded'
      <4>1. /\ faults \in Nat /\ bytes \in Nat /\ FileBytes \in Nat
            /\ faults + bytes <= FileBytes
        BY DEF TypeOK, FaultsBounded
      <4>2. bytes' \in Nat /\ bytes' + 1 <= bytes
        BY <1>3
      <4>3. (faults + 1) + bytes' <= FileBytes
        BY ONLY <4>1, <4>2, DrawKeepsBound
      <4>4. faults' = faults + 1
        BY <1>3
      <4> QED
        BY <4>3, <4>4 DEF FaultsBounded
    <3> QED
      BY <3>1, <3>2
  <2>3. ASSUME NEW u \in Thread PROVE CallInv(u)'
    <3>1. CASE u = t
      <4>1. \/ st[t] = "user" /\ exec[t] = 0 /\ dups[t] = 0 /\ ~stolen[t]
            \/ st[t] = "again" /\ stolen[t] /\ dups[t] >= 1 /\ exec[t] <= dups[t]
        BY <1>3 DEF CallInv
      <4> QED
        BY <1>3, <3>1, <4>1 DEF CallInv, TypeOK
    <3>2. CASE u # t
      BY <1>3, <3>2 DEF CallInv, TypeOK
    <3> QED
      BY <3>1, <3>2
  <2> QED
    BY <2>1, <2>2, <2>3
<1> QED
  BY <1>1, <1>2, <1>3, HookCases

\* The exit of thread t, which repeats its call exactly when it owns the slot.
LEMMA ExitKeepsInv ==
    ASSUME InjectorInv, NEW t \in Thread, SyscallExit(t)
    PROVE  InjectorInv'
<1> USE InjectorAssumption DEF InjectorInv, SyscallExit, slot
<1>1. exec[t] \in Nat /\ exec[t] < MaxExec
  <2>1. exec[t] <= dups[t] /\ dups[t] <= faults /\ faults <= FileBytes
    BY DEF CallInv, TypeOK, FaultsBounded
  <2> QED
    BY <2>1 DEF TypeOK, MaxExec
<1>2. exec'[t] = IF event[t] \in Suppressed THEN exec[t] ELSE exec[t] + 1
  BY <1>1 DEF TypeOK
<1>3. TypeOK'
  BY <1>1 DEF TypeOK, MaxExec
<1>4. SlotBelongsToItsCall' /\ FaultsBounded'
  BY DEF TypeOK, SlotBelongsToItsCall, FaultsBounded
<1>5. ASSUME NEW u \in Thread PROVE CallInv(u)'
  <2>1. CASE u = t
    BY <1>1, <1>2, <2>1 DEF CallInv, TypeOK, SlotBelongsToItsCall, Suppressed
  <2>2. CASE u # t
    BY <2>2 DEF CallInv, TypeOK
  <2> QED
    BY <2>1, <2>2
<1> QED
  BY <1>3, <1>4, <1>5

\* The inductive step.
LEMMA NextKeepsInv == InjectorInv /\ [Next]_vars => InjectorInv'
<1> SUFFICES ASSUME InjectorInv, [Next]_vars PROVE InjectorInv'
  OBVIOUS
<1>1. ASSUME NEW t \in Thread, SyscallEnter(t) PROVE InjectorInv'
  <2> PICK k \in Kind : kind' = [kind EXCEPT ![t] = k]
    BY <1>1 DEF SyscallEnter
  <2>1. kind' \in [Thread -> Kind] /\ \A u \in Thread \ {t} : kind'[u] = kind[u]
    BY DEF InjectorInv, TypeOK
  <2>2. calls' \in [Thread -> 0 .. MaxCalls]
    BY <1>1, InjectorAssumption DEF SyscallEnter, InjectorInv, TypeOK
  <2> QED
    BY <1>1, <2>1, <2>2, EntryKeepsInv DEF SyscallEnter
<1>2. ASSUME NEW t \in Thread, SyscallAgain(t) PROVE InjectorInv'
  BY <1>2, EntryKeepsInv DEF SyscallAgain, InjectorInv, TypeOK
<1>3. ASSUME NEW t \in Thread, SyscallExit(t) PROVE InjectorInv'
  BY <1>3, ExitKeepsInv
<1>4. ASSUME NEW t \in Thread, Resume(t) PROVE InjectorInv'
  <2> USE <1>4, InjectorAssumption DEF InjectorInv, Resume, slot
  <2>1. stolen' \in [Thread -> BOOLEAN]
    BY Zenon DEF TypeOK
  <2>2. TypeOK'
    BY <2>1 DEF TypeOK, MaxExec
  <2>3. SlotBelongsToItsCall' /\ FaultsBounded'
    BY DEF TypeOK, SlotBelongsToItsCall, FaultsBounded
  <2>4. ASSUME NEW u \in Thread PROVE CallInv(u)'
    <3>1. CASE u = t
      BY <3>1 DEF CallInv, TypeOK
    <3>2. CASE u # t
      BY <3>2 DEF CallInv, TypeOK
    <3> QED
      BY <3>1, <3>2
  <2> QED
    BY <2>2, <2>3, <2>4
<1>5. CASE set_is_fuzzing
  <2>1. is_fuzzing' \in BOOLEAN
    BY <1>5, Zenon DEF set_is_fuzzing
  <2> QED
    BY <1>5, <2>1 DEF set_is_fuzzing, slot, history, InjectorInv, TypeOK,
                      SlotBelongsToItsCall, FaultsBounded, CallInv
<1>6. CASE Done \/ UNCHANGED vars
  BY <1>6 DEF Done, vars, slot, history, InjectorInv, TypeOK,
              SlotBelongsToItsCall, FaultsBounded, CallInv
<1> QED
  BY <1>1, <1>2, <1>3, <1>4, <1>5, <1>6 DEF Next

\* The inductive invariant holds in every reachable state.
THEOREM InjectorInvariance == Spec => []InjectorInv
BY InitEstablishesInv, NextKeepsInv, PTL DEF Spec

\* Every variable of the injector keeps its type; in particular the index into
\* the random file never passes its end.
THEOREM InjectorTypeCorrect == Spec => []TypeOK
<1>1. InjectorInv => TypeOK
  BY DEF InjectorInv
<1> QED
  BY <1>1, InjectorInvariance, PTL

\* The slot stored_regs always belongs to a duplicated send in progress.
THEOREM SlotSound == Spec => []SlotBelongsToItsCall
<1>1. InjectorInv => SlotBelongsToItsCall
  BY DEF InjectorInv
<1> QED
  BY <1>1, InjectorInvariance, PTL

\* A duplicated call whose slot no other thread took is executed exactly twice,
\* and a call that was not duplicated at most once.
THEOREM DuplicationExact == Spec => []DuplicatedExactlyOnce
<1>1. InjectorInv => DuplicatedExactlyOnce
  BY DEF InjectorInv, CallInv, DuplicatedExactlyOnce
<1> QED
  BY <1>1, InjectorInvariance, PTL

\* A node injects at most as many faults as its random file has bytes.
THEOREM FaultsAreBounded == Spec => []FaultsBounded
<1>1. InjectorInv => FaultsBounded
  BY DEF InjectorInv
<1> QED
  BY <1>1, InjectorInvariance, PTL

\* A call is sent back only for a decision of its own to duplicate it, each of
\* which costs a byte of the random file, and has been executed once more by
\* then: it is repeated at most FileBytes times (lines 169-173 and 492-506).
THEOREM RepetitionsPaid == Spec => RepetitionsArePaid
<1>1. ASSUME InjectorInv, Next, NEW t \in Thread, st[t] = "kernel", st'[t] = "again"
      PROVE  exec'[t] = exec[t] + 1 /\ exec'[t] <= dups'[t] /\ dups'[t] <= FileBytes
  <2>1. InjectorInv'
    BY <1>1, NextKeepsInv
  <2>2. exec'[t] <= dups'[t] /\ dups'[t] <= FileBytes
    <3>1. CallInv(t)' /\ FaultsBounded' /\ TypeOK'
      BY <2>1 DEF InjectorInv
    <3>2. exec'[t] <= dups'[t] /\ dups'[t] <= faults'
      BY <1>1, <3>1 DEF CallInv
    <3>3. faults' \in Nat /\ bytes' \in Nat /\ dups' \in [Thread -> Nat]
      BY <3>1 DEF TypeOK
    <3>4. faults' <= FileBytes
      <4>1. faults' + bytes' <= FileBytes
        BY <3>1 DEF FaultsBounded
      <4>2. \A a, b \in Nat : a + b <= FileBytes => a <= FileBytes
        BY InjectorAssumption
      <4> QED
        BY <3>3, <4>1, <4>2
    <3>5. dups'[t] \in Nat
      BY <1>1, <3>3
    <3> QED
      BY <3>2, <3>3, <3>4, <3>5, InjectorAssumption
  <2>3. st \in [Thread -> {"user", "kernel", "again", "returned"}] /\ exec \in [Thread -> 0 .. MaxExec]
    BY <1>1 DEF InjectorInv, TypeOK
  <2>4. SyscallExit(t) /\ stored_regs = t
    <3>1. PICK u \in Thread : SyscallEnter(u) \/ SyscallAgain(u) \/ SyscallExit(u) \/ Resume(u)
      BY <1>1 DEF Next, set_is_fuzzing, Done, vars
    <3>2. u = t /\ SyscallExit(u)
      BY <1>1, <2>3, <3>1 DEF SyscallEnter, SyscallAgain, SyscallExit, Resume
    <3> QED
      BY <1>1, <2>3, <3>2 DEF SyscallExit
  <2>5. event[t] = "dup" /\ exec[t] <= dups[t] - 1 /\ dups[t] <= FileBytes
    <3>1. event[t] = "dup"
      BY <1>1, <2>4, InjectorAssumption DEF InjectorInv, SlotBelongsToItsCall
    <3>2. exec[t] <= dups[t] - 1 /\ dups[t] <= faults
      BY <1>1, <3>1 DEF InjectorInv, CallInv
    <3>3. faults \in Nat /\ bytes \in Nat /\ dups[t] \in Nat /\ faults + bytes <= FileBytes
      BY <1>1, InjectorAssumption DEF InjectorInv, TypeOK, FaultsBounded
    <3> QED
      BY <3>1, <3>2, <3>3, InjectorAssumption
  <2>6. exec[t] # MaxExec
    BY <1>1, <2>3, <2>5, InjectorAssumption DEF MaxExec, InjectorInv, TypeOK
  <2>7. exec'[t] = exec[t] + 1
    BY <2>3, <2>4, <2>5, <2>6 DEF SyscallExit, Suppressed
  <2> QED
    BY <2>2, <2>7
<1>2. InjectorInv /\ [Next]_vars =>
        [\A t \in Thread : st[t] = "kernel" /\ st'[t] = "again" =>
           exec'[t] = exec[t] + 1 /\ exec'[t] <= dups'[t] /\ dups'[t] <= FileBytes]_vars
  BY <1>1
<1> QED
  BY <1>2, InjectorInvariance, PTL DEF Spec, RepetitionsArePaid

-----------------------------------------------------------------------------
(***************************************************************************)
(* The eBPF injector                                                       *)
(***************************************************************************)

\* The server starts with no open in progress.
LEMMA EbpfStarts ==
    ASSUME EbpfInit
    PROVE  EbpfInv
<1>1. ~should_record /\ should_record \in BOOLEAN /\ raced \in BOOLEAN /\ failed \in BOOLEAN
  BY Zenon DEF EbpfInit
<1>2. /\ record_fds = {} /\ wanted = {}
      /\ \A t \in Task : call[t] = "none"
      /\ \A f \in Fd : open[f] # "kept"
  BY DEF EbpfInit
<1>3. open \in [Fd -> OpenKind \cup {"closed"}] /\ call \in [Task -> OpenKind \cup {"none"}]
  BY DEF EbpfInit, OpenKind
<1> QED
  BY <1>1, <1>2, <1>3 DEF EbpfInv, EbpfTypeOK, FlagInv, KeptIsFaulted

\* The entry of a descriptor.
LEMMA EntryOf ==
    ASSUME NEW f \in Fd
    PROVE  f % FD_SIZE \in Slot /\ (f < FD_SIZE => f % FD_SIZE = f)
  BY EbpfAssumption DEF Fd, Slot

\* An open begins: it is the only one, or two overlap.
LEMMA EnterStep ==
    ASSUME EbpfInv, NEW t \in Task, Enter(t)
    PROVE  EbpfInv'
<1>0. EbpfTypeOK /\ FlagInv /\ KeptIsFaulted
  BY DEF EbpfInv
<1>1. PICK k \in OpenKind :
          /\ call' = [call EXCEPT ![t] = k]
          /\ should_record' = (should_record \/ k = "kept")
          /\ raced' = (raced \/ (k # "socket" /\ \E u \in Task : call[u] \in {"kept", "dropped"}))
  BY DEF Enter
<1>2. UNCHANGED <<record_fds, open, wanted, failed>> /\ call[t] = "none"
  BY DEF Enter
<1>3. should_record' \in BOOLEAN /\ raced' \in BOOLEAN
  BY <1>1
<1>4. call' \in [Task -> OpenKind \cup {"none"}]
      /\ call'[t] = k /\ \A u \in Task \ {t} : call'[u] = call[u]
  BY <1>0, <1>1 DEF EbpfTypeOK
<1>5. EbpfTypeOK'
  BY <1>0, <1>2, <1>3, <1>4 DEF EbpfTypeOK
<1>6. FlagInv'
  <2> SUFFICES ASSUME ~raced' PROVE
          /\ \A u, v \in Task :
                 call'[u] \in {"kept", "dropped"} /\ call'[v] \in {"kept", "dropped"} => u = v
          /\ should_record' <=> \E u \in Task : call'[u] = "kept"
    BY DEF FlagInv
  <2>1. ~raced /\ (k # "socket" => \A u \in Task : call[u] \notin {"kept", "dropped"})
    BY <1>1
  <2>2. /\ \A u, v \in Task :
               call[u] \in {"kept", "dropped"} /\ call[v] \in {"kept", "dropped"} => u = v
        /\ should_record <=> \E u \in Task : call[u] = "kept"
    BY <1>0, <2>1 DEF FlagInv
  <2>3. CASE k = "socket"
    <3>1. \A u \in Task : /\ call'[u] \in {"kept", "dropped"} => call[u] \in {"kept", "dropped"}
                          /\ call'[u] = "kept" <=> call[u] = "kept"
      BY <1>2, <1>4, <2>3
    <3>2. should_record' <=> should_record
      BY <1>1, <2>3
    <3>3. \A u, v \in Task :
              call'[u] \in {"kept", "dropped"} /\ call'[v] \in {"kept", "dropped"} => u = v
      BY <2>2, <3>1
    <3>4. (\E u \in Task : call'[u] = "kept") <=> (\E u \in Task : call[u] = "kept")
      BY <3>1
    <3> QED
      BY <2>2, <3>2, <3>3, <3>4
  <2>4. CASE k # "socket"
    <3>1. \A u \in Task : call'[u] \in {"kept", "dropped"} => u = t
      BY <1>4, <2>1, <2>4
    <3>2. ~should_record
      BY <2>1, <2>2, <2>4
    <3>3. should_record' <=> k = "kept"
      BY <1>1, <3>2
    <3>4. (\E u \in Task : call'[u] = "kept") <=> k = "kept"
      BY <1>4, <3>1
    <3> QED
      BY <3>1, <3>3, <3>4
  <2> QED
    BY <2>3, <2>4
<1>7. raced => raced'
  BY <1>1
<1>8. KeptIsFaulted'
  BY <1>0, <1>2, <1>7 DEF KeptIsFaulted, Faulted
<1> QED
  BY <1>2, <1>5, <1>6, <1>7, <1>8 DEF EbpfInv

\* An open returns: the flag it consumes is its own, or two overlap.
LEMMA OpenReturnsStep ==
    ASSUME EbpfInv, NEW t \in Task, OpenReturns(t)
    PROVE  EbpfInv'
<1>0. EbpfTypeOK /\ FlagInv /\ KeptIsFaulted
      /\ (~raced /\ ~failed => record_fds \subseteq wanted)
  BY DEF EbpfInv
<1>1. /\ call[t] \in {"kept", "dropped"} /\ call' = [call EXCEPT ![t] = "none"]
      /\ raced' = raced /\ failed' = failed /\ should_record' = FALSE
  BY DEF OpenReturns, record_fd
<1>2. call' \in [Task -> OpenKind \cup {"none"}]
      /\ call'[t] = "none" /\ \A u \in Task \ {t} : call'[u] = call[u]
  BY <1>0, <1>1 DEF EbpfTypeOK
<1>3. FlagInv'
  <2>1. ~should_record'
    BY <1>1
  <2>2. ~raced => \A u \in Task : call'[u] \notin {"kept", "dropped"}
    BY <1>0, <1>1, <1>2 DEF FlagInv
  <2> QED
    BY <1>1, <2>1, <2>2 DEF FlagInv
<1>4. ~raced => (should_record <=> call[t] = "kept")
  BY <1>0, <1>1 DEF FlagInv
<1>5. should_record' \in BOOLEAN /\ raced' \in BOOLEAN /\ failed' \in BOOLEAN
  BY <1>0, <1>1 DEF EbpfTypeOK
<1>6. CASE UNCHANGED <<open, wanted, record_fds>>
  <2>1. EbpfTypeOK'
    BY <1>0, <1>2, <1>5, <1>6 DEF EbpfTypeOK
  <2>2. KeptIsFaulted'
    BY <1>0, <1>1, <1>6 DEF KeptIsFaulted, Faulted
  <2> QED
    BY <1>0, <1>1, <1>3, <1>6, <2>1, <2>2 DEF EbpfInv
<1>7. ASSUME NEW f \in Fd, open' = [open EXCEPT ![f] = call[t]], record_fd(f),
             wanted' = IF call[t] = "kept" THEN wanted \cup {f % FD_SIZE} ELSE wanted
      PROVE  EbpfInv'
  <2>1. record_fds' = IF should_record /\ f > 0 THEN record_fds \cup {f % FD_SIZE} ELSE record_fds
    BY <1>7 DEF record_fd
  <2>2. /\ record_fds' \subseteq Slot /\ wanted' \subseteq Slot
        /\ record_fds \subseteq record_fds'
    <3>1. record_fds \subseteq Slot /\ wanted \subseteq Slot /\ f % FD_SIZE \in Slot
      BY <1>0, EntryOf DEF EbpfTypeOK
    <3> QED
      BY <1>7, <2>1, <3>1
  <2>3. /\ open' \in [Fd -> OpenKind \cup {"closed"}]
        /\ open'[f] = call[t] /\ \A g \in Fd \ {f} : open'[g] = open[g]
    <3>1. open \in [Fd -> OpenKind \cup {"closed"}] /\ call[t] \in OpenKind
      BY <1>0, <1>1 DEF EbpfTypeOK, OpenKind
    <3> QED
      BY <1>7, <3>1
  <2>4. EbpfTypeOK'
    BY <1>2, <1>5, <2>2, <2>3 DEF EbpfTypeOK
  <2>5. ~raced' /\ ~failed' => record_fds' \subseteq wanted'
    BY <1>0, <1>1, <1>4, <1>7, <2>1
  <2>6. ASSUME NEW g \in 1 .. FD_SIZE - 1, g \in Fd, open'[g] = "kept", ~raced
        PROVE  g < FD_SIZE /\ g \in record_fds'
    <3>0. g > 0 /\ g < FD_SIZE
      BY <2>6, EbpfAssumption
    <3>1. CASE g = f
      <4>1. should_record
        BY <1>4, <2>3, <2>6, <3>1
      <4>2. f % FD_SIZE = f
        BY <3>0, <3>1, EntryOf
      <4> QED
        BY <2>1, <3>0, <3>1, <4>1, <4>2
    <3>2. CASE g # f
      BY <1>0, <2>2, <2>3, <2>6, <3>0, <3>2 DEF KeptIsFaulted, Faulted
    <3> QED
      BY <3>1, <3>2
  <2>7. KeptIsFaulted'
    BY <1>1, <2>6 DEF KeptIsFaulted, Faulted
  <2> QED
    BY <1>3, <2>4, <2>5, <2>7 DEF EbpfInv
<1>8. \/ \E f \in Fd :
             /\ open' = [open EXCEPT ![f] = call[t]] /\ record_fd(f)
             /\ wanted' = IF call[t] = "kept" THEN wanted \cup {f % FD_SIZE} ELSE wanted
      \/ record_fd(-1) /\ UNCHANGED <<open, wanted>>
  BY DEF OpenReturns
<1>9. record_fd(-1) => record_fds' = record_fds
  BY DEF record_fd
<1> QED
  BY <1>6, <1>7, <1>8, <1>9

\* A socket is recorded without the flag; an error is recorded, too.
LEMMA SocketReturnsStep ==
    ASSUME EbpfInv, NEW t \in Task, SocketReturns(t)
    PROVE  EbpfInv'
<1>0. EbpfTypeOK /\ FlagInv /\ KeptIsFaulted
      /\ (~raced /\ ~failed => record_fds \subseteq wanted)
  BY DEF EbpfInv
<1>1. /\ call[t] = "socket" /\ call' = [call EXCEPT ![t] = "none"]
      /\ raced' = raced /\ should_record' = should_record
  BY DEF SocketReturns
<1>2. call' \in [Task -> OpenKind \cup {"none"}]
      /\ call'[t] = "none" /\ \A u \in Task \ {t} : call'[u] = call[u]
  BY <1>0, <1>1 DEF EbpfTypeOK
<1>3. FlagInv'
  <2>1. \A u \in Task : /\ call'[u] \in {"kept", "dropped"} => call[u] \in {"kept", "dropped"}
                          /\ call'[u] = "kept" <=> call[u] = "kept"
    BY <1>1, <1>2
  <2> QED
    BY <1>0, <1>1, <2>1 DEF FlagInv
<1>4. /\ failed' \in BOOLEAN /\ (failed => failed')
      /\ should_record' \in BOOLEAN /\ raced' \in BOOLEAN
  BY <1>0, <1>1 DEF EbpfTypeOK, SocketReturns
<1>5. PICK e \in Slot :
          /\ record_fds' = record_fds \cup {e}
          /\ \/ /\ wanted' = wanted \cup {e}
                /\ \E f \in Fd : open' = [open EXCEPT ![f] = "socket"]
             \/ failed' /\ UNCHANGED <<wanted, open>>
  <2>1. \A f \in Fd : f % FD_SIZE \in Slot
    BY EntryOf
  <2> QED
    BY <2>1 DEF SocketReturns
<1>6. /\ open' \in [Fd -> OpenKind \cup {"closed"}]
      /\ \A g \in Fd : open'[g] = "kept" => open[g] = "kept"
  BY <1>0, <1>5 DEF EbpfTypeOK, OpenKind
<1>7. /\ record_fds' \subseteq Slot /\ wanted' \subseteq Slot
      /\ record_fds \subseteq record_fds'
  BY <1>0, <1>5 DEF EbpfTypeOK
<1>8. EbpfTypeOK'
  BY <1>2, <1>4, <1>6, <1>7 DEF EbpfTypeOK
<1>9. ~raced' /\ ~failed' => record_fds' \subseteq wanted'
  BY <1>0, <1>1, <1>4, <1>5
<1>10. KeptIsFaulted'
  BY <1>0, <1>1, <1>6, <1>7 DEF KeptIsFaulted, Faulted
<1> QED
  BY <1>3, <1>8, <1>9, <1>10 DEF EbpfInv

\* The invariant of the eBPF injector, for any number of threads and descriptors.
THEOREM EbpfInvariance == EbpfSpec => []EbpfInv
<1>1. EbpfInit => EbpfInv
  BY EbpfStarts
<1>2. EbpfInv /\ [EbpfNext]_ebpfvars => EbpfInv'
  <2> SUFFICES ASSUME EbpfInv, [EbpfNext]_ebpfvars PROVE EbpfInv'
    OBVIOUS
  <2>1. CASE Close
    <3>1. PICK f \in Fd : open' = [open EXCEPT ![f] = "closed"]
      BY <2>1 DEF Close
    <3>2. UNCHANGED <<should_record, record_fds, call, wanted, raced, failed>>
      BY <2>1 DEF Close
    <3>3. /\ open' \in [Fd -> OpenKind \cup {"closed"}]
          /\ \A g \in Fd : open'[g] = "kept" => open[g] = "kept"
      BY <3>1 DEF EbpfInv, EbpfTypeOK
    <3>4. EbpfTypeOK' /\ FlagInv'
      BY <3>2, <3>3 DEF EbpfInv, EbpfTypeOK, FlagInv
    <3>5. KeptIsFaulted'
      BY <3>2, <3>3 DEF EbpfInv, KeptIsFaulted, Faulted
    <3> QED
      BY <3>2, <3>4, <3>5 DEF EbpfInv
  <2>2. CASE UNCHANGED ebpfvars
    BY <2>2 DEF ebpfvars, EbpfInv, EbpfTypeOK, FlagInv, KeptIsFaulted,
       Faulted
  <2> QED
    BY <2>1, <2>2, EnterStep, OpenReturnsStep, SocketReturnsStep DEF EbpfNext, Idle
<1> QED
  BY <1>1, <1>2, PTL DEF EbpfSpec

\* A descriptor is faulted only if its entry once belonged to a file that passed
\* the filter or to a socket, unless two opens overlapped or socket() failed.
THEOREM FaultedWereWanted == EbpfSpec => []FaultedWasWanted
<1>1. EbpfInv => FaultedWasWanted
  BY DEF EbpfInv, FaultedWasWanted, Faulted
<1> QED
  BY <1>1, EbpfInvariance, PTL

\* A file that passed the filter is faulted while it is open, unless two opens
\* overlapped.
THEOREM KeptAreFaulted == EbpfSpec => []KeptIsFaulted
<1>1. EbpfInv => KeptIsFaulted
  BY DEF EbpfInv
<1> QED
  BY <1>1, EbpfInvariance, PTL

=============================================================================
