---------------------------- MODULE CoverageMap -----------------------------
(***************************************************************************)
(* A coverage map over a sequence of test cases: several processes add one *)
(* to bytes of the shared map without a lock, the fuzzer compares the map  *)
(* with the bits that are still virgin, word by word, and keeps the input  *)
(* if something is new.  Three kinds of processes write a map:             *)
(*                                                                         *)
(*   "strace"  the modified strace of each node writes branchTraceBit;     *)
(*   "rr"      the modified rr of each node does, and merges a location    *)
(*             with a neighbour that is marked: it looks at the map first, *)
(*             and clears location 0 after every call it is shown;         *)
(*   "server"  instrumented servers write globalTraceBit.                  *)
(*                                                                         *)
(* The counts of branchTraceBit (option -b) are compared as they are, and  *)
(* the input is kept only for a location never hit before.  Those of       *)
(* globalTraceBit are classified first, and the input is kept for every    *)
(* new bit.  Which location a call hashes to is left open.                 *)
(***************************************************************************)
EXTENDS Integers, FiniteSets, FiniteSetsExt, TLC

CONSTANTS
    Tracer,      \* processes that write the map
    W,           \* bits of a byte of branchTraceBit
    WordSize,    \* bytes in a word of has_new_bits
    Words,       \* words in the map
    MaxHits,     \* bound: hits in all test cases
    MaxRuns      \* bound: test cases

ASSUME CoverageAssumption ==
    /\ W \in Nat \ {0} /\ WordSize \in Nat \ {0} /\ Words \in Nat \ {0}
    /\ MaxHits \in Nat /\ MaxRuns \in Nat

Loc == 0 .. Words * WordSize - 1

VARIABLES
    mode,     \* who writes the map
    trace,    \* the map of this run
    virgin,   \* for each location, the bits no run has set
    add,      \* what each tracer is doing
    pc,       \* "run", "classify" or "scan"
    i,        \* words compared
    ret,      \* what has_new_bits has found
    kept,     \* inputs added to the queue
    runs,     \* test cases judged
    hits,     \* history: additions of this run to each location
    past,     \* hits of earlier runs
    known,    \* history: locations hit by earlier runs
    old,      \* history: virgin at the start of this run
    raced,    \* history: an rr stored while another was past its look
    cut       \* history: an rr was killed in the middle of a call

fuzzer == <<virgin, pc, i, ret, kept, runs, past, known, old>>
vars == <<mode, trace, add, hits, raced, cut, fuzzer>>

isBranchCoverage == mode # "server"

\* The bits of a byte: the classes are those of a full one.
Width == IF isBranchCoverage THEN W ELSE 8
Bit == 0 .. Width - 1
Bits(v) == {b \in Bit : (v \div 2^b) % 2 = 1}

\* at is "idle", "look", "load", "store" or "clear".
Idle == [at |-> "idle", loc |-> 0, val |-> 0]

Init ==
    /\ mode \in {"strace", "rr", "server"}
    /\ trace = [l \in Loc |-> 0] /\ virgin = [l \in Loc |-> Bit]
    /\ add = [t \in Tracer |-> Idle]
    /\ pc = "run" /\ i = 0 /\ ret = 0 /\ kept = 0 /\ runs = 0 /\ past = 0
    /\ hits = [l \in Loc |-> 0] /\ known = {} /\ old = virgin
    /\ raced = FALSE /\ cut = FALSE

-----------------------------------------------------------------------------
(***************************************************************************)
(* The hooks of the tracers                                                *)
(***************************************************************************)

Hits == past + MapThenSumSet(LAMBDA l : hits[l], Loc)

Running == pc = "run" /\ runs < MaxRuns /\ Hits < MaxHits
Doing(t, a, l, v) == add' = [add EXCEPT ![t] = [at |-> a, loc |-> l, val |-> v]]

\* rr: a call that is counted, faulted or not, and the location it hashes to.
handle_random_event(t) ==
    /\ mode = "rr" /\ Running /\ add[t] = Idle
    /\ \E l \in Loc : Doing(t, "look", l, 0)
    /\ UNCHANGED <<mode, trace, hits, raced, cut, fuzzer>>

\* Is the location marked?  Outside of the map the answer may be either.
Marked(l) == IF l \in Loc THEN {trace[l] > 0} ELSE BOOLEAN

\* A faulty look at the neighbour below only.
get_hash_value_below(t) ==
    /\ add[t].at = "look"
    /\ LET h == add[t].loc IN
       \E below \in Marked(h - 1) : Doing(t, "load", IF below THEN h - 1 ELSE h, 0)
    /\ UNCHANGED <<mode, trace, hits, raced, cut, fuzzer>>

\* rr: the look at the neighbours.
get_hash_value(t) ==
    /\ add[t].at = "look"
    /\ LET h == add[t].loc IN
       \E below \in Marked(h - 1), above \in Marked(h + 1) :
           Doing(t, "load", IF below THEN h - 1 ELSE IF above THEN h + 1 ELSE h, 0)
    /\ UNCHANGED <<mode, trace, hits, raced, cut, fuzzer>>

\* fuzz_coverage_map[hash_index]++ is a load and a store.
Load(t) ==
    /\ \E l \in (Loc \cup {add[t].loc}) :
           /\ IF mode = "rr" THEN add[t].at = "load" /\ l = add[t].loc
                             ELSE Running /\ add[t] = Idle
           /\ Doing(t, "store", l, IF l \in Loc THEN trace[l] ELSE 0)
    /\ UNCHANGED <<mode, trace, hits, raced, cut, fuzzer>>

\* Another rr is between its look and its addition.
Overlaps(t) == mode = "rr" /\ \E u \in Tracer \ {t} : add[u].at \in {"load", "store"}

\* What follows an addition: with rr, location 0 is cleared.
AfterStore(t) == IF mode = "rr" THEN Doing(t, "clear", 0, 0)
                                ELSE add' = [add EXCEPT ![t] = Idle]

\* A faulty store that writes back what was loaded.
StoreSame(t) ==
    LET l == add[t].loc IN
    /\ add[t].at = "store" /\ Hits < MaxHits
    /\ hits' = IF l \in Loc THEN [hits EXCEPT ![l] = @ + 1] ELSE hits
    /\ trace' = IF l \in Loc THEN [trace EXCEPT ![l] = add[t].val] ELSE trace
    /\ raced' = (raced \/ Overlaps(t))
    /\ AfterStore(t)
    /\ UNCHANGED <<mode, cut, fuzzer>>

\* With rr the location may be next to an end of the map.
Store(t) ==
    LET l == add[t].loc IN
    /\ add[t].at = "store" /\ Hits < MaxHits
    /\ hits' = IF l \in Loc THEN [hits EXCEPT ![l] = @ + 1] ELSE hits
    /\ trace' = IF l \in Loc THEN [trace EXCEPT ![l] = (add[t].val + 1) % 2^Width] ELSE trace
    /\ raced' = (raced \/ Overlaps(t))
    /\ AfterStore(t)
    /\ UNCHANGED <<mode, cut, fuzzer>>

\* A faulty hook that leaves location 0 to the next call.
ClearZeroLater(t) ==
    /\ add[t].at = "clear"
    /\ add' = [add EXCEPT ![t] = Idle]
    /\ UNCHANGED <<mode, trace, hits, raced, cut, fuzzer>>

\* rr: the end of dst_fuzz.
ClearZero(t) ==
    /\ add[t].at = "clear"
    /\ trace' = [trace EXCEPT ![0] = 0]
    /\ add' = [add EXCEPT ![t] = Idle]
    /\ UNCHANGED <<mode, hits, raced, cut, fuzzer>>

\* rr: a call that is not counted (another system call, fuzzing switched off, a
\* standard stream, a pipe or a filtered path) clears location 0 as well.
NotCounted(t) ==
    /\ mode = "rr" /\ Running /\ add[t] = Idle
    /\ trace' = [trace EXCEPT ![0] = 0]
    /\ UNCHANGED <<mode, add, hits, raced, cut, fuzzer>>

\* A tracer is killed in the middle of a call.
TracerKilled(t) ==
    /\ add[t] # Idle
    /\ add' = [add EXCEPT ![t] = Idle]
    /\ cut' = (mode = "rr")
    /\ UNCHANGED <<mode, trace, hits, raced, fuzzer>>

\* The run is over; its tracers have ended.
RunEnds ==
    /\ pc = "run" /\ runs < MaxRuns /\ \A t \in Tracer : add[t] = Idle
    /\ pc' = IF isBranchCoverage THEN "scan" ELSE "classify"
    /\ UNCHANGED <<mode, trace, virgin, add, i, ret, kept, runs, hits, past, known, old, raced, cut>>

-----------------------------------------------------------------------------

\* count_class_lookup8.
CountClass(v) ==
    CASE v <= 2 -> v
      [] v = 3 -> 4
      [] v \in 4 .. 7 -> 8
      [] v \in 8 .. 15 -> 16
      [] v \in 16 .. 31 -> 32
      [] v \in 32 .. 127 -> 64
      [] v \in 128 .. 255 -> 128

classify_counts ==
    /\ pc = "classify"
    /\ trace' = [l \in Loc |-> CountClass(trace[l])]
    /\ pc' = "scan"
    /\ UNCHANGED <<mode, virgin, add, i, ret, kept, runs, hits, past, known, old, raced, cut>>

Word(k) == k * WordSize .. (k + 1) * WordSize - 1

\* A faulty loop that lets a later word lower the result.
has_new_bits_last ==
    /\ pc = "scan" /\ i < Words
    /\ IF \E l \in Word(i) : Bits(trace[l]) \cap virgin[l] # {}
         THEN /\ ret' = IF \E l \in Word(i) : trace[l] # 0 /\ virgin[l] = Bit THEN 2 ELSE 1
              /\ virgin' = [l \in Loc |-> IF l \in Word(i) THEN virgin[l] \ Bits(trace[l])
                                                          ELSE virgin[l]]
         ELSE UNCHANGED <<ret, virgin>>
    /\ i' = i + 1
    /\ UNCHANGED <<mode, trace, add, pc, kept, runs, hits, past, known, old, raced, cut>>

\* One word of has_new_bits.
has_new_bits ==
    /\ pc = "scan" /\ i < Words
    /\ IF \E l \in Word(i) : Bits(trace[l]) \cap virgin[l] # {}
         THEN /\ ret' = IF ret = 2 \/ \E l \in Word(i) : trace[l] # 0 /\ virgin[l] = Bit
                          THEN 2 ELSE 1
              /\ virgin' = [l \in Loc |-> IF l \in Word(i) THEN virgin[l] \ Bits(trace[l])
                                                          ELSE virgin[l]]
         ELSE UNCHANGED <<ret, virgin>>
    /\ i' = i + 1
    /\ UNCHANGED <<mode, trace, add, pc, kept, runs, hits, past, known, old, raced, cut>>

\* A faulty flag that ignores -b.
newBitFlagAny == ret

\* A faulty flag that misses a new location.
newBitFlagOne == IF ret = 1 THEN 1 ELSE 0

newBitFlag == IF isBranchCoverage THEN (IF ret = 2 THEN 2 ELSE 0) ELSE ret

\* The input is kept or not; the next ExecuteCase clears the map.
AddInterestingSeed ==
    /\ pc = "scan" /\ i = Words
    /\ kept' = kept + (IF newBitFlag # 0 THEN 1 ELSE 0)
    /\ trace' = [l \in Loc |-> 0]
    /\ pc' = "run" /\ i' = 0 /\ ret' = 0 /\ runs' = runs + 1
    /\ known' = known \cup {l \in Loc : hits[l] > 0}
    /\ hits' = [l \in Loc |-> 0] /\ past' = Hits
    /\ old' = virgin /\ raced' = FALSE /\ cut' = FALSE
    /\ UNCHANGED <<mode, virgin, add>>

Over == runs = MaxRuns /\ UNCHANGED vars

Next == \/ \E t \in Tracer : \/ handle_random_event(t) \/ get_hash_value(t) \/ Load(t)
                             \/ Store(t) \/ ClearZero(t) \/ NotCounted(t) \/ TracerKilled(t)
        \/ RunEnds \/ classify_counts \/ has_new_bits \/ AddInterestingSeed \/ Over

Spec == Init /\ [][Next]_vars

\* The tracers differ in nothing, and no property is about liveness.
Symmetry == Permutations(Tracer)

-----------------------------------------------------------------------------
(***************************************************************************)
(* Properties                                                              *)
(***************************************************************************)

\* With rr location 0 is cleared again and again and says nothing.
Judged == IF mode = "rr" THEN Loc \ {0} ELSE Loc

\* However the additions of several tracers interleave, and whichever of them
\* are lost, a location is marked if and only if it was hit, as long as it was
\* hit fewer times than a byte can count (line 408 of strace's dst_fuzz.c, line
\* 235 of rr's).
MapIsHonest ==
    \A l \in Judged : hits[l] < 2^Width => (trace[l] # 0 <=> hits[l] > 0)

\* With rr two neighbouring locations are marked only if the look and the
\* addition of two tracers have overlapped: merging works across calls, nodes
\* and counts that wrap (lines 41-63 and 235 of rr's dst_fuzz.cc).
NoNeighbours ==
    mode = "rr" /\ ~raced => \A l \in Loc : l + 1 \in Loc => trace[l] = 0 \/ trace[l + 1] = 0

\* With rr location 0 is not marked while no tracer is handling a call, whoever
\* counted there, unless one was killed in the middle of a call (line 354 of
\* rr's dst_fuzz.cc).
ZeroIsClean ==
    mode = "rr" /\ ~cut /\ (\A t \in Tracer : add[t] = Idle) => trace[0] = 0

\* The loop over words computes what it stands for: 2 if a location is hit
\* whose bits were all virgin, 1 if only other virgin bits are set, and in
\* every case the bits that were set are no longer virgin (lines 437-494).
NewBitsExact ==
    pc = "scan" /\ i = Words =>
        /\ ret = 2 <=> \E l \in Loc : trace[l] # 0 /\ old[l] = Bit
        /\ ret = 0 <=> \A l \in Loc : Bits(trace[l]) \cap old[l] = {}
        /\ virgin = [l \in Loc |-> old[l] \ Bits(trace[l])]

\* What the runs behind the virgin bits v have used up: locations with -b, bits
\* without.
Used(v) == IF isBranchCoverage THEN {l \in Loc : v[l] # Bit}
                               ELSE {p \in Loc \X Bit : p[2] \notin v[p[1]]}

\* The queue cannot grow without end: each input that is kept used up a
\* location with -b, and a virgin bit without (lines 785-795 and 810).
KeptIsPaidFor == kept <= Cardinality(Used(virgin))

\* An input that hits a location no earlier input has hit is kept, unless the
\* count of that location wrapped (from the tracers to line 810).
FreshIsKept ==
    [][runs' # runs /\ (\E l \in Judged \ known : hits[l] \in 1 .. 2^Width - 1)
         => kept' = kept + 1]_vars

-----------------------------------------------------------------------------
(***************************************************************************)
(* The inductive invariant behind the properties                           *)
(***************************************************************************)

Value == 0 .. 2^Width - 1

TypeOK ==
    /\ mode \in {"strace", "rr", "server"}
    /\ trace \in [Loc -> Value]
    /\ virgin \in [Loc -> SUBSET Bit] /\ old \in [Loc -> SUBSET Bit]
    /\ add \in [Tracer -> [at : {"idle", "look", "load", "store", "clear"},
                           loc : Int, val : Value]]
    /\ pc \in {"run", "classify", "scan"} /\ i \in 0 .. Words /\ ret \in 0 .. 2
    /\ kept \in Nat /\ runs \in Nat
    /\ hits \in [Loc -> Nat] /\ known \subseteq Loc
    /\ raced \in BOOLEAN /\ cut \in BOOLEAN

\* Tracers act during a run only, and only rr takes more than two steps.
PhaseInv ==
    /\ pc # "run" => \A t \in Tracer : add[t] = Idle
    /\ mode # "rr" => \A t \in Tracer : add[t] = Idle \/ add[t].at = "store"
    /\ pc = "classify" => mode = "server"

\* A count is at most the number of hits, in the map and in the hands of a
\* tracer, so that a byte that was hit is 0 only after it has wrapped.
CountInv ==
    /\ \A l \in Loc : trace[l] # 0 => hits[l] > 0
    /\ \A l \in Loc : pc = "run" => trace[l] <= hits[l]
    /\ \A l \in Judged : hits[l] > 0 /\ hits[l] < 2^Width => trace[l] # 0
    /\ \A t \in Tracer :
           /\ add[t].at = "look" => add[t].loc \in Loc
           /\ add[t].at = "store" /\ add[t].loc \in Loc => add[t].val <= hits[add[t].loc]

\* An rr that has looked, and was not overtaken, is at a location whose
\* neighbours are not marked.
MergeInv ==
    mode = "rr" /\ ~raced =>
        \A t \in Tracer : add[t].at \in {"load", "store"} =>
            \A l \in {add[t].loc - 1, add[t].loc + 1} \cap Loc :
                add[t].loc \in Loc => trace[l] = 0

\* Whoever marks location 0 is about to clear it.
ZeroInv ==
    mode = "rr" /\ ~cut /\ trace[0] # 0 => \E t \in Tracer : add[t].at = "clear"

\* The loop has compared i words so far.
Seen == {l \in Loc : l < i * WordSize}

ScanInv ==
    /\ pc # "scan" => i = 0 /\ ret = 0
    /\ ret = 2 <=> \E l \in Seen : trace[l] # 0 /\ old[l] = Bit
    /\ ret = 0 <=> \A l \in Seen : Bits(trace[l]) \cap old[l] = {}
    /\ virgin = [l \in Loc |-> IF l \in Seen THEN old[l] \ Bits(trace[l]) ELSE old[l]]

\* Bits are used up by earlier runs, which hit the location, and pay for what
\* was kept.
PastInv ==
    /\ \A l \in Loc : old[l] # Bit => l \in known
    /\ kept <= Cardinality(Used(old))

MapInv ==
    /\ TypeOK /\ PhaseInv /\ CountInv
    /\ NoNeighbours /\ MergeInv /\ ZeroInv
    /\ ScanInv /\ PastInv

=============================================================================
