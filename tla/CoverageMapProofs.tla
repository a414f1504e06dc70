------------------------- MODULE CoverageMapProofs --------------------------
(***************************************************************************)
(* Proofs about the coverage map, for any number of tracers, words, words' *)
(* sizes and bits of a byte.                                               *)
(***************************************************************************)
EXTENDS CoverageMap, FiniteSetTheorems, TLAPS

\* Zenon is tried first, then SMT, then Zenon for longer.
USE ZenonT(5), SMTT(15), ZenonT(20)

USE CoverageAssumption

-----------------------------------------------------------------------------
(***************************************************************************)
(* The bits of a byte                                                      *)
(***************************************************************************)

\* A set of naturals has a least member.
LEMMA LeastMember ==
    ASSUME NEW T \in SUBSET Nat, T # {}
    PROVE  \E x \in T : \A y \in T : x <= y
<1>1. \E x \in T : \A y \in T : <<y, x>> \notin OpToRel(<, Nat)
  BY NatLessThanWellFounded, WFMin
<1>2. \A x, y \in Nat : y < x => <<y, x>> \in OpToRel(<, Nat)
  BY DEF OpToRel
<1>3. \A x, y \in Nat : ~(y < x) => x <= y
  OBVIOUS
<1> QED
  BY <1>1, <1>2, <1>3

\* A power of two counts the subsets of a set, and so is positive.
LEMMA PowerPositive ==
    ASSUME NEW n \in Nat
    PROVE  2^n \in Nat /\ 2^n >= 1
<1>1. IsFiniteSet(1 .. n) /\ Cardinality(1 .. n) = n
  <2>1. IsFiniteSet(1 .. n) /\ Cardinality(1 .. n) = IF 1 > n THEN 0 ELSE n - 1 + 1
    BY FS_Interval
  <2> QED
    BY <2>1
<1>2. IsFiniteSet(SUBSET (1 .. n)) /\ Cardinality(SUBSET (1 .. n)) = 2^n
  BY <1>1, FS_SUBSET
<1>3. Cardinality(SUBSET (1 .. n)) \in Nat /\ Cardinality(SUBSET (1 .. n)) # 0
  BY <1>2, FS_CardinalityType, FS_EmptySet
<1> QED
  BY <1>2, <1>3

\* One more member doubles the number of subsets.
LEMMA PowerDoubles ==
    ASSUME NEW n \in Nat
    PROVE  2^(n + 1) = 2 * 2^n
<1> DEFINE S == 1 .. n
           T == 1 .. n + 1
           Without == SUBSET S
           With == {A \in SUBSET T : n + 1 \in A}
           f == [A \in Without |-> A \cup {n + 1}]
<1>1. IsFiniteSet(S) /\ Cardinality(S) = n /\ IsFiniteSet(T) /\ Cardinality(T) = n + 1
  <2>1. IsFiniteSet(S) /\ Cardinality(S) = IF 1 > n THEN 0 ELSE n - 1 + 1
    BY FS_Interval
  <2>2. IsFiniteSet(T) /\ Cardinality(T) = IF 1 > n + 1 THEN 0 ELSE n + 1 - 1 + 1
    BY FS_Interval
  <2> QED
    BY <2>1, <2>2
<1>2. /\ IsFiniteSet(SUBSET S) /\ Cardinality(SUBSET S) = 2^n
      /\ IsFiniteSet(SUBSET T) /\ Cardinality(SUBSET T) = 2^(n + 1)
  <2> HIDE DEF S, T
  <2> QED
    BY <1>1, FS_SUBSET
<1>3. SUBSET T = Without \cup With /\ Without \cap With = {}
  <2>1. S \subseteq T /\ n + 1 \in T /\ n + 1 \notin S /\ T \subseteq S \cup {n + 1}
    OBVIOUS
  <2> HIDE DEF S, T
  <2> QED
    BY <2>1
<1>4. f \in Bijection(Without, With)
  <2>1. S \subseteq T /\ n + 1 \in T /\ n + 1 \notin S /\ T \subseteq S \cup {n + 1}
    OBVIOUS
  <2> HIDE DEF S, T
  <2>2. f \in [Without -> With]
    BY <2>1
  <2>3. \A A, B \in Without : f[A] = f[B] => A = B
    <3> SUFFICES ASSUME NEW A \in Without, NEW B \in Without, f[A] = f[B] PROVE A = B
      OBVIOUS
    <3>1. A \cup {n + 1} = B \cup {n + 1}
      OBVIOUS
    <3>2. n + 1 \notin A /\ n + 1 \notin B
      BY <2>1
    <3> QED
      BY <3>1, <3>2
  <2>4. \A B \in With : \E A \in Without : f[A] = B
    <3> SUFFICES ASSUME NEW B \in With PROVE \E A \in Without : f[A] = B
      OBVIOUS
    <3>1. B \ {n + 1} \in Without
      BY <2>1
    <3>2. f[B \ {n + 1}] = B
      BY <3>1
    <3> QED
      BY <3>1, <3>2
  <2> HIDE DEF f, Without, With
  <2> QED
    BY <2>2, <2>3, <2>4 DEF Bijection, Injection, IsInjective, Surjection
<1>5. IsFiniteSet(With) /\ Cardinality(With) = 2^n
  <2> HIDE DEF S, T, f
  <2>1. With \subseteq SUBSET T
    OBVIOUS
  <2>2. IsFiniteSet(With)
    BY <1>2, <2>1, FS_Subset
  <2> HIDE DEF With
  <2> QED
    BY <1>2, <1>4, <2>2, FS_Bijection DEF ExistsBijection
<1>6. Cardinality(SUBSET T) = 2^n + 2^n - Cardinality({})
  <2> HIDE DEF S, T, f, With
  <2> QED
    BY <1>2, <1>3, <1>5, FS_Union
<1> QED
  <2> HIDE DEF S, T, f, With
  <2> QED
    BY <1>2, <1>6, FS_EmptySet, PowerPositive

\* A byte has bits, and its values are 0 to 255 with globalTraceBit.
LEMMA WidthFacts ==
    /\ Width \in Nat \ {0}
    /\ 2^Width \in Nat /\ 2^Width >= 2
    /\ mode = "server" => Value = 0 .. 255
<1>1. Width \in Nat \ {0}
  BY DEF Width
<1>2. 2^Width \in Nat
  BY <1>1, PowerPositive
<1>3. 2^Width >= 2
  <2>1. Width - 1 \in Nat /\ (Width - 1) + 1 = Width
    BY <1>1
  <2>2. 2^((Width - 1) + 1) = 2 * 2^(Width - 1) /\ 2^(Width - 1) \in Nat /\ 2^(Width - 1) >= 1
    BY <2>1, PowerDoubles, PowerPositive
  <2> QED
    BY <2>1, <2>2
<1>4. mode = "server" => Value = 0 .. 255
  <2>1. mode = "server" => Width = 8
    BY DEF Width, isBranchCoverage
  <2>2. 2^8 = 256
    OBVIOUS
  <2> QED
    BY <2>1, <2>2 DEF Value
<1> QED
  BY <1>1, <1>2, <1>3, <1>4

\* has_new_bits looks for a location that is not 0 only in words with a virgin
\* bit that is set.  It misses none, because a byte is 0 exactly when none of its
\* bits is set.
LEMMA BitsOfByte ==
    ASSUME NEW v \in Value
    PROVE  Bits(v) \subseteq Bit /\ (Bits(v) = {} <=> v = 0)
<1>1. Bits(v) \subseteq Bit
  BY DEF Bits
<1>2. ASSUME v = 0 PROVE Bits(v) = {}
  <2>1. ASSUME NEW b \in Bit PROVE (v \div 2^b) % 2 # 1
    <3>1. b \in Nat
      BY WidthFacts DEF Bit
    <3>2. 2^b \in Nat /\ 2^b >= 1
      BY <3>1, PowerPositive
    <3>3. 0 \div 2^b = 0
      BY <3>2
    <3> QED
      BY <1>2, <3>3
  <2> QED
    BY <2>1 DEF Bits
<1>3. ASSUME v # 0 PROVE Bits(v) # {}
  <2>0. v \in Nat /\ v >= 1 /\ v < 2^Width
    BY <1>3, WidthFacts DEF Value
  <2> DEFINE Above == {b \in Nat : v < 2^(b + 1)}
  <2>1. Width - 1 \in Above
    <3>1. Width - 1 \in Nat /\ (Width - 1) + 1 = Width
      BY WidthFacts
    <3> QED
      BY <2>0, <3>1
  <2>2. PICK b \in Above : \A c \in Above : b <= c
    BY <2>1, LeastMember
  <2>3. b \in Nat /\ b <= Width - 1 /\ v < 2^(b + 1)
    BY <2>1, <2>2
  <2>4. 2^b <= v
    <3>1. CASE b = 0
      <4>1. 2^0 = 1
        OBVIOUS
      <4> QED
        BY <2>0, <3>1, <4>1
    <3>2. CASE b # 0
      <4>1. b - 1 \in Nat /\ (b - 1) + 1 = b /\ ~(b <= b - 1)
        BY <2>3, <3>2
      <4>2. ~(v < 2^b)
        BY <2>2, <4>1
      <4> QED
        BY <2>0, <2>3, <4>2, PowerPositive
    <3> QED
      BY <3>1, <3>2
  <2>5. v < 2 * 2^b /\ 2^b \in Nat /\ 2^b >= 1
    BY <2>3, PowerDoubles, PowerPositive
  <2>6. v \div 2^b = 1
    <3>1. ASSUME NEW p \in Nat, p >= 1, p <= v, v < 2 * p PROVE v \div p = 1
      BY <2>0, <3>1
    <3> QED
      BY <2>4, <2>5, <3>1
  <2>7. b \in Bit /\ (v \div 2^b) % 2 = 1
    BY <2>3, <2>6, WidthFacts DEF Bit
  <2> QED
    BY <2>7 DEF Bits
<1> QED
  BY <1>1, <1>2, <1>3

-----------------------------------------------------------------------------
(***************************************************************************)
(* The words of the map                                                    *)
(***************************************************************************)

\* The words have the locations of the map, in turn.
LEMMA WordFacts ==
    /\ Loc \subseteq Nat /\ 0 \in Loc /\ IsFiniteSet(Loc)
    /\ {l \in Loc : l < 0 * WordSize} = {} /\ {l \in Loc : l < Words * WordSize} = Loc
    /\ \A k \in 0 .. Words - 1 :
           /\ Word(k) \subseteq Loc
           /\ {l \in Loc : l < (k + 1) * WordSize} =
                  {l \in Loc : l < k * WordSize} \cup Word(k)
           /\ {l \in Loc : l < k * WordSize} \cap Word(k) = {}
<1>1. Words * WordSize \in Nat \ {0} /\ 0 * WordSize = 0
  OBVIOUS
<1>2. Loc \subseteq Nat /\ 0 \in Loc /\ IsFiniteSet(Loc)
  BY <1>1, FS_Interval DEF Loc
<1>3. {l \in Loc : l < 0 * WordSize} = {} /\ {l \in Loc : l < Words * WordSize} = Loc
  BY <1>1 DEF Loc
<1>4. ASSUME NEW k \in 0 .. Words - 1
      PROVE  /\ Word(k) \subseteq Loc
             /\ {l \in Loc : l < (k + 1) * WordSize} =
                    {l \in Loc : l < k * WordSize} \cup Word(k)
             /\ {l \in Loc : l < k * WordSize} \cap Word(k) = {}
  <2>1. k * WordSize \in Nat /\ (k + 1) * WordSize = k * WordSize + WordSize
    OBVIOUS
  <2>2. (k + 1) * WordSize <= Words * WordSize
    <3>1. Words - (k + 1) \in Nat /\ (Words - (k + 1)) * WordSize \in Nat
      OBVIOUS
    <3>2. Words * WordSize = (k + 1) * WordSize + (Words - (k + 1)) * WordSize
      OBVIOUS
    <3> QED
      BY <2>1, <3>1, <3>2
  <2> DEFINE a == k * WordSize
             b == (k + 1) * WordSize
             c == Words * WordSize
  <2>3. a \in Nat /\ b \in Nat /\ c \in Nat /\ a <= b /\ b <= c
    BY <1>1, <2>1, <2>2
  <2>4. Word(k) = a .. b - 1 /\ Loc = 0 .. c - 1
    BY DEF Word, Loc
  <2> HIDE DEF a, b, c
  <2>5. /\ Word(k) \subseteq Loc
        /\ {l \in Loc : l < b} = {l \in Loc : l < a} \cup Word(k)
        /\ {l \in Loc : l < a} \cap Word(k) = {}
    BY <2>3, <2>4
  <2> QED
    BY <2>5 DEF a, b
<1> QED
  BY <1>2, <1>3, <1>4

\* classify_counts keeps apart the bytes that are 0 and those that are not.
LEMMA ClassFacts ==
    ASSUME NEW v \in 0 .. 255
    PROVE  CountClass(v) \in 0 .. 255 /\ (CountClass(v) = 0 <=> v = 0)
<1>1. CASE v <= 2
  BY <1>1 DEF CountClass
<1>2. CASE v = 3
  BY <1>2 DEF CountClass
<1>3. CASE v \in 4 .. 7
  BY <1>3 DEF CountClass
<1>4. CASE v \in 8 .. 15
  BY <1>4 DEF CountClass
<1>5. CASE v \in 16 .. 31
  BY <1>5 DEF CountClass
<1>6. CASE v \in 32 .. 127
  BY <1>6 DEF CountClass
<1>7. CASE v \in 128 .. 255
  BY <1>7 DEF CountClass
<1> QED
  BY <1>1, <1>2, <1>3, <1>4, <1>5, <1>6, <1>7

\* One more than a byte, in a byte.
LEMMA IncrementFacts ==
    ASSUME NEW v \in Value
    PROVE  /\ (v + 1) % 2^Width \in Value
           /\ (v + 1) % 2^Width <= v + 1
           /\ v + 1 < 2^Width => (v + 1) % 2^Width = v + 1
<1>1. ASSUME NEW m \in Nat, m >= 2, v \in 0 .. m - 1
      PROVE  /\ (v + 1) % m \in 0 .. m - 1 /\ (v + 1) % m <= v + 1
             /\ v + 1 < m => (v + 1) % m = v + 1
  <2>1. CASE v + 1 < m
    <3>1. (v + 1) % m = v + 1
      BY <1>1, <2>1
    <3> QED
      BY <1>1, <2>1, <3>1
  <2>2. CASE v + 1 = m
    <3>1. (v + 1) % m = 0
      BY <1>1, <2>2
    <3> QED
      BY <1>1, <2>2, <3>1
  <2> QED
    BY <1>1, <2>1, <2>2
<1> QED
  BY <1>1, WidthFacts DEF Value

-----------------------------------------------------------------------------
(***************************************************************************)
(* The initial states                                                      *)
(***************************************************************************)

\* Nothing is used up by no run.
LEMMA InitEstablishesInv ==
    ASSUME Init
    PROVE  MapInv
<1>1. 0 \in Value
  BY WidthFacts DEF Value
<1>2. TypeOK
  <2>1. raced \in BOOLEAN /\ cut \in BOOLEAN
    BY DEF Init
  <2>2. /\ trace \in [Loc -> Value] /\ virgin \in [Loc -> SUBSET Bit]
        /\ old \in [Loc -> SUBSET Bit] /\ hits \in [Loc -> Nat]
    BY <1>1 DEF Init
  <2>3. add \in [Tracer -> [at : {"idle", "look", "load", "store", "clear"},
                           loc : Int, val : Value]]
    BY <1>1 DEF Init, Idle
  <2>4. /\ mode \in {"strace", "rr", "server"} /\ pc = "run" /\ i = 0 /\ ret = 0
        /\ kept = 0 /\ runs = 0 /\ known = {}
    BY DEF Init
  <2> QED
    BY <2>1, <2>2, <2>3, <2>4 DEF TypeOK
<1>3. PhaseInv /\ MergeInv /\ NoNeighbours /\ ZeroInv
  BY WordFacts DEF Init, PhaseInv, MergeInv, NoNeighbours, ZeroInv, Idle
<1>4. CountInv
  BY DEF Init, CountInv, Idle, Judged
<1>5. ScanInv
  BY WordFacts DEF Init, ScanInv, Seen
<1>6. PastInv
  <2>1. Used(old) = {}
    BY DEF Init, Used
  <2> QED
    BY <2>1, FS_EmptySet DEF Init, PastInv
<1> QED
  BY <1>2, <1>3, <1>4, <1>5, <1>6 DEF MapInv

-----------------------------------------------------------------------------
(***************************************************************************)
(* The steps                                                               *)
(***************************************************************************)

\* Nobody changes who writes the map, nor the width of a byte.
LEMMA ModeStays ==
    ASSUME [Next]_vars
    PROVE  /\ mode' = mode /\ isBranchCoverage' = isBranchCoverage
           /\ Width' = Width /\ Bit' = Bit /\ Value' = Value /\ Judged' = Judged
<1>1. mode' = mode
  BY DEF Next, handle_random_event, get_hash_value, Load, Store, ClearZero, NotCounted,
     TracerKilled, RunEnds, classify_counts, has_new_bits, AddInterestingSeed, Over, vars
<1> QED
  BY <1>1 DEF isBranchCoverage, Width, Bit, Value, Judged

\* What an addition leaves behind.
LEMMA StoreFacts ==
    ASSUME TypeOK, NEW t \in Tracer, Store(t)
    PROVE  LET l == add[t].loc
               w == (add[t].val + 1) % 2^Width
           IN  /\ w \in Value /\ w <= add[t].val + 1
               /\ add[t].val \in Nat
               /\ add[t].val + 1 < 2^Width => w = add[t].val + 1
               /\ l \in Loc => /\ trace' = [trace EXCEPT ![l] = w]
                               /\ hits' = [hits EXCEPT ![l] = @ + 1]
               /\ l \notin Loc => trace' = trace /\ hits' = hits
               /\ add' = [add EXCEPT ![t] = IF mode = "rr"
                              THEN [at |-> "clear", loc |-> 0, val |-> 0] ELSE Idle]
               /\ UNCHANGED <<pc, i, ret, virgin, kept, runs, known, old, cut>>
<1>1. add[t].val \in Value
  BY DEF TypeOK
<1>2. add[t].val \in Nat
  BY <1>1, WidthFacts DEF Value
<1> QED
  BY <1>1, <1>2, IncrementFacts DEF Store, AfterStore, Doing, fuzzer

\* Every step keeps the types.
LEMMA TypeStep ==
    ASSUME MapInv, [Next]_vars
    PROVE  TypeOK'
<1>0. TypeOK
  BY DEF MapInv
<1>1. mode' = mode /\ Bit' = Bit /\ Value' = Value
  BY ModeStays
<1>2. 0 \in Value /\ 0 \in Loc
  BY WidthFacts, WordFacts DEF Value
<1> DEFINE Act == [at : {"idle", "look", "load", "store", "clear"}, loc : Int, val : Value]
<1>3. raced' \in BOOLEAN /\ cut' \in BOOLEAN
  BY <1>0 DEF TypeOK, Next, handle_random_event, get_hash_value, Load, Store, ClearZero, NotCounted,
     TracerKilled, RunEnds, classify_counts, has_new_bits, AddInterestingSeed, Over, vars
<1>4. add' \in [Tracer -> Act]
  <2>1. ASSUME NEW t \in Tracer, NEW a \in Act, add' = [add EXCEPT ![t] = a]
        PROVE  add' \in [Tracer -> Act]
    BY <1>0, <2>1 DEF TypeOK
  <2>2. Idle \in Act /\ [at |-> "clear", loc |-> 0, val |-> 0] \in Act
    BY <1>2 DEF Idle
  <2>3. ASSUME NEW t \in Tracer, handle_random_event(t) PROVE add' \in [Tracer -> Act]
    <3>1. PICK l \in Loc : Doing(t, "look", l, 0)
      BY <2>3 DEF handle_random_event
    <3>2. [at |-> "look", loc |-> l, val |-> 0] \in Act
      BY <1>2, WordFacts
    <3> QED
      BY <2>1, <3>1, <3>2 DEF Doing
  <2>4. ASSUME NEW t \in Tracer, get_hash_value(t) PROVE add' \in [Tracer -> Act]
    <3>1. add[t].loc \in Int
      BY <1>0 DEF TypeOK
    <3>2. PICK h \in Int : Doing(t, "load", h, 0)
      BY <2>4, <3>1 DEF get_hash_value
    <3>3. [at |-> "load", loc |-> h, val |-> 0] \in Act
      BY <1>2
    <3> QED
      BY <2>1, <3>2, <3>3 DEF Doing
  <2>5. ASSUME NEW t \in Tracer, Load(t) PROVE add' \in [Tracer -> Act]
    <3>1. add[t].loc \in Int
      BY <1>0 DEF TypeOK
    <3>2. PICK l \in Loc \cup {add[t].loc} :
              Doing(t, "store", l, IF l \in Loc THEN trace[l] ELSE 0)
      BY <2>5 DEF Load
    <3>3. l \in Int /\ (IF l \in Loc THEN trace[l] ELSE 0) \in Value
      BY <1>0, <1>2, <3>1, WordFacts DEF TypeOK
    <3> QED
      BY <2>1, <3>2, <3>3 DEF Doing
  <2>6. ASSUME NEW t \in Tracer, Store(t) PROVE add' \in [Tracer -> Act]
    BY <1>0, <2>1, <2>2, <2>6, StoreFacts
  <2>7. ASSUME NEW t \in Tracer, ClearZero(t) \/ TracerKilled(t) PROVE add' \in [Tracer -> Act]
    BY <2>1, <2>2, <2>7 DEF ClearZero, TracerKilled
  <2>8. CASE \/ \E t \in Tracer : NotCounted(t)
             \/ RunEnds \/ classify_counts \/ has_new_bits \/ AddInterestingSeed \/ Over
             \/ UNCHANGED vars
    BY <1>0, <2>8 DEF TypeOK, NotCounted, RunEnds, classify_counts, has_new_bits,
       AddInterestingSeed, Over, vars
  <2> QED
    BY <2>3, <2>4, <2>5, <2>6, <2>7, <2>8 DEF Next
<1>5. trace' \in [Loc -> Value] /\ hits' \in [Loc -> Nat]
  <2>0. trace \in [Loc -> Value] /\ hits \in [Loc -> Nat]
    BY <1>0 DEF TypeOK
  <2>1. ASSUME NEW t \in Tracer, Store(t) PROVE trace' \in [Loc -> Value] /\ hits' \in [Loc -> Nat]
    <3>1. CASE add[t].loc \in Loc
      BY <1>0, <2>0, <2>1, <3>1, StoreFacts
    <3>2. CASE add[t].loc \notin Loc
      BY <1>0, <2>0, <2>1, <3>2, StoreFacts
    <3> QED
      BY <3>1, <3>2
  <2>2. ASSUME NEW t \in Tracer, ClearZero(t) \/ NotCounted(t)
        PROVE  trace' \in [Loc -> Value] /\ hits' \in [Loc -> Nat]
    BY <1>2, <2>0, <2>2 DEF ClearZero, NotCounted
  <2>3. CASE classify_counts
    <3>1. Value = 0 .. 255
      BY <2>3, WidthFacts DEF MapInv, PhaseInv, classify_counts
    <3>2. \A v \in Value : CountClass(v) \in Value
      BY <3>1, ClassFacts
    <3>3. trace' = [l \in Loc |-> CountClass(trace[l])] /\ hits' = hits
      BY <2>3 DEF classify_counts
    <3> QED
      BY <2>0, <3>2, <3>3
  <2>4. CASE AddInterestingSeed
    BY <1>2, <2>4 DEF AddInterestingSeed
  <2>5. CASE \/ \E t \in Tracer : \/ handle_random_event(t) \/ get_hash_value(t) \/ Load(t)
                                  \/ TracerKilled(t)
             \/ RunEnds \/ has_new_bits \/ Over \/ UNCHANGED vars
    BY <2>0, <2>5 DEF handle_random_event, get_hash_value, Load, TracerKilled, RunEnds,
       has_new_bits, Over, vars
  <2> QED
    BY <2>1, <2>2, <2>3, <2>4, <2>5 DEF Next
<1>6. /\ virgin' \in [Loc -> SUBSET Bit] /\ old' \in [Loc -> SUBSET Bit]
      /\ pc' \in {"run", "classify", "scan"} /\ i' \in 0 .. Words /\ ret' \in 0 .. 2
      /\ kept' \in Nat /\ runs' \in Nat /\ known' \subseteq Loc
  <2>0. /\ virgin \in [Loc -> SUBSET Bit] /\ old \in [Loc -> SUBSET Bit]
        /\ pc \in {"run", "classify", "scan"} /\ i \in 0 .. Words /\ ret \in 0 .. 2
        /\ kept \in Nat /\ runs \in Nat /\ known \subseteq Loc
    BY <1>0 DEF TypeOK
  <2>1. CASE has_new_bits
    <3>1. virgin' \in [Loc -> SUBSET Bit] /\ ret' \in 0 .. 2 /\ i' \in 0 .. Words
      BY <2>0, <2>1 DEF has_new_bits
    <3> QED
      BY <2>0, <2>1, <3>1 DEF has_new_bits
  <2>2. CASE AddInterestingSeed
    BY <2>0, <2>2 DEF AddInterestingSeed
  <2>3. CASE RunEnds \/ classify_counts
    BY <2>0, <2>3 DEF RunEnds, classify_counts
  <2>4. CASE \/ \E t \in Tracer : \/ handle_random_event(t) \/ get_hash_value(t) \/ Load(t)
                                  \/ Store(t) \/ ClearZero(t) \/ NotCounted(t)
                                  \/ TracerKilled(t)
             \/ Over \/ UNCHANGED vars
    BY <2>0, <2>4 DEF handle_random_event, get_hash_value, Load, Store, ClearZero, NotCounted,
       TracerKilled, Over, vars, fuzzer
  <2> QED
    BY <2>1, <2>2, <2>3, <2>4 DEF Next
<1>7. mode' \in {"strace", "rr", "server"}
  BY <1>0, <1>1 DEF TypeOK
<1> QED
  BY <1>1, <1>3, <1>4, <1>5, <1>6, <1>7 DEF TypeOK

\* A tracer acts during a run only: it starts in one, and ends before it.
LEMMA TracersRun ==
    ASSUME PhaseInv, NEW t \in Tracer,
           \/ handle_random_event(t) \/ get_hash_value(t) \/ Load(t) \/ Store(t)
           \/ ClearZero(t) \/ NotCounted(t) \/ TracerKilled(t)
    PROVE  pc = "run"
<1>1. CASE handle_random_event(t) \/ NotCounted(t)
  BY <1>1 DEF handle_random_event, NotCounted, Running
<1>2. CASE get_hash_value(t)
  <2>1. add[t].at = "look"
    BY <1>2 DEF get_hash_value
  <2> QED
    BY <2>1 DEF PhaseInv, Idle
<1>3. CASE Load(t)
  <2>1. add[t].at = "load" \/ Running
    BY <1>3 DEF Load
  <2> QED
    BY <2>1 DEF PhaseInv, Idle, Running
<1>4. CASE Store(t) \/ ClearZero(t)
  <2>1. add[t].at \in {"store", "clear"}
    BY <1>4 DEF Store, ClearZero
  <2> QED
    BY <2>1 DEF PhaseInv, Idle
<1>5. CASE TracerKilled(t)
  BY <1>5 DEF TracerKilled, PhaseInv
<1> QED
  BY <1>1, <1>2, <1>3, <1>4, <1>5

\* A tracer starts during a run only, and the run ends after its tracers.
LEMMA PhaseStep ==
    ASSUME MapInv, [Next]_vars
    PROVE  PhaseInv'
<1>0. TypeOK /\ PhaseInv
  BY DEF MapInv
<1>1. mode' = mode
  BY ModeStays
<1>2. ASSUME NEW t \in Tracer,
             \/ handle_random_event(t) \/ get_hash_value(t) \/ Load(t) \/ Store(t)
             \/ ClearZero(t) \/ TracerKilled(t)
      PROVE  PhaseInv'
  <2>1. pc' = pc
    BY <1>2 DEF handle_random_event, get_hash_value, Load, Store, ClearZero, TracerKilled, fuzzer
  <2>2. pc = "run"
    BY <1>0, <1>2, TracersRun
  <2>3. \A u \in Tracer \ {t} : add'[u] = add[u]
    BY <1>0, <1>2 DEF TypeOK, handle_random_event, get_hash_value, Load, Store,
       ClearZero, TracerKilled, Doing, AfterStore
  <2>4. mode # "rr" => add'[t] = Idle \/ add'[t].at = "store"
    <3>1. CASE Load(t)
      BY <1>0, <3>1 DEF TypeOK, Load, Doing
    <3>2. CASE Store(t)
      BY <1>0, <3>2 DEF TypeOK, Store, AfterStore
    <3>3. CASE ClearZero(t) \/ TracerKilled(t)
      BY <1>0, <3>3 DEF TypeOK, ClearZero, TracerKilled
    <3>4. CASE handle_random_event(t) \/ get_hash_value(t)
      BY <1>0, <3>4 DEF PhaseInv, Idle, handle_random_event, get_hash_value
    <3> QED
      BY <1>2, <3>1, <3>2, <3>3, <3>4
  <2> QED
    BY <1>0, <1>1, <2>1, <2>2, <2>3, <2>4 DEF PhaseInv
<1>3. CASE \/ \E t \in Tracer : NotCounted(t)
           \/ has_new_bits \/ Over \/ UNCHANGED vars
  <2>1. UNCHANGED <<pc, add>>
    BY <1>3 DEF NotCounted, has_new_bits, Over, vars, fuzzer
  <2> QED
    BY <1>0, <1>1, <2>1 DEF PhaseInv
<1>4. CASE RunEnds
  <2>1. (\A t \in Tracer : add[t] = Idle) /\ add' = add
        /\ pc' = IF mode # "server" THEN "scan" ELSE "classify"
    BY <1>4 DEF RunEnds, isBranchCoverage
  <2> QED
    BY <1>0, <1>1, <2>1 DEF PhaseInv
<1>5. CASE classify_counts \/ AddInterestingSeed
  <2>1. pc # "run" /\ add' = add /\ pc' # "classify"
    BY <1>5 DEF classify_counts, AddInterestingSeed
  <2> QED
    BY <1>0, <1>1, <2>1 DEF PhaseInv
<1> QED
  BY <1>2, <1>3, <1>4, <1>5 DEF Next

\* Additions may be lost, but none takes a mark away before a byte wraps.
LEMMA CountStep ==
    ASSUME MapInv, [Next]_vars
    PROVE  CountInv'
<1>0. TypeOK /\ PhaseInv /\ CountInv
  BY DEF MapInv
<1>1. mode' = mode /\ Width' = Width /\ Judged' = Judged
  BY ModeStays
<1>2. /\ trace \in [Loc -> Value] /\ hits \in [Loc -> Nat] /\ Judged \subseteq Loc
      /\ add \in [Tracer -> [at : {"idle", "look", "load", "store", "clear"},
                             loc : Int, val : Value]]
      /\ Value \subseteq Nat /\ 2^Width \in Nat /\ 2^Width >= 2 /\ 0 \in Loc
      /\ \A v \in Value : v < 2^Width
      /\ Loc \subseteq Nat
  BY <1>0, WidthFacts, WordFacts DEF TypeOK, Judged, Value
<1>3. ASSUME NEW t \in Tracer, Store(t) PROVE CountInv'
  <2> DEFINE l == add[t].loc
             w == (add[t].val + 1) % 2^Width
  <2>1. /\ w \in Value /\ w <= add[t].val + 1 /\ add[t].val \in Nat
        /\ add[t].val + 1 < 2^Width => w = add[t].val + 1
        /\ pc' = pc
        /\ l \in Loc => trace' = [trace EXCEPT ![l] = w] /\ hits' = [hits EXCEPT ![l] = @ + 1]
        /\ l \notin Loc => trace' = trace /\ hits' = hits
    BY <1>0, <1>3, StoreFacts
  <2>2. l \in Loc => add[t].val <= hits[l]
    BY <1>0, <1>3 DEF CountInv, Store
  <2>3. /\ \A u \in Tracer \ {t} : add'[u] = add[u]
        /\ add'[t].at \notin {"look", "store"}
    BY <1>0, <1>2, <1>3, StoreFacts DEF Idle
  <2> HIDE DEF l, w
  <2>4. ASSUME NEW k \in Loc
        PROVE  /\ trace'[k] # 0 => hits'[k] > 0
               /\ pc' = "run" => trace'[k] <= hits'[k]
               /\ k \in Judged /\ hits'[k] > 0 /\ hits'[k] < 2^Width => trace'[k] # 0
               /\ hits'[k] >= hits[k]
    <3>1. CASE l \in Loc /\ k = l
      <4>1. trace'[k] = w /\ hits'[k] = hits[k] + 1 /\ hits[k] \in Nat
        BY <1>2, <2>1, <3>1
      <4>2. w <= hits[k] + 1
        BY <1>2, <2>1, <2>2, <3>1, <4>1
      <4>3. hits[k] + 1 < 2^Width => w # 0
        BY <1>2, <2>1, <2>2, <3>1, <4>1
      <4> QED
        BY <1>2, <2>1, <4>1, <4>2, <4>3
    <3>2. CASE ~(l \in Loc /\ k = l)
      <4>1. trace'[k] = trace[k] /\ hits'[k] = hits[k] /\ hits[k] \in Nat
        BY <1>2, <2>1, <3>2
      <4> QED
        BY <1>0, <2>1, <4>1 DEF CountInv
    <3> QED
      BY <3>1, <3>2
  <2>5. ASSUME NEW u \in Tracer
        PROVE  /\ add'[u].at = "look" => add'[u].loc \in Loc
               /\ add'[u].at = "store" /\ add'[u].loc \in Loc =>
                      add'[u].val <= hits'[add'[u].loc]
    <3>1. CASE u = t
      BY <2>3, <3>1
    <3>2. CASE u # t
      <4>1. add'[u] = add[u]
        BY <2>3, <3>2
      <4>2. ASSUME add[u].at = "store", add[u].loc \in Loc
            PROVE  add[u].val <= hits'[add[u].loc]
        <5>1. add[u].val <= hits[add[u].loc] /\ add[u].val \in Nat /\ hits[add[u].loc] \in Nat
          BY <1>0, <1>2, <4>2 DEF CountInv
        <5>2. hits'[add[u].loc] >= hits[add[u].loc] /\ hits'[add[u].loc] \in Nat
          BY <1>2, <2>1, <2>4, <4>2
        <5> QED
          BY <5>1, <5>2
      <4> QED
        BY <1>0, <4>1, <4>2 DEF CountInv
    <3> QED
      BY <3>1, <3>2
  <2> QED
    BY <1>1, <1>2, <2>4, <2>5 DEF CountInv
<1>4. ASSUME NEW t \in Tracer, ClearZero(t) \/ NotCounted(t) PROVE CountInv'
  <2>1. mode = "rr"
    BY <1>0, <1>4 DEF PhaseInv, Idle, ClearZero, NotCounted
  <2>2. trace' = [trace EXCEPT ![0] = 0] /\ UNCHANGED <<pc, hits>>
    BY <1>4 DEF ClearZero, NotCounted, fuzzer
  <2>3. \A u \in Tracer : add'[u] = add[u] \/ add'[u] = Idle
    BY <1>2, <1>4 DEF ClearZero, NotCounted
  <2>4. trace'[0] = 0 /\ \A k \in Loc \ {0} : trace'[k] = trace[k]
    BY <1>2, <2>2
  <2>5. 0 \notin Judged
    BY <2>1 DEF Judged
  <2>6. ASSUME NEW k \in Loc
        PROVE  /\ trace'[k] # 0 => hits'[k] > 0
               /\ pc' = "run" => trace'[k] <= hits'[k]
               /\ k \in Judged /\ hits'[k] > 0 /\ hits'[k] < 2^Width => trace'[k] # 0
    <3>1. CASE k = 0
      BY <1>2, <2>2, <2>4, <2>5, <3>1
    <3>2. CASE k # 0
      BY <1>0, <2>2, <2>4, <3>2 DEF CountInv
    <3> QED
      BY <3>1, <3>2
  <2>7. \A u \in Tracer :
            /\ add'[u].at = "look" => add'[u].loc \in Loc
            /\ add'[u].at = "store" /\ add'[u].loc \in Loc =>
                   add'[u].val <= hits'[add'[u].loc]
    BY <1>0, <2>2, <2>3 DEF CountInv, Idle
  <2> QED
    BY <1>1, <1>2, <2>6, <2>7 DEF CountInv
<1>5. ASSUME NEW t \in Tracer, NEW a, UNCHANGED <<trace, hits, pc>>, add' = [add EXCEPT ![t] = a],
             a.at = "look" => a.loc \in Loc,
             a.at = "store" /\ a.loc \in Loc => a.val <= hits[a.loc]
      PROVE  CountInv'
  <2>1. \A u \in Tracer : add'[u] = IF u = t THEN a ELSE add[u]
    BY <1>2, <1>5
  <2> QED
    BY <1>0, <1>1, <1>5, <2>1 DEF CountInv
<1>6. ASSUME NEW t \in Tracer, handle_random_event(t) PROVE CountInv'
  <2>1. PICK l \in Loc : Doing(t, "look", l, 0)
    BY <1>6 DEF handle_random_event
  <2>2. UNCHANGED <<trace, hits, pc>>
    BY <1>6 DEF handle_random_event, fuzzer
  <2> QED
    BY <1>5, <2>1, <2>2 DEF Doing
<1>7. ASSUME NEW t \in Tracer, get_hash_value(t) PROVE CountInv'
  <2>1. PICK h : Doing(t, "load", h, 0)
    BY <1>7 DEF get_hash_value
  <2>2. UNCHANGED <<trace, hits, pc>>
    BY <1>7 DEF get_hash_value, fuzzer
  <2> QED
    BY <1>5, <2>1, <2>2 DEF Doing
<1>8. ASSUME NEW t \in Tracer, Load(t) PROVE CountInv'
  <2>1. PICK l : Doing(t, "store", l, IF l \in Loc THEN trace[l] ELSE 0)
    BY <1>8 DEF Load
  <2>2. UNCHANGED <<trace, hits, pc>>
    BY <1>8 DEF Load, fuzzer
  <2>3. pc = "run"
    BY <1>0, <1>8, TracersRun
  <2>4. l \in Loc => trace[l] <= hits[l]
    BY <1>0, <2>3 DEF CountInv
  <2> DEFINE a == [at |-> "store", loc |-> l, val |-> IF l \in Loc THEN trace[l] ELSE 0]
  <2>5. a.at = "store" /\ a.loc = l /\ (l \in Loc => a.val = trace[l])
    OBVIOUS
  <2>6. add' = [add EXCEPT ![t] = a]
    BY <2>1 DEF Doing
  <2> HIDE DEF a
  <2> QED
    BY <1>5, <2>2, <2>4, <2>5, <2>6
<1>9. ASSUME NEW t \in Tracer, TracerKilled(t) PROVE CountInv'
  <2>1. UNCHANGED <<trace, hits, pc>> /\ add' = [add EXCEPT ![t] = Idle]
    BY <1>9 DEF TracerKilled, fuzzer
  <2> QED
    BY <1>5, <2>1 DEF Idle
<1>10. CASE classify_counts
  <2>1. mode = "server"
    BY <1>0, <1>10 DEF PhaseInv, classify_counts
  <2>2. trace' = [l \in Loc |-> CountClass(trace[l])] /\ UNCHANGED <<hits, add>> /\ pc' = "scan"
    BY <1>10 DEF classify_counts
  <2>3. \A l \in Loc : trace'[l] = 0 <=> trace[l] = 0
    <3>1. Value = 0 .. 255
      BY <2>1, WidthFacts
    <3>2. \A v \in Value : CountClass(v) = 0 <=> v = 0
      BY <3>1, ClassFacts
    <3> QED
      BY <1>2, <2>2, <3>2
  <2> QED
    BY <1>0, <1>1, <1>2, <2>2, <2>3 DEF CountInv
<1>11. CASE AddInterestingSeed
  <2>1. /\ trace' = [l \in Loc |-> 0] /\ hits' = [l \in Loc |-> 0]
        /\ \A t \in Tracer : add'[t] = Idle
    BY <1>0, <1>11 DEF AddInterestingSeed, PhaseInv
  <2> QED
    BY <1>1, <1>2, <2>1 DEF CountInv, Idle
<1>12. CASE RunEnds
  BY <1>0, <1>1, <1>12 DEF CountInv, RunEnds
<1>13. CASE has_new_bits \/ Over \/ UNCHANGED vars
  <2>1. UNCHANGED <<trace, hits, add, pc>>
    BY <1>13 DEF has_new_bits, Over, vars, fuzzer
  <2> QED
    BY <1>0, <1>1, <2>1 DEF CountInv
<1> QED
  BY <1>3, <1>4, <1>6, <1>7, <1>8, <1>9, <1>10, <1>11, <1>12, <1>13 DEF Next

\* rr merges a location into a neighbour: nobody marks one next to a mark, unless
\* two of them were overlapping.
LEMMA MergeStep ==
    ASSUME MapInv, [Next]_vars
    PROVE  NoNeighbours' /\ MergeInv'
<1>0. TypeOK /\ PhaseInv /\ CountInv /\ NoNeighbours /\ MergeInv
  BY DEF MapInv
<1>1. mode' = mode
  BY ModeStays
<1>2. /\ trace \in [Loc -> Value] /\ 0 \in Loc /\ Value \subseteq Nat /\ Loc \subseteq Nat
      /\ add \in [Tracer -> [at : {"idle", "look", "load", "store", "clear"},
                             loc : Int, val : Value]]
  BY <1>0, WidthFacts, WordFacts DEF TypeOK, Value
<1> DEFINE Clear(l) == \A k \in {l - 1, l + 1} \cap Loc : l \in Loc => trace[k] = 0
<1> SUFFICES ASSUME mode = "rr", ~raced'
             PROVE  /\ \A l \in Loc : l + 1 \in Loc => trace'[l] = 0 \/ trace'[l + 1] = 0
                    /\ \A t \in Tracer : add'[t].at \in {"load", "store"} =>
                           \A l \in {add'[t].loc - 1, add'[t].loc + 1} \cap Loc :
                               add'[t].loc \in Loc => trace'[l] = 0
  BY <1>1 DEF NoNeighbours, MergeInv
<1>3. CASE AddInterestingSeed
  BY <1>0, <1>3 DEF AddInterestingSeed, PhaseInv, Idle
<1>4. ASSUME ~AddInterestingSeed
      PROVE  ~raced
  BY <1>4 DEF Next, handle_random_event, get_hash_value, Load, Store, ClearZero, NotCounted,
     TracerKilled, RunEnds, classify_counts, has_new_bits, Over, vars
<1> SUFFICES ASSUME ~raced, ~AddInterestingSeed
             PROVE  /\ \A l \in Loc : l + 1 \in Loc => trace'[l] = 0 \/ trace'[l + 1] = 0
                    /\ \A t \in Tracer : add'[t].at \in {"load", "store"} =>
                           \A l \in {add'[t].loc - 1, add'[t].loc + 1} \cap Loc :
                               add'[t].loc \in Loc => trace'[l] = 0
  BY <1>3, <1>4
<1>5. /\ \A l \in Loc : l + 1 \in Loc => trace[l] = 0 \/ trace[l + 1] = 0
      /\ \A t \in Tracer : add[t].at \in {"load", "store"} => Clear(add[t].loc)
  BY <1>0 DEF NoNeighbours, MergeInv
<1>6. ASSUME \A l \in Loc : trace[l] = 0 => trace'[l] = 0,
             \A t \in Tracer : add'[t].at \in {"load", "store"} => Clear(add'[t].loc)
      PROVE  /\ \A l \in Loc : l + 1 \in Loc => trace'[l] = 0 \/ trace'[l + 1] = 0
             /\ \A t \in Tracer : add'[t].at \in {"load", "store"} =>
                    \A l \in {add'[t].loc - 1, add'[t].loc + 1} \cap Loc :
                        add'[t].loc \in Loc => trace'[l] = 0
  BY <1>5, <1>6
<1>7. ASSUME NEW t \in Tracer, Store(t)
      PROVE  /\ \A l \in Loc : l + 1 \in Loc => trace'[l] = 0 \/ trace'[l + 1] = 0
             /\ \A u \in Tracer : add'[u].at \in {"load", "store"} =>
                    \A l \in {add'[u].loc - 1, add'[u].loc + 1} \cap Loc :
                        add'[u].loc \in Loc => trace'[l] = 0
  <2>1. /\ \A u \in Tracer : add'[u].at \notin {"load", "store"}
    <3>1. \A u \in Tracer \ {t} : add[u].at \notin {"load", "store"}
      BY <1>7 DEF Store, Overlaps
    <3>2. add' = [add EXCEPT ![t] = [at |-> "clear", loc |-> 0, val |-> 0]]
      BY <1>7 DEF Store, AfterStore, Doing
    <3> QED
      BY <1>2, <3>1, <3>2
  <2>2. CASE add[t].loc \in Loc
    <3>1. Clear(add[t].loc)
      BY <1>5, <1>7 DEF Store
    <3>2. \A k \in Loc : k # add[t].loc => trace'[k] = trace[k]
      BY <1>2, <1>7, <2>2 DEF Store
    <3>3. ASSUME NEW l \in Loc, l + 1 \in Loc PROVE trace'[l] = 0 \/ trace'[l + 1] = 0
      <4>1. CASE l = add[t].loc
        BY <1>2, <2>2, <3>1, <3>2, <3>3, <4>1
      <4>2. CASE l + 1 = add[t].loc
        <5>1. l = add[t].loc - 1 /\ l # add[t].loc
          BY <1>2, <4>2
        <5> QED
          BY <2>2, <3>1, <3>2, <3>3, <5>1
      <4>3. CASE l # add[t].loc /\ l + 1 # add[t].loc
        BY <1>5, <3>2, <3>3, <4>3
      <4> QED
        BY <4>1, <4>2, <4>3
    <3> QED
      BY <2>1, <3>3
  <2>3. CASE add[t].loc \notin Loc
    <3>1. trace' = trace
      BY <1>7, <2>3 DEF Store
    <3> QED
      BY <1>5, <2>1, <3>1
  <2> QED
    BY <2>2, <2>3
<1>8. ASSUME NEW t \in Tracer, get_hash_value(t)
      PROVE  \A u \in Tracer : add'[u].at \in {"load", "store"} => Clear(add'[u].loc)
  <2> DEFINE h == add[t].loc
  <2>1. h \in Loc
    BY <1>0, <1>8 DEF CountInv, get_hash_value
  <2>2. PICK below \in Marked(h - 1), above \in Marked(h + 1) :
            add' = [add EXCEPT ![t] = [at |-> "load",
                       loc |-> IF below THEN h - 1 ELSE IF above THEN h + 1 ELSE h, val |-> 0]]
    BY <1>8 DEF get_hash_value, Doing
  <2>3. /\ h - 1 \in Loc => (below <=> trace[h - 1] > 0)
        /\ h + 1 \in Loc => (above <=> trace[h + 1] > 0)
    BY DEF Marked
  <2>4. Clear(add'[t].loc)
    <3> HIDE DEF h
    <3>1. CASE below
      <4>1. add'[t].loc = h - 1
        BY <1>2, <2>2, <3>1
      <4>2. h - 1 \in Loc => trace[h - 1] # 0
        BY <1>2, <2>3, <3>1
      <4>3. h \in Nat /\ (h - 1) + 1 = h /\ ((h - 1) - 1) + 1 = h - 1
        BY <1>2, <2>1
      <4>4. ASSUME NEW k \in {(h - 1) - 1, (h - 1) + 1} \cap Loc, h - 1 \in Loc PROVE trace[k] = 0
        <5>1. CASE k = (h - 1) - 1
          BY <1>5, <4>2, <4>3, <4>4, <5>1
        <5>2. CASE k = (h - 1) + 1
          BY <1>5, <4>2, <4>3, <4>4, <5>2
        <5> QED
          BY <4>4, <5>1, <5>2
      <4> QED
        BY <4>1, <4>4
    <3>2. CASE ~below /\ above
      <4>1. add'[t].loc = h + 1
        BY <1>2, <2>2, <3>2
      <4>2. h + 1 \in Loc => trace[h + 1] # 0
        BY <1>2, <2>3, <3>2
      <4>3. h \in Nat /\ (h + 1) - 1 = h
        BY <1>2, <2>1
      <4>4. ASSUME NEW k \in {(h + 1) - 1, (h + 1) + 1} \cap Loc, h + 1 \in Loc PROVE trace[k] = 0
        <5>1. CASE k = (h + 1) - 1
          BY <1>5, <4>2, <4>3, <4>4, <5>1
        <5>2. CASE k = (h + 1) + 1
          BY <1>5, <4>2, <4>3, <4>4, <5>2
        <5> QED
          BY <4>4, <5>1, <5>2
      <4> QED
        BY <4>1, <4>4
    <3>3. CASE ~below /\ ~above
      <4>1. add'[t].loc = h
        BY <1>2, <2>2, <3>3
      <4>2. \A k \in {h - 1, h + 1} \cap Loc : ~(trace[k] > 0) /\ trace[k] \in Nat
        BY <1>2, <2>3, <3>3
      <4>3. \A k \in {h - 1, h + 1} \cap Loc : trace[k] = 0
        BY <4>2
      <4> QED
        BY <4>1, <4>3
    <3> QED
      BY <3>1, <3>2, <3>3
  <2>5. \A u \in Tracer \ {t} : add'[u] = add[u]
    BY <1>2, <2>2
  <2> QED
    BY <1>5, <2>4, <2>5
<1>9. ASSUME NEW t \in Tracer, get_hash_value(t) \/ Load(t) \/ handle_random_event(t)
                               \/ TracerKilled(t)
      PROVE  trace' = trace
  BY <1>9 DEF get_hash_value, Load, handle_random_event, TracerKilled
<1>10. ASSUME NEW t \in Tracer, Load(t)
       PROVE  \A u \in Tracer : add'[u].at \in {"load", "store"} => Clear(add'[u].loc)
  <2>1. PICK v : add[t].at = "load" /\ add' = [add EXCEPT ![t] = [at |-> "store", loc |-> add[t].loc, val |-> v]]
    BY <1>10 DEF Load, Doing
  <2>2. Clear(add[t].loc)
    BY <1>5, <2>1
  <2>3. add'[t].loc = add[t].loc /\ \A u \in Tracer \ {t} : add'[u] = add[u]
    BY <1>2, <2>1
  <2> QED
    BY <1>5, <2>2, <2>3
<1>11. ASSUME NEW t \in Tracer, \/ handle_random_event(t) \/ TracerKilled(t)
                                \/ ClearZero(t) \/ NotCounted(t)
       PROVE  \A u \in Tracer : add'[u].at \in {"load", "store"} => Clear(add'[u].loc)
  <2>1. /\ add'[t] = add[t] \/ add'[t].at \in {"look", "idle"}
        /\ \A u \in Tracer \ {t} : add'[u] = add[u]
    BY <1>2, <1>11 DEF handle_random_event, TracerKilled, ClearZero, NotCounted, Doing, Idle
  <2> QED
    BY <1>5, <2>1
<1>12. ASSUME NEW t \in Tracer, ClearZero(t) \/ NotCounted(t)
       PROVE  \A l \in Loc : trace[l] = 0 => trace'[l] = 0
  BY <1>2, <1>12 DEF ClearZero, NotCounted
<1>13. CASE RunEnds \/ has_new_bits \/ Over \/ UNCHANGED vars
  <2>1. UNCHANGED <<trace, add>>
    BY <1>13 DEF RunEnds, has_new_bits, Over, vars
  <2> QED
    BY <1>5, <1>6, <2>1
<1>14. ~classify_counts
  BY <1>0 DEF PhaseInv, classify_counts
<1> HIDE DEF Clear
<1> QED
  BY <1>6, <1>7, <1>8, <1>9, <1>10, <1>11, <1>12, <1>13, <1>14 DEF Next

\* Whoever counts at location 0 clears it before it is done.
LEMMA ZeroStep ==
    ASSUME MapInv, [Next]_vars
    PROVE  ZeroInv'
<1>0. TypeOK /\ PhaseInv /\ ZeroInv
  BY DEF MapInv
<1>1. mode' = mode
  BY ModeStays
<1>2. /\ trace \in [Loc -> Value] /\ 0 \in Loc
      /\ add \in [Tracer -> [at : {"idle", "look", "load", "store", "clear"},
                             loc : Int, val : Value]]
  BY <1>0, WordFacts DEF TypeOK
<1> SUFFICES ASSUME mode = "rr", ~cut', trace'[0] # 0
             PROVE  \E t \in Tracer : add'[t].at = "clear"
  BY <1>1 DEF ZeroInv
<1>3. ~AddInterestingSeed
  BY <1>2 DEF AddInterestingSeed
<1>4. ~cut
  BY <1>3 DEF Next, handle_random_event, get_hash_value, Load, Store, ClearZero, NotCounted,
     TracerKilled, RunEnds, classify_counts, has_new_bits, Over, vars
<1>5. ASSUME NEW t \in Tracer, Store(t) PROVE add'[t].at = "clear"
  BY <1>2, <1>5 DEF Store, AfterStore, Doing
<1>6. ASSUME NEW t \in Tracer, ClearZero(t) \/ NotCounted(t) \/ TracerKilled(t) PROVE FALSE
  BY <1>2, <1>6 DEF ClearZero, NotCounted, TracerKilled
<1>7. ASSUME NEW t \in Tracer, handle_random_event(t) \/ get_hash_value(t) \/ Load(t)
      PROVE  \E u \in Tracer : add'[u].at = "clear"
  <2>1. trace' = trace
    BY <1>7 DEF handle_random_event, get_hash_value, Load
  <2>2. PICK u \in Tracer : add[u].at = "clear"
    BY <1>0, <1>4, <2>1 DEF ZeroInv
  <2>3. u # t
    <3>1. add[t].at # "clear"
      <4>1. CASE handle_random_event(t)
        BY <4>1 DEF handle_random_event, Idle
      <4>2. CASE get_hash_value(t)
        BY <4>2 DEF get_hash_value
      <4>3. CASE Load(t)
        BY <4>3 DEF Load, Idle
      <4> QED
        BY <1>7, <4>1, <4>2, <4>3
    <3> QED
      BY <2>2, <3>1
  <2>4. add'[u] = add[u]
    BY <1>2, <1>7, <2>3 DEF handle_random_event, get_hash_value, Load, Doing
  <2> QED
    BY <2>2, <2>4
<1>8. CASE RunEnds \/ has_new_bits \/ Over \/ UNCHANGED vars
  <2>1. UNCHANGED <<trace, add>>
    BY <1>8 DEF RunEnds, has_new_bits, Over, vars
  <2> QED
    BY <1>0, <1>4, <2>1 DEF ZeroInv
<1>9. ~classify_counts
  BY <1>0 DEF PhaseInv, classify_counts
<1> QED
  BY <1>3, <1>5, <1>6, <1>7, <1>8, <1>9 DEF Next

\* A word that is skipped, because no virgin bit of it is set, has no new
\* location either.
LEMMA ScanStep ==
    ASSUME MapInv, [Next]_vars
    PROVE  ScanInv'
<1>0. TypeOK /\ PhaseInv /\ ScanInv
  BY DEF MapInv
<1>1. Bit' = Bit /\ \A v : Bits(v)' = Bits(v)
  BY ModeStays DEF Bits
<1>2. /\ trace \in [Loc -> Value] /\ i \in 0 .. Words /\ ret \in 0 .. 2
      /\ virgin \in [Loc -> SUBSET Bit] /\ old \in [Loc -> SUBSET Bit]
  BY <1>0 DEF TypeOK
<1>3. i = 0 => Seen = {}
  BY WordFacts DEF Seen
<1>4. ASSUME i' = 0, ret' = 0, virgin' = old', old' \in [Loc -> SUBSET Bit] PROVE ScanInv'
  <2>1. Seen' = {}
    BY <1>4, WordFacts DEF Seen
  <2>2. virgin' = [l \in Loc |-> old'[l]]
    BY <1>4
  <2> QED
    BY <1>4, <2>1, <2>2 DEF ScanInv
<1>5. CASE pc # "scan" /\ UNCHANGED <<i, ret, virgin, old>>
  <2>1. i = 0 /\ ret = 0 /\ Seen = {}
    BY <1>0, <1>3, <1>5 DEF ScanInv
  <2>2. virgin = old
    BY <1>0, <1>2, <2>1 DEF ScanInv
  <2> QED
    BY <1>2, <1>4, <1>5, <2>1, <2>2
<1>6. ASSUME NEW t \in Tracer,
             \/ handle_random_event(t) \/ get_hash_value(t) \/ Load(t)
             \/ Store(t) \/ ClearZero(t) \/ NotCounted(t) \/ TracerKilled(t)
      PROVE  ScanInv'
  <2>1. UNCHANGED <<i, ret, virgin, old>>
    BY <1>6 DEF handle_random_event, get_hash_value, Load, Store, ClearZero, NotCounted,
       TracerKilled, fuzzer
  <2>2. pc = "run"
    BY <1>0, <1>6, TracersRun
  <2> QED
    BY <1>5, <2>1, <2>2
<1>7. CASE RunEnds \/ classify_counts
  BY <1>5, <1>7 DEF RunEnds, classify_counts
<1>8. CASE AddInterestingSeed
  BY <1>2, <1>4, <1>8 DEF AddInterestingSeed
<1>9. CASE Over \/ UNCHANGED vars
  <2>1. UNCHANGED <<pc, i, ret, virgin, old, trace>>
    BY <1>9 DEF Over, vars, fuzzer
  <2>2. Seen' = Seen
    BY <2>1 DEF Seen
  <2> QED
    BY <1>0, <1>1, <2>1, <2>2 DEF ScanInv
<1>10. CASE has_new_bits
  <2>1. i < Words /\ i' = i + 1 /\ pc = "scan" /\ UNCHANGED <<pc, trace, old>>
    BY <1>10 DEF has_new_bits
  <2>2. /\ Seen' = Seen \cup Word(i) /\ Seen \cap Word(i) = {}
        /\ Word(i) \subseteq Loc /\ Seen \subseteq Loc
    <3>1. i \in 0 .. Words - 1
      BY <1>2, <2>1
    <3> QED
      BY <2>1, <3>1, WordFacts DEF Seen
  <2>3. /\ \A l \in Word(i) : virgin[l] = old[l]
        /\ \A l \in Loc : virgin[l] = IF l \in Seen THEN old[l] \ Bits(trace[l]) ELSE old[l]
    BY <1>0, <2>2 DEF ScanInv
  <2>4. /\ ret = 2 <=> \E l \in Seen : trace[l] # 0 /\ old[l] = Bit
        /\ ret = 0 <=> \A l \in Seen : Bits(trace[l]) \cap old[l] = {}
    BY <1>0 DEF ScanInv
  <2>5. CASE \E l \in Word(i) : Bits(trace[l]) \cap virgin[l] # {}
    <3>1. /\ ret' = IF ret = 2 \/ \E l \in Word(i) : trace[l] # 0 /\ virgin[l] = Bit
                      THEN 2 ELSE 1
          /\ virgin' = [l \in Loc |-> IF l \in Word(i) THEN virgin[l] \ Bits(trace[l])
                                                      ELSE virgin[l]]
      BY <1>10, <2>5 DEF has_new_bits
    <3>2. ret' = 2 <=> \E l \in Seen' : trace[l] # 0 /\ old[l] = Bit
      BY <2>2, <2>3, <2>4, <3>1
    <3>3. ret' # 0 /\ ~\A l \in Seen' : Bits(trace[l]) \cap old[l] = {}
      BY <2>2, <2>3, <2>5, <3>1
    <3>4. virgin' = [l \in Loc |-> IF l \in Seen' THEN old[l] \ Bits(trace[l]) ELSE old[l]]
      BY <2>2, <2>3, <3>1
    <3> QED
      BY <1>1, <2>1, <3>2, <3>3, <3>4 DEF ScanInv
  <2>6. CASE ~\E l \in Word(i) : Bits(trace[l]) \cap virgin[l] # {}
    <3>1. UNCHANGED <<ret, virgin>>
      BY <1>10, <2>6 DEF has_new_bits
    <3>2. \A l \in Word(i) : Bits(trace[l]) \cap old[l] = {}
      BY <2>3, <2>6
    <3>3. \A l \in Word(i) : ~(trace[l] # 0 /\ old[l] = Bit)
      <4> SUFFICES ASSUME NEW l \in Word(i), trace[l] # 0, old[l] = Bit PROVE FALSE
        OBVIOUS
      <4>1. trace[l] \in Value
        BY <1>2, <2>2
      <4>2. Bits(trace[l]) \subseteq Bit /\ Bits(trace[l]) # {}
        BY <4>1, BitsOfByte
      <4> QED
        BY <3>2, <4>2
    <3>4. ret' = 2 <=> \E l \in Seen' : trace[l] # 0 /\ old[l] = Bit
      BY <2>2, <2>4, <3>1, <3>3
    <3>5. ret' = 0 <=> \A l \in Seen' : Bits(trace[l]) \cap old[l] = {}
      BY <2>2, <2>4, <3>1, <3>2
    <3>6. virgin' = [l \in Loc |-> IF l \in Seen' THEN old[l] \ Bits(trace[l]) ELSE old[l]]
      <4>1. \A l \in Word(i) : old[l] \ Bits(trace[l]) = old[l]
        BY <3>2
      <4>2. \A l \in Loc : virgin'[l] = IF l \in Seen' THEN old[l] \ Bits(trace[l]) ELSE old[l]
        BY <2>2, <2>3, <3>1, <4>1
      <4>3. virgin' = [l \in Loc |-> virgin'[l]]
        BY <1>2, <3>1
      <4> QED
        BY <4>2, <4>3
    <3> QED
      BY <1>1, <2>1, <3>4, <3>5, <3>6 DEF ScanInv
  <2> QED
    BY <2>5, <2>6
<1> QED
  BY <1>6, <1>7, <1>8, <1>9, <1>10 DEF Next

\* What is used up stays used up, and there are only so many locations and bits.
LEMMA UsedFacts ==
    ASSUME TypeOK, ScanInv
    PROVE  /\ IsFiniteSet(Used(old)) /\ IsFiniteSet(Used(virgin))
           /\ Cardinality(Used(old)) \in Nat /\ Cardinality(Used(virgin)) \in Nat
           /\ Used(old) \subseteq Used(virgin)
           /\ Cardinality(Used(old)) <= Cardinality(Used(virgin))
           /\ Used(old) # Used(virgin) => Cardinality(Used(old)) + 1 <= Cardinality(Used(virgin))
<1>1. IsFiniteSet(Loc) /\ IsFiniteSet(Bit)
  BY WordFacts, WidthFacts, FS_Interval DEF Bit
<1>2. IsFiniteSet(Loc \X Bit)
  BY <1>1, FS_Product
<1>3. Used(old) \subseteq Used(virgin)
  <2>1. \A l \in Loc : virgin[l] \subseteq old[l] /\ old[l] \subseteq Bit
    BY DEF ScanInv, TypeOK
  <2>2. CASE isBranchCoverage
    BY <2>1, <2>2 DEF Used
  <2>3. CASE ~isBranchCoverage
    BY <2>1, <2>3 DEF Used
  <2> QED
    BY <2>2, <2>3
<1>4. Used(virgin) \subseteq Loc \/ Used(virgin) \subseteq Loc \X Bit
  BY DEF Used
<1>5. IsFiniteSet(Used(virgin))
  BY <1>1, <1>2, <1>4, FS_Subset
<1> QED
  BY <1>3, <1>5, FS_Subset, FS_CardinalityType

\* What the loop has found at its end.
LEMMA ScanEnds ==
    ASSUME TypeOK, ScanInv, i = Words
    PROVE  /\ ret = 2 <=> \E l \in Loc : trace[l] # 0 /\ old[l] = Bit
           /\ ret = 0 <=> \A l \in Loc : Bits(trace[l]) \cap old[l] = {}
           /\ virgin = [l \in Loc |-> old[l] \ Bits(trace[l])]
<1>1. Seen = Loc
  BY WordFacts DEF Seen
<1> QED
  BY <1>1 DEF ScanInv

\* An input is kept for what it used up.
LEMMA KeptUsesUp ==
    ASSUME TypeOK, ScanInv, i = Words, newBitFlag # 0
    PROVE  Used(old) # Used(virgin)
<1>0. trace \in [Loc -> Value] /\ ret \in 0 .. 2 /\ old \in [Loc -> SUBSET Bit]
  BY DEF TypeOK
<1>1. CASE isBranchCoverage
  <2>1. PICK l \in Loc : trace[l] # 0 /\ old[l] = Bit
    BY <1>1, ScanEnds DEF newBitFlag
  <2>2. Bits(trace[l]) \subseteq Bit /\ Bits(trace[l]) # {}
    BY <1>0, <2>1, BitsOfByte
  <2>3. virgin[l] # Bit
    BY <2>1, <2>2, ScanEnds
  <2> QED
    BY <1>1, <2>1, <2>3 DEF Used
<1>2. CASE ~isBranchCoverage
  <2>1. PICK l \in Loc : Bits(trace[l]) \cap old[l] # {}
    BY <1>2, ScanEnds DEF newBitFlag
  <2>2. PICK b : b \in Bits(trace[l]) /\ b \in old[l]
    BY <2>1
  <2>3. b \in Bit /\ b \notin virgin[l]
    BY <1>0, <2>2, ScanEnds
  <2>4. <<l, b>> \in Used(virgin) /\ <<l, b>> \notin Used(old)
    BY <1>2, <2>2, <2>3 DEF Used
  <2> QED
    BY <2>4
<1> QED
  BY <1>1, <1>2

\* A run is judged once, against what earlier runs have left.
LEMMA PastStep ==
    ASSUME MapInv, [Next]_vars
    PROVE  PastInv'
<1>0. TypeOK /\ CountInv /\ ScanInv /\ PastInv
  BY DEF MapInv
<1>1. Bit' = Bit /\ isBranchCoverage' = isBranchCoverage
  BY ModeStays
<1>2. CASE AddInterestingSeed
  <2>1. /\ i = Words /\ old' = virgin /\ known' = known \cup {l \in Loc : hits[l] > 0}
        /\ kept' = kept + (IF newBitFlag # 0 THEN 1 ELSE 0)
    BY <1>2 DEF AddInterestingSeed
  <2>2. ASSUME NEW l \in Loc, virgin[l] # Bit PROVE l \in known'
    <3>1. CASE old[l] # Bit
      BY <1>0, <2>1, <3>1 DEF PastInv
    <3>2. CASE old[l] = Bit
      <4>1. Bits(trace[l]) # {}
        BY <1>0, <2>1, <2>2, <3>2, ScanEnds
      <4>2. trace[l] # 0
        BY <1>0, <4>1, BitsOfByte DEF TypeOK
      <4> QED
        BY <1>0, <2>1, <4>2 DEF CountInv
    <3> QED
      BY <3>1, <3>2
  <2>3. kept' <= Cardinality(Used(virgin))
    <3>0. kept \in Nat /\ kept <= Cardinality(Used(old))
      BY <1>0 DEF TypeOK, PastInv
    <3>1. CASE newBitFlag = 0
      BY <1>0, <2>1, <3>0, <3>1, UsedFacts
    <3>2. CASE newBitFlag # 0
      BY <1>0, <2>1, <3>0, <3>2, UsedFacts, KeptUsesUp
    <3> QED
      BY <3>1, <3>2
  <2>4. Used(old)' = Used(virgin)
    <3>1. CASE isBranchCoverage
      BY <1>1, <2>1, <3>1 DEF Used
    <3>2. CASE ~isBranchCoverage
      BY <1>1, <2>1, <3>2 DEF Used
    <3> QED
      BY <3>1, <3>2
  <2> QED
    BY <1>1, <2>1, <2>2, <2>3, <2>4 DEF PastInv
<1>3. ASSUME ~AddInterestingSeed PROVE UNCHANGED <<old, known, kept>>
  BY <1>3 DEF Next, handle_random_event, get_hash_value, Load, Store, ClearZero, NotCounted,
     TracerKilled, RunEnds, classify_counts, has_new_bits, Over, vars, fuzzer
<1>4. CASE UNCHANGED <<old, known, kept>>
  <2>1. Used(old)' = Used(old)
    <3>1. CASE isBranchCoverage
      BY <1>1, <1>4, <3>1 DEF Used
    <3>2. CASE ~isBranchCoverage
      BY <1>1, <1>4, <3>2 DEF Used
    <3> QED
      BY <3>1, <3>2
  <2> QED
    BY <1>0, <1>1, <1>4, <2>1 DEF PastInv
<1> QED
  BY <1>2, <1>3, <1>4

-----------------------------------------------------------------------------
(***************************************************************************)
(* Theorems                                                                *)
(***************************************************************************)

\* MapInv holds in every reachable state of the map.
THEOREM MapInvariant == Spec => []MapInv
<1>1. Init => MapInv
  BY InitEstablishesInv
<1>2. MapInv /\ [Next]_vars => MapInv'
  BY TypeStep, PhaseStep, CountStep, MergeStep, ZeroStep, ScanStep, PastStep DEF MapInv
<1> QED
  BY <1>1, <1>2, PTL DEF Spec

\* The map is honest about its hits, however many tracers add to it without a
\* lock.
THEOREM MapsTellHits == Spec => []MapIsHonest
<1>1. MapInv => MapIsHonest
  <2> SUFFICES ASSUME MapInv, NEW l \in Judged, hits[l] < 2^Width
               PROVE  trace[l] # 0 <=> hits[l] > 0
    BY DEF MapIsHonest
  <2>1. l \in Loc
    BY DEF Judged
  <2> QED
    BY <2>1 DEF MapInv, CountInv
<1> QED
  BY <1>1, MapInvariant, PTL

\* rr's merging leaves no two neighbours marked, unless two tracers overlap.
THEOREM NeighboursMerge == Spec => []NoNeighbours
<1>1. MapInv => NoNeighbours
  BY DEF MapInv
<1> QED
  BY <1>1, MapInvariant, PTL

\* Between calls rr leaves location 0 clean, unless a tracer was killed in one.
THEOREM ZeroStaysClean == Spec => []ZeroIsClean
<1>1. MapInv => ZeroIsClean
  BY DEF MapInv, ZeroInv, ZeroIsClean, Idle
<1> QED
  BY <1>1, MapInvariant, PTL

\* The loop over words finds what is new in the map, for every size of a word.
THEOREM LoopIsExact == Spec => []NewBitsExact
<1>1. MapInv => NewBitsExact
  BY ScanEnds DEF MapInv, NewBitsExact
<1> QED
  BY <1>1, MapInvariant, PTL

\* No more inputs are kept than there are locations with -b, or bits without.
THEOREM QueueIsPaidFor == Spec => []KeptIsPaidFor
<1>1. MapInv => KeptIsPaidFor
  <2> SUFFICES ASSUME MapInv PROVE kept <= Cardinality(Used(virgin))
    BY DEF KeptIsPaidFor
  <2>1. kept \in Nat /\ kept <= Cardinality(Used(old))
    BY DEF MapInv, TypeOK, PastInv
  <2> QED
    BY <2>1, UsedFacts DEF MapInv
<1> QED
  BY <1>1, MapInvariant, PTL

\* An input that reaches a new location is kept, from the tracers' additions to
\* AddInterestingSeed.
THEOREM NewLocationsAreKept == Spec => FreshIsKept
<1>1. ASSUME MapInv, [Next]_vars, runs' # runs,
             NEW l \in Judged \ known, hits[l] \in 1 .. 2^Width - 1
      PROVE  kept' = kept + 1
  <2>1. AddInterestingSeed
    BY <1>1 DEF Next, handle_random_event, get_hash_value, Load, Store, ClearZero, NotCounted,
       TracerKilled, RunEnds, classify_counts, has_new_bits, Over, vars, fuzzer
  <2>2. TypeOK /\ CountInv /\ ScanInv /\ PastInv /\ i = Words /\ l \in Loc
    BY <1>1, <2>1 DEF MapInv, AddInterestingSeed, Judged
  <2>3. trace[l] # 0
    <3>1. hits[l] > 0 /\ hits[l] < 2^Width
      BY <1>1, WidthFacts
    <3> QED
      BY <1>1, <2>2, <3>1 DEF CountInv
  <2>4. old[l] = Bit
    BY <1>1, <2>2 DEF PastInv
  <2>5. ret = 2
    BY <2>2, <2>3, <2>4, ScanEnds
  <2> QED
    BY <2>1, <2>5 DEF AddInterestingSeed, newBitFlag
<1>2. MapInv /\ [Next]_vars
        => [runs' # runs /\ (\E l \in Judged \ known : hits[l] \in 1 .. 2^Width - 1)
              => kept' = kept + 1]_vars
  BY <1>1
<1> QED
  BY <1>2, MapInvariant, PTL DEF Spec, FreshIsKept

=============================================================================
