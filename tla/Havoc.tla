------------------------------- MODULE Havoc --------------------------------
(***************************************************************************)
(* The mutation stages of the fuzzer that run: Havoc and Splice on a seed  *)
(* of the queue (FuzzMain).  Bytes are abstracted away; what is kept is    *)
(* the length of the input, the size of the buffer it is in, every range   *)
(* that is read or written, and the number of rounds.                      *)
(*                                                                         *)
(* skip_deterministic is true (Main.cpp:56) and nothing clears it, so the  *)
(* deterministic stages do not run; only they find tokens, so cases 15 and *)
(* 16 of Havoc are never drawn.  FuzzUnit returns 0, so no stage fails.    *)
(***************************************************************************)
EXTENDS Integers, Sequences

CONSTANTS
    Small, Medium, Large, XL,   \* HAVOC_BLK_*
    MaxFile,                    \* MAX_FILE_LEN
    StackPow,                   \* HAVOC_STACK_POW2
    HavocTime, SpliceTime,      \* rounds of Havoc in FuzzMain and in Splice
    MaxTime,                    \* HAVOC_CYCLES_INIT * HAVOC_MAX_MULT
    SpliceCycles,               \* SPLICE_CYCLES
    Lengths,                    \* lengths of the first seeds
    MaxQueue                    \* bound: seeds in the queue

ASSUME HavocAssumption ==
    /\ Small \in Nat \ {0} /\ Medium \in Nat /\ Large \in Nat /\ XL \in Nat
    /\ Small <= Medium /\ Medium <= Large /\ Large <= XL
    /\ MaxFile \in Nat /\ StackPow \in Nat \ {0} /\ SpliceCycles \in Nat /\ MaxQueue \in Nat
    /\ HavocTime \in Nat /\ SpliceTime \in Nat /\ MaxTime \in Nat
    /\ HavocTime < 2 * MaxTime /\ SpliceTime < 2 * MaxTime
    /\ Lengths \subseteq Nat

VARIABLES
    queue,         \* fileLen of each seed
    cur,           \* qCur
    pc,            \* "pick", "round", "mutate", "splice" or "exit"
    len,           \* the input Havoc was called with
    temp_len,
    room,          \* allocated size of *uniq_ptr
    i, havoc_time, queue_init_size,
    left,          \* mutations left in this round
    splicing,      \* was Havoc called by Splice?
    own_room,      \* allocated size of outBuf, while Splice runs
    splice_cycles,
    safe           \* history: every range so far was inside its buffer

vars == <<queue, cur, pc, len, temp_len, room, i, havoc_time, queue_init_size, left,
          splicing, own_room, splice_cycles, safe>>

Init ==
    /\ queue \in [1 .. 2 -> Lengths] /\ cur = 1 /\ pc = "pick"
    /\ len = 0 /\ temp_len = 0 /\ room = 0 /\ i = 0 /\ havoc_time = 0
    /\ queue_init_size = 0 /\ left = 0 /\ splicing = FALSE /\ own_room = 0
    /\ splice_cycles = 0 /\ safe = TRUE

-----------------------------------------------------------------------------

randNum(d) == IF d = 0 THEN {0} ELSE 0 .. d - 1

Least(a, b) == IF a < b THEN a ELSE b

\* The values choose_block_len may return.  The ranges grow with queueCycle;
\* this is what it draws from once queueCycle is 3.
choose_block_len(limit) ==
    UNION {LET low == IF b[1] >= limit THEN 1 ELSE b[1]
           IN  {low + r : r \in randNum(Least(b[2], limit) - low + 1)}
           : b \in {<<1, Small>>, <<Small, Medium>>, <<Medium, Large>>, <<Large, XL>>}}

\* n bytes at offset "at" lie inside "size" bytes.
Fits(at, n, size) == 0 <= at /\ 0 <= n /\ at + n <= size

\* Havoc is called on a new buffer of n bytes.
Call(n, time) ==
    /\ len' = n /\ temp_len' = n /\ room' = n
    /\ i' = 0 /\ havoc_time' = time /\ queue_init_size' = Len(queue)
    /\ left' = 0 /\ pc' = "round"

\* FuzzMain does not skip the seed.  An empty file cannot be mapped.
FuzzMain ==
    /\ pc = "pick"
    /\ \E s \in 1 .. Len(queue) : queue[s] > 0 /\ cur' = s /\ Call(queue[s], HavocTime)
    /\ splicing' = FALSE /\ own_room' = 0 /\ splice_cycles' = 0
    /\ UNCHANGED <<queue, safe>>

\* A round begins: mutate_time is drawn.
Round ==
    /\ pc = "round" /\ i < havoc_time
    /\ \E p \in randNum(StackPow) : left' = 2^(1 + p)
    /\ pc' = "mutate"
    /\ UNCHANGED <<queue, cur, len, temp_len, room, i, havoc_time, queue_init_size,
                   splicing, own_room, splice_cycles, safe>>

Mutate == pc = "mutate" /\ left > 0 /\ left' = left - 1
Else == <<queue, cur, pc, len, i, havoc_time, queue_init_size, splicing, own_room, splice_cycles>>

\* Cases 0 to 10 change one, two or four bytes in place.
Overwrite ==
    /\ Mutate
    /\ \E w \in {1, 2, 4} :
           /\ w > 1 => temp_len >= w
           /\ \E at \in randNum(temp_len - w + 1) : safe' = (safe /\ Fits(at, w, temp_len))
    /\ UNCHANGED <<Else, temp_len, room>>

\* Cases that need two or four bytes do nothing on a shorter input.
TooShort ==
    /\ Mutate /\ temp_len < 4
    /\ UNCHANGED <<Else, temp_len, room, safe>>

\* Cases 11 and 12.
Delete ==
    /\ Mutate /\ temp_len >= 2
    /\ \E del_len \in choose_block_len(temp_len - 1) :
       \E del_from \in randNum(temp_len - del_len + 1) :
           /\ safe' = (safe /\ Fits(del_from, temp_len - del_from - del_len, room)
                            /\ Fits(del_from + del_len, temp_len - del_from - del_len, temp_len))
           /\ temp_len' = temp_len - del_len
    /\ UNCHANGED <<Else, room>>

\* A faulty insertion that looks at the length before it only.
CloneAnyway ==
    /\ Mutate /\ temp_len < MaxFile
    /\ \E clone_len \in choose_block_len(XL), clone_to \in randNum(temp_len) :
           /\ room' = temp_len + clone_len /\ temp_len' = temp_len + clone_len
           /\ safe' = (safe /\ Fits(clone_to, clone_len, room'))
    /\ UNCHANGED Else

\* Case 13: a block of the input, or of one value, is inserted in a new buffer.
Clone ==
    /\ Mutate /\ temp_len + XL < MaxFile
    /\ \E actually_clone \in BOOLEAN :
       \E clone_len \in choose_block_len(IF actually_clone THEN temp_len ELSE XL) :
       \E clone_from \in (IF actually_clone THEN randNum(temp_len - clone_len + 1) ELSE {0}),
          clone_to \in randNum(temp_len) :
           /\ room' = temp_len + clone_len
           /\ safe' = (safe /\ Fits(0, clone_to, temp_len)
                            /\ (actually_clone => Fits(clone_from, clone_len, temp_len)))
           /\ temp_len' = temp_len + clone_len
    /\ UNCHANGED Else

TooLong ==
    /\ Mutate /\ temp_len + XL >= MaxFile
    /\ UNCHANGED <<Else, temp_len, room, safe>>

\* Case 14: a block is copied, or set to one value, in place.
Copy ==
    /\ Mutate /\ temp_len >= 2
    /\ \E copy_len \in choose_block_len(temp_len - 1) :
       \E copy_from, copy_to \in randNum(temp_len - copy_len + 1) :
           safe' = (safe /\ Fits(copy_from, copy_len, temp_len)
                         /\ Fits(copy_to, copy_len, temp_len))
    /\ UNCHANGED <<Else, temp_len, room>>

\* A faulty end of a round that never makes a new buffer.
ExecuteSameBuffer ==
    /\ pc = "mutate" /\ left = 0
    /\ \E q \in {queue} \cup (IF Len(queue) < MaxQueue THEN {Append(queue, temp_len)} ELSE {}) :
           /\ queue' = q /\ queue_init_size' = Len(q)
           /\ havoc_time' = IF Len(q) > queue_init_size /\ havoc_time < MaxTime
                              THEN havoc_time * 2 ELSE havoc_time
    /\ room' = room
    /\ safe' = (safe /\ Fits(0, temp_len, room) /\ Fits(0, len, room'))
    /\ temp_len' = len /\ i' = i + 1 /\ pc' = "round"
    /\ UNCHANGED <<cur, len, left, splicing, own_room, splice_cycles>>

\* A faulty end of a round that goes on for as long as something is found or not.
ExecuteNoCount ==
    /\ pc = "mutate" /\ left = 0
    /\ room' = IF temp_len < len THEN len ELSE room
    /\ safe' = (safe /\ Fits(0, temp_len, room) /\ Fits(0, len, room'))
    /\ temp_len' = len /\ pc' = "round"
    /\ UNCHANGED <<queue, cur, len, i, havoc_time, queue_init_size, left, splicing,
                   own_room, splice_cycles>>

\* The end of a round: the input is executed and perhaps kept, the seed is put
\* back, and the rounds are doubled if something was kept.
Execute ==
    /\ pc = "mutate" /\ left = 0
    /\ \E q \in {queue} \cup (IF Len(queue) < MaxQueue THEN {Append(queue, temp_len)} ELSE {}) :
           /\ queue' = q /\ queue_init_size' = Len(q)
           /\ havoc_time' = IF Len(q) > queue_init_size /\ havoc_time < MaxTime
                              THEN havoc_time * 2 ELSE havoc_time
    /\ room' = IF temp_len < len THEN len ELSE room
    /\ safe' = (safe /\ Fits(0, temp_len, room) /\ Fits(0, len, room'))
    /\ temp_len' = len /\ i' = i + 1 /\ pc' = "round"
    /\ UNCHANGED <<cur, len, left, splicing, own_room, splice_cycles>>

\* Havoc returns, to FuzzMain or to Splice.
Return ==
    /\ pc = "round" /\ i >= havoc_time
    /\ pc' = IF ~splicing /\ (Len(queue) <= 1 \/ len <= 1) THEN "pick" ELSE "splice"
    /\ own_room' = IF splicing THEN own_room ELSE room
    /\ UNCHANGED <<queue, cur, len, temp_len, room, i, havoc_time, queue_init_size, left,
                   splicing, splice_cycles, safe>>

\* The seeds that the search from a random other seed can stop at.
Others ==
    {k \in 1 .. Len(queue) : queue[k] >= 2 /\ \E o \in 1 .. k :
         o # cur /\ \A h \in o .. k - 1 : queue[h] < 2}

\* A cycle without a splice: no other seed, or no two differences far enough.
SpliceNothing ==
    /\ pc = "splice" /\ splice_cycles < SpliceCycles
    /\ splice_cycles' = splice_cycles + 1
    /\ UNCHANGED <<queue, cur, pc, len, temp_len, room, i, havoc_time, queue_init_size,
                   left, splicing, own_room, safe>>

\* The head of the seed replaces the head of another one, up to a place between
\* the first and the last difference.  With itself a seed has no difference.
Splice ==
    /\ pc = "splice" /\ splice_cycles < SpliceCycles
    /\ splice_cycles' = splice_cycles + 1
    /\ \E k \in Others \ {cur} :
       LET n == Least(queue[cur], queue[k]) IN
       \E f_diff, l_diff \in 0 .. n - 1 :
           /\ l_diff >= 2 /\ f_diff < l_diff
           /\ \E r \in randNum(l_diff - f_diff) :
                  safe' = (safe /\ Fits(0, n, own_room) /\ Fits(0, f_diff + r, queue[k]))
           /\ Call(queue[k], SpliceTime)
    /\ splicing' = TRUE
    /\ UNCHANGED <<queue, cur, own_room>>

SpliceDone ==
    /\ pc = "splice" /\ splice_cycles >= SpliceCycles
    /\ pc' = "pick"
    /\ UNCHANGED <<queue, cur, len, temp_len, room, i, havoc_time, queue_init_size, left,
                   splicing, own_room, splice_cycles, safe>>

\* The fuzzer ends if the file of the seed is empty.
Exit ==
    /\ pc = "pick" /\ \E s \in 1 .. Len(queue) : queue[s] = 0
    /\ pc' = "exit"
    /\ UNCHANGED <<queue, cur, len, temp_len, room, i, havoc_time, queue_init_size, left,
                   splicing, own_room, splice_cycles, safe>>

Over == pc = "exit" /\ UNCHANGED vars

Stage == \/ Round \/ Overwrite \/ TooShort \/ Delete \/ Clone \/ TooLong \/ Copy
         \/ Execute \/ Return \/ SpliceNothing \/ Splice \/ SpliceDone

Next == FuzzMain \/ Stage \/ Exit \/ Over

\* The fuzzer keeps running.
Fairness == WF_vars(Stage)

Spec == Init /\ [][Next]_vars /\ Fairness

-----------------------------------------------------------------------------
(***************************************************************************)
(* Properties                                                              *)
(***************************************************************************)

\* Every range that the mutations, the restoring of the seed and the splicing
\* read or write lies inside its buffer, whatever lengths the mutations of a
\* round have gone through (lines 793-1139 and 1163-1225 of FuzzOne.cpp).
InBounds == safe

\* A length of a first seed, or of what mutations may make of it.
Allowed(n) == n \in Lengths \/ n \in 1 .. MaxFile - 1 \/ \E l \in Lengths : n \in 1 .. l

\* No mutation makes an empty input, and none makes one of MAX_FILE_LEN or more
\* from shorter ones: that bounds what enters the queue (lines 947-958).
LengthsBounded == \A k \in 1 .. Len(queue) : Allowed(queue[k])

\* However many inputs are kept, the rounds are doubled to less than twice the
\* limit (lines 1126-1135).
RoundsBounded == havoc_time < 2 * MaxTime \/ havoc_time = 0

\* The inductive invariant behind InBounds: the input is never empty and fits
\* its buffer, at the start of a round it is the seed again, and the buffer that
\* Splice reads holds at least the seed it belongs to (lines 803, 947-992,
\* 1117-1124 and 1207-1215).
HavocInv ==
    /\ queue \in Seq(Nat) /\ safe
    /\ splicing \in BOOLEAN
    /\ temp_len \in Nat /\ len \in Nat /\ room \in Nat /\ own_room \in Nat
    /\ pc \in {"pick", "round", "mutate", "splice", "exit"}
    /\ pc \in {"round", "mutate", "splice"} =>
           /\ cur \in 1 .. Len(queue)
           /\ len > 0 /\ temp_len > 0 /\ temp_len <= room
           /\ pc = "round" => temp_len = len
           /\ IF splicing \/ pc = "splice" THEN queue[cur] <= own_room
                                            ELSE len = queue[cur]

\* What LengthsBounded needs: it also holds of the input that is being mutated
\* and of the one that is put back (lines 803, 947-958 and 1117-1124).
LengthInv ==
    /\ LengthsBounded
    /\ pc \in {"round", "mutate"} => Allowed(temp_len) /\ Allowed(len)

\* A stage gets on: a cycle of Splice is used up, or the rounds of a call are
\* over, or one more of them is, or one begins, or one of its mutations is done.
GetsOn ==
    \/ splice_cycles < SpliceCycles /\ splice_cycles' = splice_cycles + 1
    \/ /\ splice_cycles' = splice_cycles
       /\ \/ pc = "round" /\ pc' = "splice"
          \/ i' = i + 1 /\ i' <= 2 * MaxTime /\ pc = "mutate" /\ pc' = "round"
          \/ i' = i /\ pc = "round" /\ pc' = "mutate"
          \/ i' = i /\ pc = "mutate" /\ pc' = "mutate" /\ left > 0 /\ left' = left - 1

\* Until the seed is done with, every step of Havoc and Splice gets on, and
\* nothing that is found takes back more than the limit on the rounds allows
\* (lines 806, 1126-1135 and 1172).
StagesGetOn == [][Stage /\ pc' # "pick" => GetsOn /\ left' \in Nat]_vars

\* What StagesGetOn needs: the rounds that are over have been allowed for.
RoundInv ==
    /\ i \in Nat /\ havoc_time \in Nat /\ left \in Nat /\ splice_cycles \in Nat
    /\ pc = "mutate" => i < havoc_time

\* The mutation of a seed comes to an end, although what it finds prolongs it
\* (lines 806, 1130 and 1172).
SeedEnds == pc = "round" ~> pc = "pick"

=============================================================================
