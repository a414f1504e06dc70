---------------------------- MODULE HavocProofs -----------------------------
(***************************************************************************)
(* The mutation stages stay inside their buffers, for every length of the  *)
(* seeds, every size of blocks, every number of mutations and rounds.      *)
(***************************************************************************)
EXTENDS Havoc, SequenceTheorems, FiniteSetTheorems, TLAPS

\* Zenon is tried first, then SMT, then Zenon for longer.
USE ZenonT(5), SMTT(15), ZenonT(20)

\* What randNum draws.
LEMMA RandNumRange ==
    ASSUME NEW d \in Nat, NEW r \in randNum(d)
    PROVE  r \in Nat /\ (d > 0 => r < d) /\ (d = 0 => r = 0)
  BY DEF randNum

\* A block is not empty and not longer than the limit, if that is not 0, and
\* never longer than HAVOC_BLK_XL.
LEMMA BlockLenRange ==
    ASSUME NEW limit \in Nat \ {0}, NEW n \in choose_block_len(limit)
    PROVE  n \in 1 .. limit /\ n <= XL
<1> DEFINE Ranges == {<<1, Small>>, <<Small, Medium>>, <<Medium, Large>>, <<Large, XL>>}
           low(b) == IF b[1] >= limit THEN 1 ELSE b[1]
<1>1. PICK b \in Ranges : n \in {low(b) + r : r \in randNum(Least(b[2], limit) - low(b) + 1)}
  BY DEF choose_block_len
<1>2. b[1] \in Nat \ {0} /\ b[2] \in Nat /\ b[1] <= b[2] /\ b[2] <= XL
  BY HavocAssumption
<1>3. PICK r \in randNum(Least(b[2], limit) - low(b) + 1) : n = low(b) + r
  BY <1>1
<1>4. /\ low(b) \in Nat \ {0} /\ low(b) <= limit /\ low(b) <= Least(b[2], limit)
      /\ Least(b[2], limit) \in Nat /\ Least(b[2], limit) <= limit /\ Least(b[2], limit) <= XL
  BY <1>2, HavocAssumption DEF Least
<1>5. r \in Nat /\ r < Least(b[2], limit) - low(b) + 1
  BY <1>3, <1>4, RandNumRange
<1> HIDE DEF low
<1> QED
  BY <1>3, <1>4, <1>5, HavocAssumption

\* Before the first seed.
LEMMA HavocInit == Init => HavocInv
<1> SUFFICES ASSUME Init PROVE HavocInv
  OBVIOUS
<1>1. queue \in [1 .. 2 -> Nat]
  BY HavocAssumption DEF Init
<1>2. queue \in Seq(Nat)
  BY <1>1, SeqDef
<1>3. safe
  BY DEF Init
<1> QED
  BY <1>2, <1>3 DEF Init, HavocInv

\* What the invariant says where Splice begins: the buffer holds the seed (lines
\* 1163-1207).
LEMMA SpliceHolds ==
    HavocInv /\ pc = "splice" =>
        /\ queue \in Seq(Nat) /\ cur \in 1 .. Len(queue) /\ own_room \in Nat
        /\ queue[cur] <= own_room
BY DEF HavocInv

\* A call of Havoc on a seed, from FuzzMain or from Splice.
LEMMA CallInv == HavocInv /\ (FuzzMain \/ Splice) => HavocInv'
<1> SUFFICES ASSUME HavocInv, FuzzMain \/ Splice PROVE HavocInv'
  OBVIOUS
<1>1. CASE FuzzMain
  <2>1. PICK s \in 1 .. Len(queue) : queue[s] > 0 /\ cur' = s /\ Call(queue[s], HavocTime)
    BY <1>1 DEF FuzzMain
  <2>2. queue' = queue /\ splicing' = FALSE /\ own_room' = 0 /\ safe'
    BY <1>1 DEF FuzzMain, HavocInv
  <2>3. queue[s] \in Nat
    BY DEF HavocInv
  <2>4. /\ len' = queue[s] /\ temp_len' = queue[s] /\ room' = queue[s] /\ pc' = "round"
        /\ cur' = s
    BY <2>1 DEF Call
  <2>5. ~splicing' /\ splicing' \in BOOLEAN
    BY <2>2, Zenon
  <2>6. queue' \in Seq(Nat) /\ cur' \in 1 .. Len(queue') /\ queue'[cur'] = queue[s]
    BY <2>2, <2>4 DEF HavocInv
  <2> QED
    BY <2>1, <2>2, <2>3, <2>4, <2>5, <2>6 DEF HavocInv
<1>2. CASE Splice
  <2>1. PICK k \in Others \ {cur} :
          \E f_diff, l_diff \in 0 .. Least(queue[cur], queue[k]) - 1 :
             /\ l_diff >= 2 /\ f_diff < l_diff
             /\ \E r \in randNum(l_diff - f_diff) :
                    safe' = (safe /\ Fits(0, Least(queue[cur], queue[k]), own_room)
                                  /\ Fits(0, f_diff + r, queue[k]))
             /\ Call(queue[k], SpliceTime)
    BY <1>2 DEF Splice
  <2> DEFINE n == Least(queue[cur], queue[k])
  <2>2. PICK f_diff \in 0 .. n - 1, l_diff \in 0 .. n - 1 :
             /\ l_diff >= 2 /\ f_diff < l_diff
             /\ \E r \in randNum(l_diff - f_diff) :
                    safe' = (safe /\ Fits(0, n, own_room) /\ Fits(0, f_diff + r, queue[k]))
             /\ Call(queue[k], SpliceTime)
    BY <2>1
  <2>3. PICK r \in randNum(l_diff - f_diff) :
             safe' = (safe /\ Fits(0, n, own_room) /\ Fits(0, f_diff + r, queue[k]))
    BY <2>2
  <2>4. /\ k \in 1 .. Len(queue) /\ queue[k] \in Nat /\ queue[k] >= 2
        /\ queue[cur] \in Nat /\ queue[cur] <= own_room /\ own_room \in Nat
    <3>1. pc = "splice"
      BY <1>2 DEF Splice
    <3>2. k \in 1 .. Len(queue) /\ queue[k] >= 2
      BY <2>1 DEF Others
    <3>3. /\ queue \in Seq(Nat) /\ cur \in 1 .. Len(queue) /\ own_room \in Nat
          /\ queue[cur] <= own_room
      BY <3>1, SpliceHolds
    <3>4. queue[k] \in Nat /\ queue[cur] \in Nat
      BY <3>2, <3>3, ElementOfSeq, Zenon
    <3> QED
      BY <3>2, <3>3, <3>4
  <2>5. n \in Nat /\ n <= queue[cur] /\ n <= queue[k]
    BY <2>4 DEF Least
  <2> HIDE DEF n
  <2>6. r \in Nat /\ f_diff + r < n
    BY <2>2, <2>3, <2>5, RandNumRange
  <2>7. Fits(0, n, own_room) /\ Fits(0, f_diff + r, queue[k])
    BY <2>2, <2>4, <2>5, <2>6 DEF Fits
  <2>8. safe'
    BY <2>3, <2>7 DEF HavocInv
  <2>9. queue' = queue /\ cur' = cur /\ own_room' = own_room /\ splicing' = TRUE
    BY <1>2 DEF Splice
  <2>10. cur \in 1 .. Len(queue)
    BY <1>2 DEF Splice, HavocInv
  <2> QED
    BY <2>2, <2>4, <2>8, <2>9, <2>10 DEF Call, HavocInv
<1> QED
  BY <1>1, <1>2

\* A mutation keeps the input inside its buffer and not empty.
LEMMA MutateInv ==
    HavocInv /\ (Overwrite \/ TooShort \/ Delete \/ Clone \/ TooLong \/ Copy) => HavocInv'
<1> SUFFICES ASSUME HavocInv, Overwrite \/ TooShort \/ Delete \/ Clone \/ TooLong \/ Copy
             PROVE  HavocInv'
  OBVIOUS
<1>1. /\ pc = "mutate"
      /\ UNCHANGED <<queue, cur, pc, len, splicing, own_room>>
  BY DEF Overwrite, TooShort, Delete, Clone, TooLong, Copy, Mutate, Else
<1>2. /\ temp_len \in Nat /\ temp_len > 0 /\ room \in Nat /\ temp_len <= room /\ safe
      /\ cur \in 1 .. Len(queue) /\ len > 0
  BY <1>1 DEF HavocInv
<1>3. SUFFICES temp_len' \in Nat /\ temp_len' > 0 /\ room' \in Nat /\ temp_len' <= room' /\ safe'
  BY <1>1 DEF HavocInv
<1>4. CASE Overwrite
  <2>1. PICK w \in {1, 2, 4} : /\ w > 1 => temp_len >= w
                               /\ \E at \in randNum(temp_len - w + 1) :
                                      safe' = (safe /\ Fits(at, w, temp_len))
    BY <1>4 DEF Overwrite
  <2>2. PICK at \in randNum(temp_len - w + 1) : safe' = (safe /\ Fits(at, w, temp_len))
    BY <2>1
  <2>3. at \in Nat /\ at < temp_len - w + 1
    BY <1>2, <2>1, <2>2, RandNumRange
  <2>4. Fits(at, w, temp_len)
    BY <1>2, <2>3 DEF Fits
  <2> QED
    BY <1>2, <1>4, <2>2, <2>4 DEF Overwrite
<1>5. CASE TooShort \/ TooLong
  BY <1>2, <1>5 DEF TooShort, TooLong
<1>6. CASE Delete
  <2>1. temp_len >= 2 /\ room' = room
    BY <1>6 DEF Delete
  <2>2. PICK del_len \in choose_block_len(temp_len - 1) :
        \E del_from \in randNum(temp_len - del_len + 1) :
           /\ safe' = (safe /\ Fits(del_from, temp_len - del_from - del_len, room)
                            /\ Fits(del_from + del_len, temp_len - del_from - del_len, temp_len))
           /\ temp_len' = temp_len - del_len
    BY <1>6 DEF Delete
  <2>3. PICK del_from \in randNum(temp_len - del_len + 1) :
           /\ safe' = (safe /\ Fits(del_from, temp_len - del_from - del_len, room)
                            /\ Fits(del_from + del_len, temp_len - del_from - del_len, temp_len))
           /\ temp_len' = temp_len - del_len
    BY <2>2
  <2>4. del_len \in 1 .. temp_len - 1
    BY <1>2, <2>1, <2>2, BlockLenRange
  <2>5. del_from \in Nat /\ del_from < temp_len - del_len + 1
    BY <1>2, <2>3, <2>4, RandNumRange
  <2>6. /\ Fits(del_from, temp_len - del_from - del_len, room)
        /\ Fits(del_from + del_len, temp_len - del_from - del_len, temp_len)
    BY <1>2, <2>4, <2>5 DEF Fits
  <2>7. safe'
    BY <1>2, <2>3, <2>6, Zenon
  <2> QED
    BY <1>2, <2>1, <2>3, <2>4, <2>7
<1>7. CASE Clone
  <2>0. PICK actually_clone \in BOOLEAN :
        \E clone_len \in choose_block_len(IF actually_clone THEN temp_len ELSE XL) :
        \E clone_from \in (IF actually_clone THEN randNum(temp_len - clone_len + 1) ELSE {0}),
          clone_to \in randNum(temp_len) :
           /\ room' = temp_len + clone_len
           /\ safe' = (safe /\ Fits(0, clone_to, temp_len)
                            /\ (actually_clone => Fits(clone_from, clone_len, temp_len)))
           /\ temp_len' = temp_len + clone_len
    BY <1>7 DEF Clone
  <2>1. PICK clone_len \in choose_block_len(IF actually_clone THEN temp_len ELSE XL) :
        \E clone_from \in (IF actually_clone THEN randNum(temp_len - clone_len + 1) ELSE {0}),
          clone_to \in randNum(temp_len) :
           /\ room' = temp_len + clone_len
           /\ safe' = (safe /\ Fits(0, clone_to, temp_len)
                            /\ (actually_clone => Fits(clone_from, clone_len, temp_len)))
           /\ temp_len' = temp_len + clone_len
    BY <2>0
  <2>2. PICK clone_from \in (IF actually_clone THEN randNum(temp_len - clone_len + 1) ELSE {0}),
             clone_to \in randNum(temp_len) :
           /\ room' = temp_len + clone_len
           /\ safe' = (safe /\ Fits(0, clone_to, temp_len)
                            /\ (actually_clone => Fits(clone_from, clone_len, temp_len)))
           /\ temp_len' = temp_len + clone_len
    BY <2>1
  <2>3. clone_len \in Nat \ {0} /\ (actually_clone => clone_len <= temp_len)
    BY <1>2, <2>1, BlockLenRange, HavocAssumption
  <2>4. actually_clone => clone_from \in Nat /\ clone_from < temp_len - clone_len + 1
    BY <1>2, <2>2, <2>3, RandNumRange
  <2>5. clone_to \in Nat /\ clone_to < temp_len
    BY <1>2, <2>2, RandNumRange
  <2>6. /\ Fits(0, clone_to, temp_len)
        /\ actually_clone => Fits(clone_from, clone_len, temp_len)
    BY <1>2, <2>3, <2>4, <2>5 DEF Fits
  <2>7. safe'
    BY <1>2, <2>2, <2>6, Zenon
  <2>8. room' = temp_len + clone_len /\ temp_len' = temp_len + clone_len
    BY <2>2
  <2> QED
    BY <1>2, <2>3, <2>7, <2>8
<1>8. CASE Copy
  <2>1. temp_len >= 2 /\ temp_len' = temp_len /\ room' = room
    BY <1>8 DEF Copy
  <2>2. PICK copy_len \in choose_block_len(temp_len - 1) :
        \E copy_from, copy_to \in randNum(temp_len - copy_len + 1) :
           safe' = (safe /\ Fits(copy_from, copy_len, temp_len)
                         /\ Fits(copy_to, copy_len, temp_len))
    BY <1>8 DEF Copy
  <2>3. PICK copy_from \in randNum(temp_len - copy_len + 1),
             copy_to \in randNum(temp_len - copy_len + 1) :
           safe' = (safe /\ Fits(copy_from, copy_len, temp_len)
                         /\ Fits(copy_to, copy_len, temp_len))
    BY <2>2
  <2>4. copy_len \in 1 .. temp_len - 1
    BY <1>2, <2>1, <2>2, BlockLenRange
  <2>5. /\ copy_from \in Nat /\ copy_from < temp_len - copy_len + 1
        /\ copy_to \in Nat /\ copy_to < temp_len - copy_len + 1
    BY <1>2, <2>3, <2>4, RandNumRange
  <2>6. Fits(copy_from, copy_len, temp_len) /\ Fits(copy_to, copy_len, temp_len)
    BY <1>2, <2>4, <2>5 DEF Fits
  <2> QED
    BY <1>2, <2>1, <2>3, <2>6
<1> QED
  BY <1>4, <1>5, <1>6, <1>7, <1>8

\* The end of a round puts the seed back into a buffer that holds it.
LEMMA ExecuteInv == HavocInv /\ Execute => HavocInv'
<1> SUFFICES ASSUME HavocInv, Execute PROVE HavocInv'
  OBVIOUS
<1>1. /\ pc = "mutate" /\ pc' = "round" /\ temp_len' = len
      /\ room' = (IF temp_len < len THEN len ELSE room)
      /\ safe' = (safe /\ Fits(0, temp_len, room) /\ Fits(0, len, room'))
      /\ UNCHANGED <<cur, len, splicing, own_room>>
  BY DEF Execute
<1>2. Fits(0, temp_len, room) /\ Fits(0, len, room') /\ room' \in Nat /\ len <= room'
  BY <1>1 DEF Fits, HavocInv
<1>3. safe'
  BY <1>1, <1>2 DEF HavocInv
<1>4. queue' = queue \/ queue' = Append(queue, temp_len)
  BY DEF Execute
<1>5. queue' \in Seq(Nat) /\ cur \in 1 .. Len(queue') /\ queue'[cur] = queue[cur]
  <2>1. queue \in Seq(Nat) /\ cur \in 1 .. Len(queue) /\ temp_len \in Nat
    BY <1>1 DEF HavocInv
  <2>2. CASE queue' = queue
    BY <2>1, <2>2
  <2>3. CASE queue' = Append(queue, temp_len)
    <3>1. /\ Append(queue, temp_len) \in Seq(Nat)
          /\ Len(Append(queue, temp_len)) = Len(queue) + 1
          /\ Append(queue, temp_len)[cur] = queue[cur]
      BY <2>1, AppendProperties
    <3>2. Len(queue) \in Nat
      BY <2>1, LenProperties
    <3> QED
      BY <2>1, <2>3, <3>1, <3>2
  <2> QED
    BY <1>4, <2>2, <2>3
<1> QED
  BY <1>1, <1>2, <1>3, <1>5 DEF HavocInv

\* Every step keeps the invariant.
LEMMA HavocNext == HavocInv /\ [Next]_vars => HavocInv'
<1> SUFFICES ASSUME HavocInv, [Next]_vars PROVE HavocInv'
  OBVIOUS
<1>1. CASE Round
  BY <1>1 DEF Round, HavocInv
<1>2. CASE Return
  BY <1>2 DEF Return, HavocInv
<1>3. CASE SpliceNothing \/ SpliceDone
  BY <1>3 DEF SpliceNothing, SpliceDone, HavocInv
<1>4. CASE Exit
  BY <1>4 DEF Exit, HavocInv
<1>5. CASE Over \/ UNCHANGED vars
  <2>1. UNCHANGED <<queue, cur, pc, len, temp_len, room, own_room>>
    BY <1>5 DEF Over, vars
  <2>2. splicing' = splicing /\ safe' = safe
    BY <1>5 DEF Over, vars
  <2>3. safe'
    BY <2>2 DEF HavocInv
  <2> QED
    BY <2>1, <2>2, <2>3 DEF HavocInv
<1> QED
  BY <1>1, <1>2, <1>3, <1>4, <1>5, CallInv, MutateInv, ExecuteInv DEF Next, Stage

\* The invariant of the mutation stages (Havoc and Splice of FuzzOne.cpp).
THEOREM HavocInvariant == Spec => []HavocInv
  BY HavocInit, HavocNext, PTL DEF Spec

\* Every range read or written by Havoc and Splice is inside its buffer, for
\* all lengths, block sizes, stacked mutations and rounds (lines 793-1225).
THEOREM MutationsInBounds == Spec => []InBounds
<1>1. HavocInv => InBounds
  BY DEF HavocInv, InBounds
<1> QED
  BY HavocInvariant, <1>1, PTL

\* The rounds of Havoc stay below twice the limit, however much is found and
\* kept (lines 1126-1135).
THEOREM RoundsStayBounded == Spec => []RoundsBounded
<1> DEFINE Inv == havoc_time \in Nat /\ RoundsBounded
<1>1. Init => Inv
  BY DEF Init, RoundsBounded
<1>2. Inv /\ [Next]_vars => Inv'
  <2> SUFFICES ASSUME Inv, [Next]_vars PROVE Inv'
    OBVIOUS
  <2>1. CASE havoc_time' = havoc_time
    BY <2>1 DEF RoundsBounded
  <2>2. CASE havoc_time' \in {HavocTime, SpliceTime}
    BY <2>2, HavocAssumption DEF RoundsBounded
  <2>3. CASE havoc_time < MaxTime /\ havoc_time' = havoc_time * 2
    BY <2>3, HavocAssumption DEF RoundsBounded
  <2>4. FuzzMain \/ Splice => havoc_time' \in {HavocTime, SpliceTime}
    BY DEF FuzzMain, Splice, Call
  <2>5. Execute => \/ havoc_time' = havoc_time
                   \/ havoc_time < MaxTime /\ havoc_time' = havoc_time * 2
    BY DEF Execute
  <2> QED
    BY <2>1, <2>2, <2>3, <2>4, <2>5
       DEF Next, Stage, Round, Overwrite, TooShort, Delete, Clone, TooLong, Copy, Else,
           Return, SpliceNothing, SpliceDone, Exit, Over, vars
<1>3. Inv => RoundsBounded
  OBVIOUS
<1> QED
  BY <1>1, <1>2, <1>3, PTL DEF Spec

\* What is cut from an input of an allowed length has one too.
LEMMA AllowedBelow ==
    ASSUME NEW n \in Nat, Allowed(n), NEW m \in 1 .. n
    PROVE  Allowed(m)
<1>1. CASE n \in Lengths
  BY <1>1 DEF Allowed
<1>2. CASE n \in 1 .. MaxFile - 1
  BY <1>2, HavocAssumption DEF Allowed
<1>3. CASE \E l \in Lengths : n \in 1 .. l
  <2>1. PICK l \in Lengths : n \in 1 .. l
    BY <1>3
  <2>2. m \in 1 .. l
    BY <2>1, HavocAssumption
  <2> QED
    BY <2>2 DEF Allowed
<1> QED
  BY <1>1, <1>2, <1>3 DEF Allowed

\* A mutation makes no empty input, and no long one from a shorter one.
LEMMA MutateLengths ==
    ASSUME HavocInv, LengthInv, Overwrite \/ TooShort \/ Delete \/ Clone \/ TooLong \/ Copy
    PROVE  LengthInv'
<1>1. pc = "mutate" /\ UNCHANGED <<queue, pc, len>>
  BY DEF Overwrite, TooShort, Delete, Clone, TooLong, Copy, Mutate, Else
<1>2. temp_len \in Nat /\ temp_len > 0 /\ Allowed(temp_len) /\ Allowed(len)
  BY <1>1 DEF HavocInv, LengthInv
<1>3. SUFFICES Allowed(temp_len')
  BY <1>1, <1>2 DEF LengthInv, LengthsBounded
<1>4. CASE Overwrite \/ TooShort \/ TooLong \/ Copy
  BY <1>2, <1>4 DEF Overwrite, TooShort, TooLong, Copy
<1>5. CASE Delete
  <2>1. PICK del_len \in choose_block_len(temp_len - 1) : temp_len' = temp_len - del_len
    BY <1>5 DEF Delete
  <2>2. temp_len >= 2
    BY <1>5 DEF Delete
  <2>3. del_len \in 1 .. temp_len - 1
    BY <1>2, <2>1, <2>2, BlockLenRange
  <2>4. temp_len' \in 1 .. temp_len
    BY <1>2, <2>1, <2>3
  <2> QED
    BY <1>2, <2>4, AllowedBelow
<1>6. CASE Clone
  <2>1. PICK limit \in {temp_len, XL} :
            \E clone_len \in choose_block_len(limit) : temp_len' = temp_len + clone_len
    BY <1>6 DEF Clone
  <2>2. PICK clone_len \in choose_block_len(limit) : temp_len' = temp_len + clone_len
    BY <2>1
  <2>3. limit \in Nat \ {0}
    BY <1>2, HavocAssumption
  <2>4. clone_len \in Nat \ {0} /\ clone_len <= XL
    BY <2>2, <2>3, BlockLenRange
  <2>5. temp_len + XL < MaxFile
    BY <1>6 DEF Clone
  <2>6. temp_len' \in 1 .. MaxFile - 1
    BY <1>2, <2>2, <2>4, <2>5, HavocAssumption
  <2> QED
    BY <2>6 DEF Allowed
<1> QED
  BY <1>4, <1>5, <1>6

\* What enters the queue is never empty, and not of MAX_FILE_LEN or more unless a
\* first seed was, for all block sizes and numbers of mutations (lines 947-958).
THEOREM LengthsStayBounded == Spec => []LengthsBounded
<1>1. Init => LengthInv
  <2> SUFFICES ASSUME Init PROVE LengthInv
    OBVIOUS
  <2>1. queue \in [1 .. 2 -> Lengths] /\ pc = "pick"
    BY DEF Init
  <2>2. Len(queue) = 2
    BY <2>1, LenProperties, SeqDef
  <2>3. \A k \in 1 .. 2 : queue[k] \in Lengths
    BY <2>1
  <2> QED
    BY <2>1, <2>2, <2>3 DEF LengthInv, LengthsBounded, Allowed
<1>2. HavocInv /\ LengthInv /\ [Next]_vars => LengthInv'
  <2> SUFFICES ASSUME HavocInv, LengthInv, [Next]_vars PROVE LengthInv'
    OBVIOUS
  <2>1. ASSUME NEW s \in 1 .. Len(queue), NEW time, Call(queue[s], time), queue' = queue
        PROVE  LengthInv'
    BY <2>1 DEF Call, LengthInv, LengthsBounded
  <2>2. CASE FuzzMain
    BY <2>1, <2>2 DEF FuzzMain
  <2>3. CASE Splice
    <3>1. PICK k \in Others : Call(queue[k], SpliceTime)
      BY <2>3 DEF Splice
    <3>2. k \in 1 .. Len(queue) /\ queue' = queue
      BY <2>3, <3>1 DEF Others, Splice
    <3> QED
      BY <2>1, <3>1, <3>2
  <2>4. CASE Execute
    <3>1. /\ pc = "mutate" /\ temp_len' = len /\ len' = len
          /\ queue' = queue \/ queue' = Append(queue, temp_len)
      BY <2>4 DEF Execute
    <3>2. Allowed(temp_len) /\ Allowed(len) /\ queue \in Seq(Nat) /\ temp_len \in Nat
      BY <3>1 DEF LengthInv, HavocInv
    <3>3. \A k \in 1 .. Len(queue') : Allowed(queue'[k])
      <4>1. CASE queue' = queue
        BY <4>1 DEF LengthInv, LengthsBounded
      <4>2. CASE queue' = Append(queue, temp_len)
        <5>1. /\ Len(queue') = Len(queue) + 1 /\ Len(queue) \in Nat
              /\ \A k \in 1 .. Len(queue) : queue'[k] = queue[k]
              /\ queue'[Len(queue) + 1] = temp_len
          BY <3>2, <4>2, AppendProperties, LenProperties
        <5>2. ASSUME NEW k \in 1 .. Len(queue') PROVE Allowed(queue'[k])
          <6>1. CASE k \in 1 .. Len(queue)
            BY <5>1, <6>1 DEF LengthInv, LengthsBounded
          <6>2. CASE k = Len(queue) + 1
            BY <3>2, <5>1, <6>2
          <6> QED
            BY <5>1, <5>2, <6>1, <6>2
        <5> QED
          BY <5>2
      <4> QED
        BY <3>1, <4>1, <4>2
    <3> QED
      BY <3>1, <3>2, <3>3 DEF LengthInv, LengthsBounded
  <2>5. CASE Overwrite \/ TooShort \/ Delete \/ Clone \/ TooLong \/ Copy
    BY <2>5, MutateLengths
  <2>6. CASE UNCHANGED <<queue, temp_len, len>>
             /\ (pc' \in {"round", "mutate"} => pc \in {"round", "mutate"})
    BY <2>6 DEF LengthInv, LengthsBounded
  <2> QED
    BY <2>2, <2>3, <2>4, <2>5, <2>6
       DEF Next, Stage, Round, Return, SpliceNothing, SpliceDone, Exit, Over, vars
<1>3. LengthInv => LengthsBounded
  BY DEF LengthInv
<1> QED
  BY <1>1, <1>2, <1>3, HavocInvariant, PTL DEF Spec

\* mutate_time is a number: a power of two counts the subsets of a set.
LEMMA MutateTime ==
    ASSUME NEW n \in Nat
    PROVE  2^n \in Nat
<1>1. IsFiniteSet(1 .. n) /\ Cardinality(1 .. n) = IF 1 > n THEN 0 ELSE n - 1 + 1
  BY FS_Interval
<1>2. IsFiniteSet(1 .. n) /\ Cardinality(1 .. n) = n
  BY <1>1
<1>3. IsFiniteSet(SUBSET (1 .. n)) /\ Cardinality(SUBSET (1 .. n)) = 2^n
  BY <1>2, FS_SUBSET
<1> QED
  BY <1>3, FS_CardinalityType

\* Every step keeps the account of rounds and mutations.
LEMMA RoundStep ==
    ASSUME RoundInv, [Next]_vars
    PROVE  RoundInv'
<1> USE DEF RoundInv
<1>1. CASE FuzzMain \/ Splice
  <2>1. /\ i' = 0 /\ left' = 0 /\ pc' = "round" /\ havoc_time' \in {HavocTime, SpliceTime}
        /\ splice_cycles' \in {0, splice_cycles + 1}
    BY <1>1 DEF FuzzMain, Splice, Call
  <2> QED
    BY <2>1, HavocAssumption
<1>2. CASE Round
  <2>1. PICK p \in randNum(StackPow) : left' = 2^(1 + p)
    BY <1>2 DEF Round
  <2>2. p \in Nat
    BY HavocAssumption, RandNumRange
  <2>3. left' \in Nat
    BY <2>1, <2>2, MutateTime
  <2> QED
    BY <1>2, <2>3 DEF Round
<1>3. CASE Overwrite \/ TooShort \/ Delete \/ Clone \/ TooLong \/ Copy
  <2>1. /\ left > 0 /\ left' = left - 1
        /\ UNCHANGED <<pc, i, havoc_time, splice_cycles>>
    BY <1>3 DEF Overwrite, TooShort, Delete, Clone, TooLong, Copy, Mutate, Else
  <2> QED
    BY <2>1
<1>4. CASE Execute
  <2>1. /\ i' = i + 1 /\ pc' = "round" /\ havoc_time' \in {havoc_time, havoc_time * 2}
        /\ UNCHANGED <<left, splice_cycles>>
    BY <1>4 DEF Execute
  <2> QED
    BY <2>1
<1>5. CASE Return \/ SpliceDone \/ Exit
  BY <1>5 DEF Return, SpliceDone, Exit
<1>6. CASE SpliceNothing
  BY <1>6 DEF SpliceNothing
<1>7. CASE Over \/ UNCHANGED vars
  BY <1>7 DEF Over, vars
<1> QED
  BY <1>1, <1>2, <1>3, <1>4, <1>5, <1>6, <1>7 DEF Next, Stage

\* Every step of Havoc and Splice uses up a cycle, a round or a mutation, and
\* there are only so many: what is found cannot prolong a seed for ever (lines
\* 806, 1126-1135 and 1172).
THEOREM SeedsGetDone == Spec => StagesGetOn
<1>1. Init => RoundInv
  BY DEF Init, RoundInv
<1>2. RoundInv /\ [Next]_vars => RoundInv'
  BY RoundStep
<1>3. ASSUME RoundInv, RoundsBounded, Stage, Next, pc' # "pick"
      PROVE  GetsOn /\ left' \in Nat
  <2>1. left' \in Nat
    BY <1>3, RoundStep DEF RoundInv
  <2> SUFFICES GetsOn
    BY <2>1
  <2>2. CASE Round
    BY <2>2 DEF Round, GetsOn
  <2>3. CASE Overwrite \/ TooShort \/ Delete \/ Clone \/ TooLong \/ Copy
    <3>1. /\ pc = "mutate" /\ left > 0 /\ left' = left - 1
          /\ UNCHANGED <<pc, i, splice_cycles>>
      BY <2>3 DEF Overwrite, TooShort, Delete, Clone, TooLong, Copy, Mutate, Else
    <3> QED
      BY <3>1 DEF GetsOn
  <2>4. CASE Execute
    <3>1. /\ pc = "mutate" /\ pc' = "round" /\ i' = i + 1 /\ splice_cycles' = splice_cycles
      BY <2>4 DEF Execute
    <3>2. i' <= 2 * MaxTime
      BY <1>3, <3>1, HavocAssumption DEF RoundInv, RoundsBounded
    <3> QED
      BY <3>1, <3>2 DEF GetsOn
  <2>5. CASE Return
    BY <1>3, <2>5 DEF Return, GetsOn
  <2>6. CASE SpliceNothing \/ Splice
    BY <2>6 DEF SpliceNothing, Splice, GetsOn
  <2>7. ~SpliceDone
    BY <1>3 DEF SpliceDone
  <2> QED
    BY <1>3, <2>2, <2>3, <2>4, <2>5, <2>6, <2>7 DEF Stage
<1>4. RoundInv /\ RoundsBounded /\ [Next]_vars
        => [Stage /\ pc' # "pick" => GetsOn /\ left' \in Nat]_vars
  BY <1>3
<1> QED
  BY <1>1, <1>2, <1>4, RoundsStayBounded, PTL DEF Spec, StagesGetOn

=============================================================================
