--------------------------- MODULE EventLogProofs ---------------------------
(***************************************************************************)
(* The log of operations, for any number of clients and runs and any size  *)
(* of the queue.  LogInv is inductive: while a client of the run is active *)
(* its collector is not told to stop, so the name of the queue is lost     *)
(* only to an older collector, and a queue keeps calls before results.     *)
(***************************************************************************)
EXTENDS EventLog, TLAPS

\* Zenon is tried first, then SMT, then Zenon for longer.
USE ZenonT(5), SMTT(15), ZenonT(20)

USE LogAssumption

\* What Append, Head and Tail do to the messages of a queue.
LEMMA AppendFacts ==
    ASSUME NEW S, NEW s \in Seq(S), NEW e \in S
    PROVE  /\ Append(s, e) \in Seq(S)
           /\ Len(s) \in Nat /\ Len(Append(s, e)) = Len(s) + 1
           /\ \A j \in 1 .. Len(s) : Append(s, e)[j] = s[j]
           /\ Append(s, e)[Len(s) + 1] = e
  OBVIOUS

\* A queue that is not empty loses its first message, the others move up.
LEMMA TailFacts ==
    ASSUME NEW S, NEW s \in Seq(S), s # <<>>
    PROVE  /\ Tail(s) \in Seq(S) /\ Head(s) \in S /\ Head(s) = s[1]
           /\ Len(s) \in Nat \ {0} /\ Len(Tail(s)) = Len(s) - 1
           /\ \A j \in 1 .. Len(s) - 1 : Tail(s)[j] = s[j + 1]
  OBVIOUS

\* No run has started.
LEMMA InitEstablishesInv == Init => LogInv
<1> SUFFICES ASSUME Init PROVE LogInv
  OBVIOUS
<1>1. \A c \in Run : queue[c] = <<>> /\ log[c] = {} /\ collector[c] = "none" /\ running[c]
  BY DEF Init
<1>2. TypeOK
  BY DEF Init, TypeOK
<1>3. CollectorInv
  BY <1>1 DEF Init, CollectorInv, Run
<1>4. \A k \in Client : ClientInv(k)
  BY DEF Init, ClientInv
<1>5. \A c \in Run : OrderInv(c)
  BY <1>1 DEF OrderInv
<1>6. ResultFollowsInvoke /\ QuietRunLosesNothing
  BY <1>1 DEF Init, ResultFollowsInvoke, QuietRunLosesNothing
<1> QED
  BY <1>2, <1>3, <1>4, <1>5, <1>6 DEF LogInv

\* A client that sends has a record of the right type.
LEMMA RecordType ==
    ASSUME TypeOK, CollectorInv, NEW k \in Client, ClientInv(k), mq[k] # 0
    PROVE  /\ Record(k) \in Rec /\ run \in Run /\ mq[k] \in Run /\ running[run]
           /\ stage[k] \in {"invoke", "result"}
  BY DEF TypeOK, CollectorInv, ClientInv, Record, Rec, Run

\* Every step keeps the types.
LEMMA TypeStep ==
    ASSUME LogInv, [Next]_vars
    PROVE  TypeOK'
<1> USE DEF TypeOK
<1>0. TypeOK /\ CollectorInv /\ \A k \in Client : ClientInv(k)
  BY DEF LogInv
<1>1. CASE StartRun \/ DriverKilled
  <2>1. run' \in 1 .. MaxRuns /\ run' \in Run
    BY <1>0, <1>1 DEF StartRun, DriverKilled, Run
  <2>2. /\ collector' = [collector EXCEPT ![run'] = "starting"]
        /\ stage' = [k \in Client |-> "invoke"] /\ mq' = [k \in Client |-> 0]
        /\ UNCHANGED <<name, queue, running, log>>
    BY <1>1 DEF StartRun, DriverKilled
  <2> QED
    BY <1>0, <2>1, <2>2
<1>2. CASE Stop
  <2>1. /\ running' = [c \in Run |-> running[c] /\ ~Alive(c)]
        /\ UNCHANGED <<run, stage, mq, name, queue, collector, log>>
    BY <1>2 DEF Stop
  <2>2. running' \in [Run -> BOOLEAN]
    BY <1>0, <2>1 DEF Alive
  <2> QED
    BY <1>0, <2>1, <2>2
<1>3. CASE Over \/ UNCHANGED vars
  BY <1>0, <1>3 DEF Over, vars
<1>4. ASSUME NEW k \in Client, Open(k) PROVE TypeOK'
  <2>1. mq' \in [Client -> 0 .. MaxRuns]
    BY <1>0, <1>4 DEF Open
  <2>2. stage' \in [Client -> {"invoke", "operate", "result", "done"}]
    BY <1>0, <1>4 DEF Open, After
  <2>3. UNCHANGED <<run, name, queue, collector, running, log>>
    BY <1>4 DEF Open
  <2> QED
    BY <1>0, <2>1, <2>2, <2>3
<1>5. ASSUME NEW k \in Client, Send(k) PROVE TypeOK'
  <2>1. Record(k) \in Rec /\ mq[k] \in Run
    BY <1>0, <1>5, RecordType DEF Send
  <2>2. queue' \in [Run -> Seq(Rec)]
    <3>1. Append(queue[mq[k]], Record(k)) \in Seq(Rec)
      BY <1>0, <2>1, AppendFacts
    <3> QED
      BY <1>0, <1>5, <2>1, <3>1 DEF Send
  <2>3. mq' \in [Client -> 0 .. MaxRuns]
    BY <1>0, <1>5 DEF Send
  <2>4. stage' \in [Client -> {"invoke", "operate", "result", "done"}]
    BY <1>0, <1>5 DEF Send, After
  <2>5. UNCHANGED <<run, name, collector, running, log>>
    BY <1>5 DEF Send
  <2> QED
    BY <1>0, <2>2, <2>3, <2>4, <2>5
<1>6. ASSUME NEW k \in Client, Operate(k) PROVE TypeOK'
  BY <1>0, <1>6 DEF Operate
<1>7. ASSUME NEW c \in Run, Create(c) \/ DiesEarly(c) \/ Check(c) \/ Idle(c) \/ EndCollector(c)
      PROVE  TypeOK'
  <2>1. /\ name' \in {c, 0, name} /\ UNCHANGED <<run, stage, mq, queue, running, log>>
        /\ \E l \in {"loop", "ended", "take"} : collector' = [collector EXCEPT ![c] = l]
    BY <1>7 DEF Create, DiesEarly, Check, Idle, EndCollector
  <2>2. name' \in 0 .. MaxRuns
    BY <1>0, <1>7, <2>1 DEF Run
  <2> QED
    BY <1>0, <1>7, <2>1, <2>2
<1>8. ASSUME NEW c \in Run, Receive(c) PROVE TypeOK'
  <2>1. Tail(queue[c]) \in Seq(Rec) /\ Head(queue[c]) \in Rec
    BY <1>0, <1>8, TailFacts DEF Receive
  <2>2. queue' \in [Run -> Seq(Rec)] /\ log' \in [Run -> SUBSET Rec]
    BY <1>0, <1>8, <2>1 DEF Receive
  <2>3. /\ UNCHANGED <<run, stage, mq, name, running>>
        /\ collector' = [collector EXCEPT ![c] = "loop"]
    BY <1>8 DEF Receive
  <2> QED
    BY <1>0, <1>8, <2>2, <2>3
<1> QED
  BY <1>1, <1>2, <1>3, <1>4, <1>5, <1>6, <1>7, <1>8 DEF Next

\* A collector of the current run is told to stop only when its clients are
\* done, and keeps the name until then if no older collector is alive.
LEMMA CollectorStep ==
    ASSUME LogInv, [Next]_vars
    PROVE  CollectorInv'
<1>0. TypeOK /\ CollectorInv
  BY DEF LogInv
<1> USE DEF TypeOK, CollectorInv, Alive
<1>1. CASE StartRun \/ DriverKilled
  <2>1. run' = run + 1 /\ run' \in Run /\ run \in Nat
    BY <1>0, <1>1 DEF StartRun, DriverKilled, Run
  <2>2. /\ collector' = [collector EXCEPT ![run'] = "starting"]
        /\ UNCHANGED <<name, running, overlap>>
    BY <1>1, <2>1 DEF StartRun, DriverKilled
  <2>3. \A c \in Run : collector'[c] = "none" <=> c > run'
    BY <1>0, <2>1, <2>2 DEF Run
  <2>4. \A c \in Run : (collector'[c] = "ended" => ~running'[c]) /\ (c > run' => running'[c])
    BY <1>0, <2>1, <2>2 DEF Run
  <2>5. running'[run'] /\ run' > 0 /\ collector'[run'] = "starting"
    BY <1>0, <2>1, <2>2 DEF Run
  <2> QED
    BY <2>3, <2>4, <2>5
<1>2. CASE Stop
  <2>1. /\ running' = [c \in Run |-> running[c] /\ ~Alive(c)]
        /\ UNCHANGED <<run, stage, name, collector, overlap>>
        /\ run > 0 /\ \A k \in Client : stage[k] = "done"
    BY <1>2 DEF Stop
  <2>2. \A c \in Run : running'[c] => running[c]
    BY <2>1
  <2>3. \A c \in Run : c > run => running'[c]
    BY <1>0, <2>1
  <2>4. run > 0 => run \in Run
    BY <1>0 DEF Run
  <2> QED
    BY <1>0, <2>1, <2>2, <2>3, <2>4
<1>3. CASE Over \/ UNCHANGED vars
  BY <1>0, <1>3 DEF Over, vars
<1>4. ASSUME NEW k \in Client, Open(k) \/ Send(k) \/ Operate(k)
      PROVE  CollectorInv'
  <2>1. UNCHANGED <<run, name, collector, running, overlap>>
    BY <1>4 DEF Open, Send, Operate
  <2>2. stage[k] # "done" /\ \A l \in Client \ {k} : stage'[l] = stage[l]
    <3>1. CASE Open(k)
      <4>1. stage' = stage \/ stage' = [stage EXCEPT ![k] = After(k)]
        BY <3>1 DEF Open
      <4>2. stage[k] \in {"invoke", "result"}
        BY <3>1 DEF Open
      <4> QED
        BY <1>0, <4>1, <4>2
    <3>2. CASE Send(k)
      <4>1. mq[k] # 0 /\ stage' = [stage EXCEPT ![k] = After(k)]
        BY <3>2 DEF Send
      <4>2. stage[k] # "done"
        BY <4>1 DEF LogInv, ClientInv
      <4> QED
        BY <1>0, <4>1, <4>2
    <3>3. CASE Operate(k)
      BY <1>0, <3>3 DEF Operate
    <3> QED
      BY <1>4, <3>1, <3>2, <3>3
  <2> QED
    BY <1>0, <2>1, <2>2
<1>5. ASSUME NEW c \in Run, Create(c)
      PROVE  CollectorInv'
  <2>1. /\ collector[c] = "starting" /\ collector' = [collector EXCEPT ![c] = "loop"]
        /\ name' = c /\ UNCHANGED <<run, stage, running>>
        /\ overlap' = IF \E b \in 1 .. c - 1 : Alive(b) THEN overlap \cup {c} ELSE overlap
    BY <1>5 DEF Create
  <2>2. c <= run /\ c \in Nat /\ run \in Run
    BY <1>0, <2>1 DEF Run
  <2>3. /\ \A d \in Run : collector'[d] = "none" <=> d > run
        /\ \A d \in Run : collector'[d] = "ended" => ~running[d]
    BY <1>0, <2>1, <2>2
  <2>4. ASSUME collector'[run] \in {"loop", "take"}, run \notin overlap'
        PROVE  (\A b \in 1 .. run - 1 : ~Alive(b)') /\ name' = run
    <3>1. CASE c = run
      <4>1. \A b \in 1 .. run - 1 : ~Alive(b) /\ collector'[b] = collector[b]
        BY <1>0, <2>1, <2>2, <2>4, <3>1 DEF Run
      <4> QED
        BY <2>1, <3>1, <4>1
    <3>2. CASE c # run
      <4>1. c \in 1 .. run - 1 /\ Alive(c)
        BY <2>1, <2>2, <3>2 DEF Run
      <4>2. collector[run] \in {"loop", "take"} /\ run \notin overlap
        BY <1>0, <2>1, <2>2, <2>4, <3>2
      <4> QED
        BY <1>0, <2>2, <4>1, <4>2 DEF Run
    <3> QED
      BY <3>1, <3>2
  <2> QED
    BY <1>0, <2>1, <2>3, <2>4
<1>6. ASSUME NEW c \in Run, DiesEarly(c) \/ EndCollector(c)
      PROVE  CollectorInv'
  <2>1. /\ collector' = [collector EXCEPT ![c] = "ended"] /\ Alive(c) /\ ~running[c]
        /\ UNCHANGED <<run, stage, running, overlap>>
        /\ c = run \/ name' = 0 \/ name' = name
    BY <1>6 DEF DiesEarly, EndCollector
  <2>2. c <= run /\ c \in Nat /\ run \in Run
    BY <1>0, <2>1 DEF Run
  <2>3. /\ \A d \in Run : collector'[d] = "none" <=> d > run
        /\ \A d \in Run : collector'[d] = "ended" => ~running[d]
        /\ \A d \in Run : Alive(d)' => Alive(d)
    BY <1>0, <2>1, <2>2
  <2>4. collector'[run] \in {"loop", "take"} /\ run \notin overlap => name' = name
    <3>1. CASE c = run
      BY <1>0, <2>1, <2>2, <3>1
    <3>2. CASE c # run
      <4>1. c \in 1 .. run - 1
        BY <2>2, <3>2 DEF Run
      <4> QED
        BY <1>0, <2>1, <2>2, <3>2, <4>1
    <3> QED
      BY <3>1, <3>2
  <2>5. collector'[run] \in {"loop", "take"} => collector[run] \in {"loop", "take"}
    BY <1>0, <2>1, <2>2
  <2>6. \A b \in 1 .. run - 1 : b \in Run
    BY <2>2 DEF Run
  <2> QED
    BY <1>0, <2>1, <2>3, <2>4, <2>5, <2>6
<1>7. ASSUME NEW c \in Run, Check(c) \/ Idle(c) \/ Receive(c)
      PROVE  CollectorInv'
  <2>1. /\ \E l \in {"take", "loop"} : collector' = [collector EXCEPT ![c] = l]
        /\ collector[c] \in {"loop", "take"}
        /\ UNCHANGED <<run, stage, name, running, overlap>>
    BY <1>7 DEF Check, Idle, Receive
  <2>2. \A d \in Run : /\ collector'[d] \in {"loop", "take"} <=> collector[d] \in {"loop", "take"}
                       /\ collector'[d] \notin {"loop", "take"} => collector'[d] = collector[d]
    BY <1>0, <2>1
  <2>3. /\ \A d \in Run : collector'[d] = "none" <=> d > run
        /\ \A d \in Run : collector'[d] = "ended" => ~running[d]
        /\ \A d \in Run : Alive(d)' <=> Alive(d)
    BY <1>0, <2>2
  <2>4. (run > 0 => run \in Run) /\ \A b \in 1 .. run - 1 : b \in Run
    BY <1>0 DEF Run
  <2> QED
    BY <1>0, <2>1, <2>2, <2>3, <2>4
<1> QED
  BY <1>1, <1>2, <1>3, <1>4, <1>5, <1>6, <1>7 DEF Next

\* The collector of a run whose client is active has not ended.
LEMMA ActiveCollector ==
    ASSUME TypeOK, CollectorInv, NEW k \in Client, stage[k] # "done"
    PROVE  run \in Run /\ running[run] /\ collector[run] \in {"starting", "loop", "take"}
<1>1. run \in Run /\ running[run]
  BY DEF TypeOK, CollectorInv, Run
<1>2. collector[run] # "none" /\ collector[run] # "ended"
  BY <1>1 DEF TypeOK, CollectorInv
<1> QED
  BY <1>1, <1>2 DEF TypeOK

\* A client that opens the queue in a quiet run gets the queue of that run.
LEMMA OpenFinds ==
    ASSUME LogInv, NEW k \in Client, Open(k)
    PROVE  /\ Op(k) \in early' \/ collector[run] \in {"loop", "take"}
           /\ Op(k) \notin early' /\ run \notin overlap => name = run /\ name # 0
<1>0. TypeOK /\ CollectorInv /\ ClientInv(k)
  BY DEF LogInv
<1>1. stage[k] \in {"invoke", "result"}
  BY DEF Open
<1>2. run \in Run /\ running[run] /\ collector[run] \in {"starting", "loop", "take"}
  BY <1>0, <1>1, ActiveCollector
<1>3. Op(k) \in early' \/ collector[run] \in {"loop", "take"}
  BY <1>0, <1>1, <1>2 DEF Open, ClientInv
<1> QED
  BY <1>0, <1>2, <1>3 DEF CollectorInv, Run

\* The clients of a run keep to its queue, however the collectors start and end.
LEMMA ClientStep ==
    ASSUME LogInv, [Next]_vars
    PROVE  \A k \in Client : ClientInv(k)'
<1>0. TypeOK /\ CollectorInv /\ \A k \in Client : ClientInv(k)
  BY DEF LogInv
<1> DEFINE Mine(k) == [run |-> run, client |-> k, type |-> "invoke"]
           Sent(k) == Mine(k) \in log[run] \/ \E j \in 1 .. Len(queue[run]) : queue[run][j] = Mine(k)
<1>1. CASE StartRun \/ DriverKilled
  <2>1. stage' = [k \in Client |-> "invoke"] /\ mq' = [k \in Client |-> 0]
    BY <1>1 DEF StartRun, DriverKilled
  <2> QED
    BY <2>1 DEF ClientInv
<1>2. CASE Stop
  <2>1. UNCHANGED <<run, stage, mq, collector, early, overlap, log, queue>>
    BY <1>2 DEF Stop
  <2> QED
    BY <1>0, <2>1 DEF ClientInv, Op
<1>3. CASE Over \/ UNCHANGED vars
  <2>1. UNCHANGED <<run, stage, mq, collector, early, overlap, log, queue>>
    BY <1>3 DEF Over, vars
  <2> QED
    BY <1>0, <2>1 DEF ClientInv, Op
<1>4. ASSUME NEW k \in Client, Open(k), NEW l \in Client
      PROVE  ClientInv(l)'
  <2>1. UNCHANGED <<run, queue, collector, log, overlap>> /\ early \subseteq early'
    BY <1>4 DEF Open
  <2>2. CASE l # k
    <3>1. stage'[l] = stage[l] /\ mq'[l] = mq[l]
      <4>1. stage' = stage \/ stage' = [stage EXCEPT ![k] = After(k)]
        BY <1>4 DEF Open
      <4>2. mq' = mq \/ mq' = [mq EXCEPT ![k] = name]
        BY <1>4 DEF Open
      <4> QED
        BY <1>0, <2>2, <4>1, <4>2 DEF TypeOK
    <3> QED
      BY <1>0, <2>1, <3>1 DEF ClientInv, Op
  <2>3. CASE l = k
    <3>1. stage[k] \in {"invoke", "result"} /\ mq[k] = 0
      BY <1>4 DEF Open
    <3>2. /\ Op(k) \in early' \/ collector[run] \in {"loop", "take"}
          /\ Op(k) \notin early' /\ run \notin overlap => name = run /\ name # 0
      BY <1>4, OpenFinds
    <3>3. CASE name = 0
      <4>1. mq'[k] = 0 /\ stage'[k] = After(k)
        BY <1>0, <1>4, <3>1, <3>3 DEF Open, TypeOK
      <4> QED
        BY <2>1, <2>3, <3>2, <3>3, <4>1 DEF ClientInv, Op
    <3>4. CASE name # 0
      <4>1. mq'[k] = name /\ stage'[k] = stage[k]
        BY <1>0, <1>4, <3>4 DEF Open, TypeOK
      <4>2. stage[k] = "result" /\ Op(k) \notin early' /\ run \notin overlap => Sent(k)
        BY <1>0, <2>1 DEF ClientInv
      <4> QED
        BY <2>1, <2>3, <3>1, <3>2, <4>1, <4>2 DEF ClientInv, Op
    <3> QED
      BY <3>3, <3>4
  <2> QED
    BY <2>2, <2>3
<1>5. ASSUME NEW k \in Client, Send(k), NEW l \in Client
      PROVE  ClientInv(l)'
  <2>1. /\ UNCHANGED <<run, collector, log, early, overlap>>
        /\ Record(k) \in Rec /\ mq[k] \in Run /\ run \in Run /\ mq[k] # 0
        /\ stage[k] \in {"invoke", "result"}
    BY <1>0, <1>5, RecordType DEF Send
  <2>2. queue' = [queue EXCEPT ![mq[k]] = Append(@, Record(k))]
    BY <1>5 DEF Send
  <2>3. /\ Len(queue[run]) \in Nat /\ Len(queue[run]) <= Len(queue'[run])
        /\ \A j \in 1 .. Len(queue[run]) : queue'[run][j] = queue[run][j]
    BY <1>0, <2>1, <2>2, AppendFacts DEF TypeOK
  <2>4. Sent(l) => Sent(l)'
    BY <2>1, <2>3
  <2>5. CASE l # k
    <3>1. stage'[l] = stage[l] /\ mq'[l] = mq[l]
      BY <1>0, <1>5, <2>5 DEF Send, TypeOK
    <3> QED
      BY <1>0, <2>1, <2>4, <3>1 DEF ClientInv, Op
  <2>6. CASE l = k
    <3>1. mq'[k] = 0 /\ stage'[k] = After(k)
      BY <1>0, <1>5 DEF Send, TypeOK
    <3>2. CASE stage[k] = "invoke" /\ Op(k) \notin early /\ run \notin overlap
      <4>1. mq[k] = run /\ Record(k) = Mine(k)
        BY <1>0, <2>1, <3>2 DEF ClientInv, Record
      <4>2. queue'[run] = Append(queue[run], Mine(k))
        BY <1>0, <2>1, <2>2, <4>1 DEF TypeOK
      <4>3. /\ Len(queue'[run]) = Len(queue[run]) + 1
            /\ queue'[run][Len(queue[run]) + 1] = Mine(k)
        BY <1>0, <2>1, <4>1, <4>2, AppendFacts DEF TypeOK
      <4>4. Sent(k)'
        BY <2>1, <2>3, <4>3
      <4> QED
        BY <1>0, <2>1, <2>6, <3>1, <3>2, <4>4 DEF ClientInv, After, Op
    <3>3. CASE ~(stage[k] = "invoke" /\ Op(k) \notin early /\ run \notin overlap)
      BY <1>0, <2>1, <2>6, <3>1, <3>3 DEF ClientInv, After, Op
    <3> QED
      BY <3>2, <3>3
  <2> QED
    BY <2>5, <2>6
<1>6. ASSUME NEW k \in Client, Operate(k), NEW l \in Client
      PROVE  ClientInv(l)'
  <2>1. /\ UNCHANGED <<run, mq, queue, collector, log, early, overlap>>
        /\ stage[k] = "operate"
        /\ \E s \in {"result", "done"} : stage' = [stage EXCEPT ![k] = s]
    BY <1>6 DEF Operate
  <2>2. stage'[l] = stage[l] \/ (l = k /\ stage'[l] \in {"result", "done"})
    BY <1>0, <2>1 DEF TypeOK
  <2> QED
    BY <1>0, <2>1, <2>2 DEF ClientInv, Op

<1>7. ASSUME NEW c \in Run, NEW l \in Client,
             Create(c) \/ DiesEarly(c) \/ Check(c) \/ Idle(c) \/ Receive(c) \/ EndCollector(c)
      PROVE  /\ UNCHANGED <<run, stage, mq, early>> /\ overlap \subseteq overlap'
             /\ stage[l] # "done" /\ collector[run] \in {"loop", "take"} =>
                    collector'[run] \in {"loop", "take"}
  <2>1. UNCHANGED <<run, stage, mq, early>> /\ overlap \subseteq overlap'
    BY <1>7 DEF Create, DiesEarly, Check, Idle, Receive, EndCollector
  <2>2. ASSUME stage[l] # "done", collector[run] \in {"loop", "take"}
        PROVE  collector'[run] \in {"loop", "take"}
    <3>1. run \in Run /\ running[run]
      BY <1>0, <2>2, ActiveCollector
    <3>2. CASE c = run
      BY <1>0, <1>7, <2>2, <3>1, <3>2
         DEF Create, DiesEarly, Check, Idle, Receive, EndCollector, TypeOK
    <3>3. CASE c # run
      <4>1. \E s : collector' = [collector EXCEPT ![c] = s]
        BY <1>7 DEF Create, DiesEarly, Check, Idle, Receive, EndCollector
      <4> QED
        BY <1>0, <2>2, <3>1, <3>3, <4>1 DEF TypeOK
    <3> QED
      BY <3>2, <3>3
  <2> QED
    BY <2>1, <2>2
<1>8. ASSUME NEW c \in Run, NEW l \in Client,
             Create(c) \/ DiesEarly(c) \/ Check(c) \/ Idle(c) \/ EndCollector(c)
      PROVE  ClientInv(l)'
  <2>1. UNCHANGED <<queue, log>>
    BY <1>8 DEF Create, DiesEarly, Check, Idle, EndCollector
  <2>2. mq[l] # 0 \/ stage[l] \in {"operate", "result"} => stage[l] # "done"
    BY <1>0 DEF ClientInv
  <2> QED
    BY <1>0, <1>7, <1>8, <2>1, <2>2 DEF ClientInv, Op
<1>9. ASSUME NEW c \in Run, NEW l \in Client, Receive(c)
      PROVE  ClientInv(l)'
  <2>1. /\ queue' = [queue EXCEPT ![c] = Tail(@)] /\ queue[c] # <<>>
        /\ log' = [log EXCEPT ![c] = @ \cup {Head(queue[c])}]
        /\ UNCHANGED <<run, overlap>>
    BY <1>9 DEF Receive
  <2>2. mq[l] # 0 \/ stage[l] \in {"operate", "result"} => stage[l] # "done"
    BY <1>0 DEF ClientInv
  <2>3. ASSUME run \in Run, Sent(l) PROVE Sent(l)'
    <3>1. CASE c # run
      BY <1>0, <2>1, <2>3, <3>1 DEF TypeOK
    <3>2. CASE c = run
      <4>1. /\ log'[run] = log[run] \cup {queue[run][1]}
            /\ queue'[run] = Tail(queue[run])
            /\ Len(queue[run]) \in Nat \ {0} /\ Len(queue'[run]) = Len(queue[run]) - 1
            /\ \A j \in 1 .. Len(queue[run]) - 1 : queue'[run][j] = queue[run][j + 1]
        BY <1>0, <2>1, <2>3, <3>2, TailFacts DEF TypeOK
      <4>2. CASE Mine(l) \in log[run]
        BY <2>1, <4>1, <4>2
      <4>3. ASSUME NEW j \in 1 .. Len(queue[run]), queue[run][j] = Mine(l)
            PROVE  Sent(l)'
        <5>1. CASE j = 1
          BY <2>1, <4>1, <4>3, <5>1
        <5>2. CASE j # 1
          <6>1. j - 1 \in 1 .. Len(queue'[run]) /\ queue'[run][j - 1] = Mine(l)
            BY <4>1, <4>3, <5>2
          <6> QED
            BY <2>1, <6>1
        <5> QED
          BY <5>1, <5>2
      <4> QED
        BY <2>3, <4>2, <4>3
    <3> QED
      BY <3>1, <3>2
  <2>4. stage[l] # "done" => run \in Run
    BY <1>0, ActiveCollector
  <2>5. stage[l] \in {"operate", "result"} /\ Op(l) \notin early /\ run \notin overlap => Sent(l)'
    BY <1>0, <2>3, <2>4 DEF ClientInv
  <2> QED
    BY <1>0, <1>7, <1>9, <2>1, <2>2, <2>5 DEF ClientInv, Op
<1> QED
  BY <1>1, <1>2, <1>3, <1>4, <1>5, <1>6, <1>8, <1>9 DEF Next

\* A step may make a record less quiet, never more so.
LEMMA QuietStep ==
    ASSUME [Next]_vars
    PROVE  early \subseteq early' /\ overlap \subseteq overlap'
  BY DEF Next, vars, StartRun, Stop, DriverKilled, Over, Open, Send, Operate, Create,
     DiesEarly, Check, Idle, Receive, EndCollector

\* What follows from the order of a queue if neither it nor the log changes.
LEMMA OrderUnchanged ==
    ASSUME NEW c \in Run, OrderInv(c), early \subseteq early', overlap \subseteq overlap',
           queue'[c] = queue[c], log'[c] = log[c]
    PROVE  OrderInv(c)'
  BY DEF OrderInv, Quiet, Invoke

\* Calls stay before results, in the queues and in the logs.
LEMMA OrderStep ==
    ASSUME LogInv, [Next]_vars
    PROVE  (\A c \in Run : OrderInv(c)') /\ ResultFollowsInvoke'
<1>0. /\ TypeOK /\ CollectorInv /\ \A k \in Client : ClientInv(k)
      /\ \A c \in Run : OrderInv(c)
      /\ ResultFollowsInvoke
  BY DEF LogInv
<1>1. early \subseteq early' /\ overlap \subseteq overlap'
  BY QuietStep
<1>2. ASSUME UNCHANGED log PROVE ResultFollowsInvoke'
  BY <1>0, <1>1, <1>2 DEF ResultFollowsInvoke
<1>3. CASE UNCHANGED <<queue, log>>
  BY <1>0, <1>1, <1>2, <1>3, OrderUnchanged
<1>4. ASSUME NEW k \in Client, Send(k)
      PROVE  (\A c \in Run : OrderInv(c)') /\ ResultFollowsInvoke'
  <2>1. /\ queue' = [queue EXCEPT ![mq[k]] = Append(@, Record(k))]
        /\ Record(k) \in Rec /\ mq[k] \in Run /\ run \in Run
        /\ mq[k] # 0 /\ UNCHANGED <<log, early, overlap>>
    BY <1>0, <1>4, RecordType DEF Send
  <2>2. ASSUME NEW c \in Run PROVE OrderInv(c)'
    <3>1. CASE c # mq[k]
      <4>1. queue'[c] = queue[c]
        BY <1>0, <2>1, <3>1 DEF TypeOK
      <4> QED
        BY <1>0, <1>1, <2>1, <4>1, OrderUnchanged
    <3>2. CASE c = mq[k]
      <4>1. /\ Len(queue[c]) \in Nat /\ Len(queue'[c]) = Len(queue[c]) + 1
            /\ \A j \in 1 .. Len(queue[c]) : queue'[c][j] = queue[c][j]
            /\ queue'[c][Len(queue[c]) + 1] = Record(k)
        BY <1>0, <2>1, <3>2, AppendFacts DEF TypeOK
      <4>2. ASSUME NEW j \in 1 .. Len(queue'[c]),
                   queue'[c][j].type = "result", Quiet(queue[c][j])'
            PROVE  \/ Invoke(queue'[c][j]) \in log[c]
                   \/ \E h \in 1 .. j - 1 : queue'[c][h] = Invoke(queue'[c][j])
        <5>1. CASE j \in 1 .. Len(queue[c])
          <6>0. queue'[c][j] = queue[c][j]
            BY <4>1, <5>1
          <6>1. queue'[c][j] = queue[c][j] /\ Quiet(queue[c][j])
            <7>1. /\ <<queue'[c][j].run, queue'[c][j].client>> \notin early'
                  /\ queue'[c][j].run \notin overlap'
              BY <4>2 DEF Quiet
            <7>2. early' = early /\ overlap' = overlap
              BY <2>1
            <7> QED
              BY <6>0, <7>1, <7>2 DEF Quiet
          <6>2. \/ Invoke(queue[c][j]) \in log[c]
                \/ \E h \in 1 .. j - 1 : queue[c][h] = Invoke(queue[c][j])
            BY <1>0, <2>2, <4>2, <5>1, <6>1 DEF OrderInv
          <6>3. \A h \in 1 .. j - 1 : queue'[c][h] = queue[c][h]
            BY <4>1, <5>1
          <6> QED
            BY <6>1, <6>2, <6>3
        <5>2. CASE j = Len(queue[c]) + 1
          <6>1. /\ stage[k] = "result" /\ Op(k) \notin early /\ run \notin overlap
                /\ Invoke(queue'[c][j]) = [run |-> run, client |-> k, type |-> "invoke"]
            <7>1. queue'[c][j] = Record(k)
              BY <4>1, <5>2
            <7>2. /\ queue'[c][j].type = "result"
                  /\ <<queue'[c][j].run, queue'[c][j].client>> \notin early'
                  /\ queue'[c][j].run \notin overlap'
              BY <4>2 DEF Quiet
            <7>3. early' = early /\ overlap' = overlap
              BY <2>1
            <7> QED
              BY <7>1, <7>2, <7>3 DEF Record, Op, Invoke
          <6>2. c = run
            BY <1>0, <2>1, <3>2, <6>1 DEF ClientInv
          <6>3. \/ Invoke(queue'[c][j]) \in log[c]
                \/ \E h \in 1 .. Len(queue[c]) : queue[c][h] = Invoke(queue'[c][j])
            BY <1>0, <6>1, <6>2 DEF ClientInv
          <6> QED
            BY <4>1, <5>2, <6>3
        <5> QED
          BY <4>1, <5>1, <5>2
      <4> QED
        BY <2>1, <4>2 DEF OrderInv, Invoke
    <3> QED
      BY <3>1, <3>2
  <2> QED
    BY <1>2, <2>1, <2>2
<1>5. ASSUME NEW d \in Run, Receive(d)
      PROVE  (\A c \in Run : OrderInv(c)') /\ ResultFollowsInvoke'
  <2>1. /\ queue' = [queue EXCEPT ![d] = Tail(@)] /\ queue[d] # <<>>
        /\ log' = [log EXCEPT ![d] = @ \cup {Head(queue[d])}]
        /\ UNCHANGED <<early, overlap>>
    BY <1>5 DEF Receive
  <2>2. /\ log'[d] = log[d] \cup {queue[d][1]} /\ queue[d][1] \in Rec
        /\ Len(queue[d]) \in Nat \ {0} /\ Len(queue'[d]) = Len(queue[d]) - 1
        /\ \A j \in 1 .. Len(queue[d]) - 1 : queue'[d][j] = queue[d][j + 1]
    BY <1>0, <2>1, TailFacts DEF TypeOK
  <2>3. \A c \in Run \ {d} : queue'[c] = queue[c] /\ log'[c] = log[c]
    BY <1>0, <2>1 DEF TypeOK
  <2>4. ASSUME NEW c \in Run PROVE OrderInv(c)'
    <3>1. CASE c # d
      BY <1>0, <1>1, <2>3, <3>1, OrderUnchanged
    <3>2. CASE c = d
      <4>1. ASSUME NEW j \in 1 .. Len(queue'[d]),
                   queue'[d][j].type = "result", Quiet(queue[d][j])'
            PROVE  \/ Invoke(queue'[d][j]) \in log'[d]
                   \/ \E h \in 1 .. j - 1 : queue'[d][h] = Invoke(queue'[d][j])
        <5>1. j + 1 \in 1 .. Len(queue[d]) /\ queue'[d][j] = queue[d][j + 1]
          BY <2>2, <4>1
        <5>2. Quiet(queue[d][j + 1])
          <6>1. /\ <<queue'[d][j].run, queue'[d][j].client>> \notin early'
                /\ queue'[d][j].run \notin overlap'
            BY <4>1 DEF Quiet
          <6>2. early' = early /\ overlap' = overlap /\ queue'[d][j] = queue[d][j + 1]
            BY <2>1, <5>1
          <6> QED
            BY <6>1, <6>2 DEF Quiet
        <5>3. \/ Invoke(queue'[d][j]) \in log[d]
              \/ \E h \in 1 .. j : queue[d][h] = Invoke(queue'[d][j])
          BY <1>0, <4>1, <5>1, <5>2 DEF OrderInv
        <5>4. CASE Invoke(queue'[d][j]) \in log[d]
          BY <2>2, <5>4
        <5>5. ASSUME NEW h \in 1 .. j, queue[d][h] = Invoke(queue'[d][j])
              PROVE  \/ Invoke(queue'[d][j]) \in log'[d]
                     \/ \E g \in 1 .. j - 1 : queue'[d][g] = Invoke(queue'[d][j])
          <6>1. CASE h = 1
            BY <2>2, <5>5, <6>1
          <6>2. CASE h # 1
            <7>1. h - 1 \in 1 .. j - 1 /\ queue'[d][h - 1] = queue[d][h]
              BY <2>2, <4>1, <5>5, <6>2
            <7> QED
              BY <5>5, <7>1
          <6> QED
            BY <6>1, <6>2
        <5> QED
          BY <5>3, <5>4, <5>5
      <4> QED
        BY <3>2, <4>1 DEF OrderInv, Invoke
    <3> QED
      BY <3>1, <3>2
  <2>5. ASSUME NEW c \in Run, NEW r \in log'[c],
               r.type = "result", <<r.run, r.client>> \notin early', r.run \notin overlap'
        PROVE  [r EXCEPT !.type = "invoke"] \in log'[c]
    <3>1. CASE r \in log[c]
      <4>1. [r EXCEPT !.type = "invoke"] \in log[c]
        BY <1>0, <2>1, <2>5, <3>1 DEF ResultFollowsInvoke
      <4> QED
        BY <2>2, <2>3, <4>1
    <3>2. CASE r \notin log[c]
      <4>1. c = d /\ r = queue[d][1] /\ r \in Rec
        BY <2>2, <2>3, <2>5, <3>2
      <4>2. Quiet(r) /\ r.type = "result"
        BY <2>1, <2>5 DEF Quiet
      <4>3. Invoke(r) \in log[d]
        BY <1>0, <2>2, <4>1, <4>2 DEF OrderInv
      <4>4. [r EXCEPT !.type = "invoke"] = Invoke(r)
        BY <4>1 DEF Rec, Invoke
      <4> QED
        BY <2>2, <4>1, <4>3, <4>4
    <3> QED
      BY <3>1, <3>2
  <2> QED
    BY <2>4, <2>5 DEF ResultFollowsInvoke
<1>6. CASE \/ StartRun \/ Stop \/ DriverKilled \/ Over \/ UNCHANGED vars
           \/ \E k \in Client : Open(k) \/ Operate(k)
           \/ \E c \in Run : Create(c) \/ DiesEarly(c) \/ Check(c) \/ Idle(c) \/ EndCollector(c)
  <2>1. UNCHANGED <<queue, log>>
    BY <1>6 DEF StartRun, Stop, DriverKilled, Over, vars, Open, Operate, Create,
       DiesEarly, Check, Idle, EndCollector
  <2> QED
    BY <1>3, <2>1
<1> QED
  BY <1>4, <1>5, <1>6 DEF Next

\* A record is refused only for want of a name.
LEMMA RefusedStep ==
    ASSUME LogInv, [Next]_vars
    PROVE  QuietRunLosesNothing'
<1>0. QuietRunLosesNothing
  BY DEF LogInv
<1>1. early \subseteq early' /\ overlap \subseteq overlap'
  BY QuietStep
<1>2. ASSUME NEW k \in Client, Open(k) PROVE QuietRunLosesNothing'
  <2>1. Op(k) \notin early' /\ run \notin overlap => name # 0
    BY <1>2, OpenFinds
  <2>2. refused' = refused \/ (name = 0 /\ refused' = refused \cup {Op(k)})
    BY <1>2 DEF Open
  <2>3. Op(k)[1] = run
    BY DEF Op
  <2> QED
    BY <1>0, <1>1, <2>1, <2>2, <2>3 DEF QuietRunLosesNothing
<1>3. CASE \/ StartRun \/ Stop \/ DriverKilled \/ Over \/ UNCHANGED vars
           \/ \E k \in Client : Send(k) \/ Operate(k)
           \/ \E c \in Run : \/ Create(c) \/ DiesEarly(c) \/ Check(c) \/ Idle(c)
                             \/ Receive(c) \/ EndCollector(c)
  <2>1. refused' = refused
    BY <1>3 DEF StartRun, Stop, DriverKilled, Over, vars, Send, Operate, Create,
       DiesEarly, Check, Idle, Receive, EndCollector
  <2> QED
    BY <1>0, <1>1, <2>1 DEF QuietRunLosesNothing
<1> QED
  BY <1>2, <1>3 DEF Next

\* LogInv holds in every reachable state of the log.
THEOREM LogInvariant == Spec => []LogInv
<1>1. Init => LogInv
  BY InitEstablishesInv
<1>2. LogInv /\ [Next]_vars => LogInv'
  BY TypeStep, CollectorStep, ClientStep, OrderStep, RefusedStep DEF LogInv
<1> QED
  BY <1>1, <1>2, PTL DEF Spec

\* In a log a result is never there without the call it belongs to, for
\* operations that began when the queue of a run without overlap existed.
THEOREM ResultsFollowCalls == Spec => []ResultFollowsInvoke
<1>1. LogInv => ResultFollowsInvoke
  BY DEF LogInv
<1> QED
  BY <1>1, LogInvariant, PTL

\* Only the end of an older collector, or a call made before the queue exists,
\* can make a record get lost.
THEOREM QuietRunsLoseNothing == Spec => []QuietRunLosesNothing
<1>1. LogInv => QuietRunLosesNothing
  BY DEF LogInv
<1> QED
  BY <1>1, LogInvariant, PTL

\* Every step keeps the open queues, and the one that has the name, with their
\* readers: a queue is opened by its name, the name is removed by the collector
\* that ends, and a collector ends only when it was told to.
LEMMA ReaderStep ==
    ASSUME LogInv, ReaderInv, [Next]_vars
    PROVE  ReaderInv'
<1> USE DEF ReaderInv
<1>0. TypeOK /\ CollectorInv
  BY DEF LogInv
<1>1. CASE StartRun \/ DriverKilled
  <2>1. /\ run + 1 \in Run /\ collector[run + 1] = "none"
        /\ collector' = [collector EXCEPT ![run + 1] = "starting"]
        /\ name' = name /\ mq' = [k \in Client |-> 0]
    BY <1>0, <1>1, LogAssumption DEF StartRun, DriverKilled, TypeOK, CollectorInv, Run
  <2>2. name # 0 => name # run + 1
    BY <2>1
  <2> QED
    BY <1>0, <2>1, <2>2 DEF TypeOK, Run
<1>2. CASE Stop \/ Over \/ UNCHANGED vars
  BY <1>2 DEF Stop, Over, vars
<1>3. ASSUME NEW k \in Client, Open(k) \/ Send(k) \/ Operate(k)
      PROVE  ReaderInv'
  <2>1. name' = name /\ collector' = collector
    BY <1>3 DEF Open, Send, Operate
  <2>2. ASSUME NEW m \in Client PROVE mq'[m] \in {0, name, mq[m]}
    BY <1>0, <1>3 DEF Open, Send, Operate, TypeOK
  <2> QED
    BY <2>1, <2>2
<1>4. ASSUME NEW c \in Run, Create(c) PROVE ReaderInv'
  <2>1. /\ collector[c] = "starting" /\ name' = c /\ mq' = mq
        /\ collector' = [collector EXCEPT ![c] = "loop"]
    BY <1>4 DEF Create
  <2> QED
    BY <1>0, <1>4, <2>1 DEF TypeOK, Run
<1>5. ASSUME NEW c \in Run, DiesEarly(c) PROVE ReaderInv'
  <2>1. /\ collector[c] = "starting" /\ name' = name /\ mq' = mq
        /\ collector' = [collector EXCEPT ![c] = "ended"]
    BY <1>5 DEF DiesEarly
  <2> QED
    BY <1>0, <2>1 DEF TypeOK, Run
<1>6. ASSUME NEW c \in Run, Check(c) \/ Idle(c) \/ Receive(c) PROVE ReaderInv'
  <2>1. /\ collector[c] \in {"loop", "take"} /\ name' = name /\ mq' = mq
        /\ \E s \in {"loop", "take"} : collector' = [collector EXCEPT ![c] = s]
    BY <1>6 DEF Check, Idle, Receive
  <2> QED
    BY <1>0, <2>1 DEF TypeOK, Run
<1>7. ASSUME NEW c \in Run, EndCollector(c) PROVE ReaderInv'
  <2>1. name' = 0 /\ mq' = mq /\ collector' = [collector EXCEPT ![c] = "ended"]
    BY <1>7 DEF EndCollector
  <2> QED
    BY <1>0, <2>1 DEF TypeOK, Run
<1> QED
  BY <1>1, <1>2, <1>3, <1>4, <1>5, <1>6, <1>7 DEF Next

\* A client that sends has a collector that reads what it sends to, unless that
\* one was told to stop: however runs and collectors overlap, no client waits
\* for room that nobody will make (dst_default_event.cpp lines 20-21 and
\* event_control/src/main.cpp lines 30-69).
THEOREM SendersAreRead == Spec => []SendersHaveReaders
<1>1. Init => ReaderInv
  BY DEF Init, ReaderInv
<1>2. LogInv /\ ReaderInv /\ [Next]_vars => ReaderInv'
  BY ReaderStep
<1>3. LogInv /\ ReaderInv => SendersHaveReaders
  <2> SUFFICES ASSUME LogInv, ReaderInv, NEW k \in Client, mq[k] # 0
               PROVE  collector[mq[k]] \in {"loop", "take"} \/ ~running[mq[k]]
    BY DEF SendersHaveReaders
  <2>1. mq[k] \in Run
    BY DEF LogInv, TypeOK, Run
  <2> QED
    BY <2>1 DEF LogInv, CollectorInv, ReaderInv
<1> QED
  BY <1>1, <1>2, <1>3, LogInvariant, PTL DEF Spec

=============================================================================
