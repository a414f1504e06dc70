------------------------------ MODULE EventLog ------------------------------
(***************************************************************************)
(* The log of operations that the checker of a target reads: clients       *)
(* record the call and the result of an operation in a bounded message     *)
(* queue (__dst_event_record), a collector of each run writes them to      *)
(* operation_log (event_control).                                          *)
(*                                                                         *)
(* env_init.sh starts the collector in the background at the start of a    *)
(* run, stop.sh sends SIGTERM to every collector at its end, and a driver  *)
(* that is killed does neither.  All collectors use one queue name: each   *)
(* removes the name when it starts and when it ends.  A queue without a    *)
(* name lives on for those who have opened it.                             *)
(***************************************************************************)
EXTENDS Integers, Sequences, FiniteSets

CONSTANTS
    Client,    \* clients (threads of the driver) of a run
    MaxQueue,  \* MAX_QUEUE_NUMBER
    MaxRuns    \* bound: runs of the driver

ASSUME LogAssumption == MaxQueue \in Nat \ {0} /\ MaxRuns \in Nat \ {0}

Run == 1 .. MaxRuns

VARIABLES
    run,        \* the run of the driver; 0 before the first
    stage,      \* of each client: "invoke", "operate", "result" or "done"
    mq,         \* the queue a client has opened to send; 0 for none
    name,       \* the queue that has the name EVENT_QUEUE_ID; 0 for none
    queue,      \* the messages of the queue of each collector
    collector,  \* of each run: "none", "starting", "loop", "take" or "ended"
    running,    \* the flag of each collector
    log,        \* the records each collector has written so far
    early,      \* history: operations begun before the run's queue existed
    overlap,    \* history: runs whose queue was made while an older collector lived
    refused     \* history: operations of which a record was not accepted

vars == <<run, stage, mq, name, queue, collector, running, log, early, overlap, refused>>

Init ==
    /\ run = 0 /\ stage = [k \in Client |-> "done"] /\ mq = [k \in Client |-> 0]
    /\ name = 0 /\ queue = [c \in Run |-> <<>>]
    /\ collector = [c \in Run |-> "none"] /\ running = [c \in Run |-> TRUE]
    /\ log = [c \in Run |-> {}]
    /\ early = {} /\ overlap = {} /\ refused = {}

Alive(c) == collector[c] \in {"starting", "loop", "take"}

Record(k) == [run |-> run, client |-> k, type |-> stage[k]]
Op(k) == <<run, k>>

-----------------------------------------------------------------------------
(***************************************************************************)
(* The driver                                                              *)
(***************************************************************************)

\* A run starts: env_init.sh, which starts the collector in the background.
StartRun ==
    /\ run < MaxRuns /\ \A k \in Client : stage[k] = "done"
    /\ run > 0 => ~running[run]
    /\ run' = run + 1
    /\ collector' = [collector EXCEPT ![run + 1] = "starting"]
    /\ stage' = [k \in Client |-> "invoke"] /\ mq' = [k \in Client |-> 0]
    /\ UNCHANGED <<name, queue, running, log, early, overlap, refused>>

\* The clients have been joined: stop.sh.
Stop ==
    /\ run > 0 /\ \A k \in Client : stage[k] = "done"
    /\ running' = [c \in Run |-> running[c] /\ ~Alive(c)]
    /\ UNCHANGED <<run, stage, mq, name, queue, collector, log, early, overlap, refused>>

\* The driver is killed with its threads, and the next run starts.
DriverKilled ==
    /\ run \in 1 .. MaxRuns - 1
    /\ run' = run + 1
    /\ collector' = [collector EXCEPT ![run + 1] = "starting"]
    /\ stage' = [k \in Client |-> "invoke"] /\ mq' = [k \in Client |-> 0]
    /\ UNCHANGED <<name, queue, running, log, early, overlap, refused>>

-----------------------------------------------------------------------------
(***************************************************************************)
(* A client                                                                *)
(***************************************************************************)

After(k) == IF stage[k] = "invoke" THEN "operate" ELSE "done"

\* __dst_event_trigger opens the queue.  If there is none, the record is lost
\* and nobody looks at the 1 that is returned.
Open(k) ==
    /\ stage[k] \in {"invoke", "result"} /\ mq[k] = 0
    /\ early' = IF stage[k] = "invoke" /\ collector[run] = "starting"
                  THEN early \cup {Op(k)} ELSE early
    /\ IF name = 0
         THEN /\ refused' = refused \cup {Op(k)}
              /\ stage' = [stage EXCEPT ![k] = After(k)]
              /\ UNCHANGED mq
         ELSE /\ mq' = [mq EXCEPT ![k] = name]
              /\ UNCHANGED <<refused, stage>>
    /\ UNCHANGED <<run, name, queue, collector, running, log, overlap>>

\* A faulty send that drops the record when the queue is full.
SendOrDrop(k) ==
    /\ mq[k] # 0
    /\ queue' = IF Len(queue[mq[k]]) < MaxQueue
                  THEN [queue EXCEPT ![mq[k]] = Append(@, Record(k))] ELSE queue
    /\ mq' = [mq EXCEPT ![k] = 0]
    /\ stage' = [stage EXCEPT ![k] = After(k)]
    /\ UNCHANGED <<run, name, collector, running, log, early, overlap, refused>>

\* send() blocks while the queue is full.
Send(k) ==
    /\ mq[k] # 0 /\ Len(queue[mq[k]]) < MaxQueue
    /\ queue' = [queue EXCEPT ![mq[k]] = Append(@, Record(k))]
    /\ mq' = [mq EXCEPT ![k] = 0]
    /\ stage' = [stage EXCEPT ![k] = After(k)]
    /\ UNCHANGED <<run, name, collector, running, log, early, overlap, refused>>

\* The client process runs; only a success has a result.
Operate(k) ==
    /\ stage[k] = "operate"
    /\ \E s \in {"result", "done"} : stage' = [stage EXCEPT ![k] = s]
    /\ UNCHANGED <<run, mq, name, queue, collector, running, log, early, overlap, refused>>

-----------------------------------------------------------------------------
(***************************************************************************)
(* The collector of run c                                                  *)
(***************************************************************************)

\* Removes the name, and makes its own queue.
Create(c) ==
    /\ collector[c] = "starting"
    /\ name' = c /\ collector' = [collector EXCEPT ![c] = "loop"]
    /\ overlap' = IF \E b \in 1 .. c - 1 : Alive(b)
                    THEN overlap \cup {c} ELSE overlap
    /\ UNCHANGED <<run, stage, mq, queue, running, log, early, refused>>

\* SIGTERM comes before its handler is installed.
DiesEarly(c) ==
    /\ collector[c] = "starting" /\ ~running[c]
    /\ collector' = [collector EXCEPT ![c] = "ended"]
    /\ UNCHANGED <<run, stage, mq, name, queue, running, log, early, overlap, refused>>

\* The condition of the loop.  SIGTERM may come before try_receive.
Check(c) ==
    /\ collector[c] = "loop" /\ running[c]
    /\ collector' = [collector EXCEPT ![c] = "take"]
    /\ UNCHANGED <<run, stage, mq, name, queue, running, log, early, overlap, refused>>

\* try_receive finds nothing.
Idle(c) ==
    /\ collector[c] = "take" /\ queue[c] = <<>>
    /\ collector' = [collector EXCEPT ![c] = "loop"]
    /\ UNCHANGED <<run, stage, mq, name, queue, running, log, early, overlap, refused>>

\* A faulty collector that leaves the last slot of a full queue to the sender.
ReceiveNotFull(c) ==
    /\ collector[c] = "take" /\ queue[c] # <<>>
    /\ collector' = [collector EXCEPT ![c] = "loop"]
    /\ Len(queue[c]) < MaxQueue
    /\ log' = [log EXCEPT ![c] = @ \cup {Head(queue[c])}]
    /\ queue' = [queue EXCEPT ![c] = Tail(@)]
    /\ UNCHANGED <<run, stage, mq, name, running, early, overlap, refused>>

\* try_receive and the write to operation_log.
Receive(c) ==
    /\ collector[c] = "take" /\ queue[c] # <<>>
    /\ collector' = [collector EXCEPT ![c] = "loop"]
    /\ log' = [log EXCEPT ![c] = @ \cup {Head(queue[c])}]
    /\ queue' = [queue EXCEPT ![c] = Tail(@)]
    /\ UNCHANGED <<run, stage, mq, name, running, early, overlap, refused>>

\* A faulty collector that ends when it finds the queue empty.
EndWhenEmpty(c) ==
    /\ collector[c] = "loop" /\ (~running[c] \/ queue[c] = <<>>)
    /\ collector' = [collector EXCEPT ![c] = "ended"]
    /\ name' = 0
    /\ UNCHANGED <<run, stage, mq, queue, running, log, early, overlap, refused>>

\* running is false: the log is closed and the name is removed, whoever has it.
EndCollector(c) ==
    /\ collector[c] = "loop" /\ ~running[c]
    /\ collector' = [collector EXCEPT ![c] = "ended"]
    /\ name' = 0
    /\ UNCHANGED <<run, stage, mq, queue, running, log, early, overlap, refused>>

Over ==
    /\ run = MaxRuns /\ \A k \in Client : stage[k] = "done" \/ mq[k] # 0
    /\ UNCHANGED vars

Next ==
    \/ StartRun \/ Stop \/ DriverKilled \/ Over
    \/ \E k \in Client : Open(k) \/ Send(k) \/ Operate(k)
    \/ \E c \in Run : \/ Create(c) \/ DiesEarly(c) \/ Check(c) \/ Idle(c)
                      \/ Receive(c) \/ EndCollector(c)

\* A client that has opened the queue sends once there is room, and the
\* collectors run.  Room is taken in turn by the clients, so sending needs
\* strong fairness: the queue wakes the senders that wait.
Fairness ==
    /\ \A k \in Client : SF_vars(Send(k))
    /\ \A c \in Run :
           WF_vars(Create(c) \/ Check(c) \/ Idle(c) \/ Receive(c) \/ EndCollector(c))

Spec == Init /\ [][Next]_vars /\ Fairness

-----------------------------------------------------------------------------
(***************************************************************************)
(* Properties                                                              *)
(***************************************************************************)

\* In the log of a run, a result follows the call it belongs to, unless the
\* operation began before the queue of the run existed or an older collector
\* was still alive then: at no time is the result there and the call not
\* (event_control/src/main.cpp lines 34-60 and dst_default_client_operator.cpp
\* lines 54-95).
ResultFollowsInvoke ==
    \A c \in Run : \A r \in log[c] :
        r.type = "result" /\ <<r.run, r.client>> \notin early /\ r.run \notin overlap =>
            [r EXCEPT !.type = "invoke"] \in log[c]

\* No record is refused in a run whose operations began when the queue existed
\* and whose collector started after the older ones had ended: only the end of
\* an older collector can take the name away (lines 30-33 and 69).
QuietRunLosesNothing ==
    \A o \in refused : o \in early \/ o[1] \in overlap

\* The inductive invariant behind the two properties.  Quiet(r) is the
\* condition under which they say something about a record.
Quiet(r) == <<r.run, r.client>> \notin early /\ r.run \notin overlap
Invoke(r) == [run |-> r.run, client |-> r.client, type |-> "invoke"]

Rec == [run : Run, client : Client, type : {"invoke", "result"}]

TypeOK ==
    /\ run \in 0 .. MaxRuns
    /\ stage \in [Client -> {"invoke", "operate", "result", "done"}]
    /\ mq \in [Client -> 0 .. MaxRuns]
    /\ name \in 0 .. MaxRuns
    /\ queue \in [Run -> Seq(Rec)]
    /\ collector \in [Run -> {"none", "starting", "loop", "take", "ended"}]
    /\ running \in [Run -> BOOLEAN]
    /\ log \in [Run -> SUBSET Rec]

\* A collector runs until it is told to stop, which happens when no client is
\* active; the name belongs to it unless an older one was alive.
CollectorInv ==
    /\ \A c \in Run : collector[c] = "none" <=> c > run
    /\ \A c \in Run : c > run => running[c]
    /\ \A c \in Run : collector[c] = "ended" => ~running[c]
    /\ \A k \in Client : stage[k] # "done" => run > 0 /\ running[run]
    /\ run > 0 /\ collector[run] \in {"loop", "take"} /\ run \notin overlap =>
           /\ \A b \in 1 .. run - 1 : ~Alive(b)
           /\ running[run] => name = run

\* An operation that began when the queue existed uses that queue only, and
\* its call is in it or in the log once it has been sent.
ClientInv(k) ==
    /\ mq[k] # 0 => stage[k] \in {"invoke", "result"}
    /\ mq[k] # 0 \/ stage[k] \in {"operate", "result"} =>
           Op(k) \in early \/ collector[run] \in {"loop", "take"}
    /\ mq[k] # 0 /\ Op(k) \notin early /\ run \notin overlap => mq[k] = run
    /\ stage[k] \in {"operate", "result"} /\ Op(k) \notin early /\ run \notin overlap =>
           LET r == [run |-> run, client |-> k, type |-> "invoke"]
           IN  r \in log[run] \/ \E j \in 1 .. Len(queue[run]) : queue[run][j] = r

\* Calls come before their results, in the queue and in the log.
OrderInv(c) ==
    \A j \in 1 .. Len(queue[c]) :
        queue[c][j].type = "result" /\ Quiet(queue[c][j]) =>
            \/ Invoke(queue[c][j]) \in log[c]
            \/ \E h \in 1 .. j - 1 : queue[c][h] = Invoke(queue[c][j])

LogInv ==
    /\ TypeOK /\ CollectorInv
    /\ \A k \in Client : ClientInv(k)
    /\ \A c \in Run : OrderInv(c)
    /\ ResultFollowsInvoke
    /\ QuietRunLosesNothing

\* A client sends to a queue that is still read, or whose collector was told to
\* stop: no client waits for room in a queue that a collector has not made yet,
\* or left for another reason (dst_default_event.cpp lines 20-21 and
\* event_control/src/main.cpp lines 30-69).
SendersHaveReaders ==
    \A k \in Client : mq[k] # 0 =>
        collector[mq[k]] \in {"loop", "take"} \/ ~running[mq[k]]

\* Its inductive form: the name, too, is that of a queue that is read.
ReaderInv ==
    /\ name # 0 => collector[name] \in {"loop", "take"}
    /\ \A k \in Client : mq[k] # 0 => collector[mq[k]] \in {"loop", "take", "ended"}

\* A client that waits for room in the queue gets on, or the collector of that
\* queue was told to stop (dst_default_event.cpp line 21).
SendEnds ==
    \A k \in Client : \A c \in Run :
        mq[k] = c ~> mq[k] # c \/ ~running[c]

=============================================================================
