---------------------------- MODULE ServerProofs ----------------------------
(***************************************************************************)
(* Theorems about ClientServer, for every set of workers, connections and  *)
(* accept threads.                                                         *)
(***************************************************************************)
EXTENDS ClientServer, SequenceTheorems, FiniteSetTheorems, TLAPS

ServerWorker == {listen_worker} \cup Range(UserWorkers)

(* The handlers each worker is given: accept handlers run on the listen    *)
(* worker alone, those of the client's connections on the client's.        *)
AcceptKind == {"accept", "EMFILE", "error", "aborted"}
ServerKind == {"init", "close", "read_error", "release"}
ClientKind == {"connected", "connect_error", "end", "reset", "forget"}
Kinds(w) == IF w = worker THEN ClientKind
            ELSE IF w = listen_worker THEN AcceptKind \cup ServerKind ELSE ServerKind

TaskOf(w) == [do : Kinds(w), conn : Conn \cup {0}]

AnyTask == [do : AcceptKind \cup ServerKind \cup ClientKind, conn : Conn \cup {0}]
QueueOK(q) == q \in [Worker -> Seq(AnyTask)] /\ \A w \in Worker : q[w] \in Seq(TaskOf(w))
Queued == QueueOK(queue)

ThreadState == [pc : {"idle", "choose", "advance", "accept", "ended"},
                worker : ServerWorker \cup {"none"}, index : Nat]

Shape ==
  /\ alive \subseteq Worker
  /\ srv \in [Conn -> SrvState] /\ cli \in [Conn -> CliState]
  /\ home \in [Conn -> ServerWorker \cup {"none"}] /\ pending \in ServerWorker \cup {"none"}
  /\ connections \subseteq Conn /\ deinited \subseteq Conn
  /\ stopping \in {"no", "workers", "listen", "done"} /\ backlog \in Seq(Conn)
  /\ user_workers \in Seq(ServerWorker) /\ worker_index \in Nat
  /\ thread \in [AcceptThread -> ThreadState]

(* No accept handler, and one, in a queue.                                 *)
NoAccept(q)  == \A i \in DOMAIN q : q[i].do \notin AcceptKind
OneAccept(q) == \E i \in DOMAIN q : /\ q[i].do \in AcceptKind
                                    /\ \A j \in DOMAIN q : q[j].do \in AcceptKind => j = i

Idle == \A t \in AcceptThread : thread[t].pc = "idle"

(* Before start() nothing is outstanding; afterwards one accept is, or its *)
(* handler is queued, until an error ends the loop.                        *)
Loop ==
  /\ ~is_running /\ stopping = "no" =>
       pending = "none" /\ NoAccept(queue[listen_worker]) /\ ~gave_up /\ Idle
  /\ is_running /\ Idle =>
       \/ pending = "none" /\ NoAccept(queue[listen_worker]) /\ gave_up
       \/ pending # "none" /\ NoAccept(queue[listen_worker]) /\ ~gave_up
       \/ pending = "none" /\ OneAccept(queue[listen_worker]) /\ ~gave_up

(* stop() leaves nothing behind that could call a connection: no backlog,  *)
(* and, phase by phase, no worker.                                         *)
Quiet ==
  /\ stopping # "no" => ~is_running /\ acceptor = "closed" /\ backlog = <<>>
  /\ stopping \in {"no", "workers"} => alive \subseteq {listen_worker, worker} \cup Range(user_workers)
  /\ stopping = "listen" => alive \subseteq {listen_worker, worker}
  /\ stopping = "done" => alive \subseteq {worker}
  /\ leaving = "done" => worker \notin alive

ServerInv == Shape /\ Queued /\ Loop /\ Quiet

----------------------------------------------------------------------------
(* Queues.                                                                 *)

LEMMA ServerWorkerType ==
    /\ ServerWorker \subseteq Worker /\ listen_worker \in ServerWorker
    /\ worker \notin ServerWorker /\ "none" \notin Worker /\ worker \in Worker
    /\ UserWorkers \in Seq(ServerWorker) /\ Range(UserWorkers) \subseteq ServerWorker
<1>1. /\ UserWorkers \in Seq(Worker) /\ listen_worker \in Worker /\ "none" \notin Worker
      /\ worker \in Worker /\ worker # listen_worker /\ worker \notin Range(UserWorkers)
  BY WorkersAssumption
<1>2. Range(UserWorkers) \subseteq Worker
  BY <1>1 DEF Range
<1>3. UserWorkers \in Seq(ServerWorker)
  <2>1. \A i \in 1..Len(UserWorkers) : UserWorkers[i] \in ServerWorker
    BY <1>1 DEF Range, ServerWorker
  <2>2. QED
    BY <1>1, <2>1
<1>4. QED
  BY <1>1, <1>2, <1>3 DEF ServerWorker

LEMMA TaskOfType ==
    ASSUME NEW w, NEW c \in Conn \cup {0}, NEW k \in Kinds(w)
    PROVE  Task(k, c) \in TaskOf(w) /\ Task(k, c) \in AnyTask /\ Task(k, c).do = k
  BY DEF Task, TaskOf, AnyTask, Kinds

LEMMA PostOK ==
    ASSUME NEW q, QueueOK(q), NEW w, NEW t \in AnyTask, w \in Worker => t \in TaskOf(w)
    PROVE  /\ QueueOK(Post(q, w, t))
           /\ \A v \in Worker : Post(q, w, t)[v] = IF v = w THEN Append(q[v], t) ELSE q[v]
<1>1. \A v \in Worker : Post(q, w, t)[v] = IF v = w THEN Append(q[v], t) ELSE q[v]
  BY DEF QueueOK, Post
<1>2. \A v \in Worker : /\ Post(q, w, t)[v] \in Seq(TaskOf(v))
                        /\ Post(q, w, t)[v] \in Seq(AnyTask)
  <2>1. SUFFICES ASSUME NEW v \in Worker
                 PROVE  /\ Post(q, w, t)[v] \in Seq(TaskOf(v))
                        /\ Post(q, w, t)[v] \in Seq(AnyTask)
    OBVIOUS
  <2>2. q[v] \in Seq(TaskOf(v)) /\ q[v] \in Seq(AnyTask)
    BY DEF QueueOK
  <2>3. CASE v = w
    <3>1. t \in TaskOf(v)
      BY <2>3
    <3>2. Append(q[v], t) \in Seq(TaskOf(v)) /\ Append(q[v], t) \in Seq(AnyTask)
      BY <2>2, <3>1, AppendProperties
    <3>3. QED
      BY <1>1, <2>3, <3>2
  <2>4. CASE v # w
    BY <1>1, <2>2, <2>4
  <2>5. QED
    BY <2>3, <2>4
<1>3. Post(q, w, t) \in [Worker -> Seq(AnyTask)]
  BY <1>2 DEF Post, QueueOK
<1>4. QED
  BY <1>1, <1>2, <1>3 DEF QueueOK

LEMMA TakenOK ==
    ASSUME Queued, NEW w \in Worker, NEW t, Runs(w, t)
    PROVE  /\ QueueOK(Taken(w)) /\ t \in TaskOf(w)
           /\ queue[w] \in Seq(AnyTask) /\ queue[w] # <<>> /\ t = Head(queue[w])
           /\ \A v \in Worker : Taken(w)[v] = IF v = w THEN Tail(queue[v]) ELSE queue[v]
<1>1. /\ queue \in [Worker -> Seq(AnyTask)] /\ queue[w] \in Seq(TaskOf(w))
      /\ queue[w] \in Seq(AnyTask) /\ queue[w] # <<>> /\ t = Head(queue[w])
  BY DEF Queued, QueueOK, Runs
<1>2. \A v \in Worker : Taken(w)[v] = IF v = w THEN Tail(queue[v]) ELSE queue[v]
  BY <1>1 DEF Taken
<1>3. /\ Tail(queue[w]) \in Seq(TaskOf(w)) /\ Tail(queue[w]) \in Seq(AnyTask)
      /\ t \in TaskOf(w)
  BY <1>1, HeadTailProperties
<1>4. Taken(w) \in [Worker -> Seq(AnyTask)]
  BY <1>1, <1>3 DEF Taken
<1>5. \A v \in Worker : Taken(w)[v] \in Seq(TaskOf(v))
  BY <1>2, <1>3 DEF Queued, QueueOK
<1>6. QED
  BY <1>1, <1>2, <1>3, <1>4, <1>5 DEF QueueOK

(* The accept handlers in a queue, when it grows and shrinks.              *)
SameAccepts(q, r) == (NoAccept(q) => NoAccept(r)) /\ (OneAccept(q) => OneAccept(r))

LEMMA AppendOther ==
    ASSUME NEW q \in Seq(AnyTask), NEW t \in AnyTask, t.do \notin AcceptKind
    PROVE  SameAccepts(q, Append(q, t))
<1>1. /\ DOMAIN q = 1..Len(q) /\ DOMAIN Append(q, t) = 1..(Len(q) + 1) /\ Len(q) \in Nat
      /\ \A i \in 1..Len(q) : Append(q, t)[i] = q[i]
      /\ Append(q, t)[Len(q) + 1] = t
  BY AppendProperties
<1>2. ASSUME NoAccept(q) PROVE NoAccept(Append(q, t))
  BY <1>1, <1>2 DEF NoAccept
<1>3. ASSUME OneAccept(q) PROVE OneAccept(Append(q, t))
  <2>1. PICK i \in 1..Len(q) : /\ q[i].do \in AcceptKind
                               /\ \A j \in 1..Len(q) : q[j].do \in AcceptKind => j = i
    BY <1>1, <1>3 DEF OneAccept
  <2>2. i \in DOMAIN Append(q, t) /\ Append(q, t)[i].do \in AcceptKind
    BY <1>1, <2>1
  <2>3. ASSUME NEW j \in DOMAIN Append(q, t), Append(q, t)[j].do \in AcceptKind
        PROVE  j = i
    BY <1>1, <2>1, <2>3
  <2>4. QED
    BY <2>2, <2>3 DEF OneAccept
<1>4. QED
  BY <1>2, <1>3 DEF SameAccepts

LEMMA AppendAccept ==
    ASSUME NEW q \in Seq(AnyTask), NEW t \in AnyTask, t.do \in AcceptKind, NoAccept(q)
    PROVE  OneAccept(Append(q, t))
<1>1. /\ DOMAIN q = 1..Len(q) /\ DOMAIN Append(q, t) = 1..(Len(q) + 1) /\ Len(q) \in Nat
      /\ \A i \in 1..Len(q) : Append(q, t)[i] = q[i]
      /\ Append(q, t)[Len(q) + 1] = t
  BY AppendProperties
<1>2. PICK i \in 1..(Len(q) + 1) : i = Len(q) + 1
  BY <1>1
<1>3. i \in DOMAIN Append(q, t) /\ Append(q, t)[i].do \in AcceptKind
  BY <1>1, <1>2
<1>4. ASSUME NEW j \in DOMAIN Append(q, t), Append(q, t)[j].do \in AcceptKind PROVE j = i
  <2>1. j \in 1..Len(q) => q[j].do \notin AcceptKind
    BY <1>1 DEF NoAccept
  <2>2. QED
    BY <1>1, <1>2, <1>4, <2>1
<1>5. QED
  BY <1>3, <1>4 DEF OneAccept

LEMMA TailAccepts ==
    ASSUME NEW q \in Seq(AnyTask), q # <<>>
    PROVE  /\ NoAccept(q) => NoAccept(Tail(q)) /\ Head(q).do \notin AcceptKind
           /\ OneAccept(q) /\ Head(q).do \in AcceptKind => NoAccept(Tail(q))
           /\ OneAccept(q) /\ Head(q).do \notin AcceptKind => OneAccept(Tail(q))
<1>1. /\ Len(q) \in Nat /\ Len(q) >= 1 /\ DOMAIN q = 1..Len(q) /\ Head(q) = q[1]
      /\ DOMAIN Tail(q) = 1..(Len(q) - 1)
      /\ \A i \in 1..(Len(q) - 1) : Tail(q)[i] = q[i + 1]
  <2>1. /\ Tail(q) \in Seq(AnyTask) /\ Len(Tail(q)) = Len(q) - 1 /\ Len(q) \in Nat /\ Len(q) >= 1
        /\ \A i \in 1..Len(Tail(q)) : Tail(q)[i] = q[i + 1]
    BY HeadTailProperties, EmptySeq
  <2>2. DOMAIN q = 1..Len(q) /\ DOMAIN Tail(q) = 1..Len(Tail(q)) /\ Head(q) = q[1]
    BY <2>1
  <2>3. QED
    BY <2>1, <2>2
<1>2. \A i \in 1..(Len(q) - 1) : i + 1 \in 1..Len(q) /\ i + 1 # 1
  BY <1>1
<1>3. ASSUME NoAccept(q) PROVE NoAccept(Tail(q)) /\ Head(q).do \notin AcceptKind
  BY <1>1, <1>2, <1>3 DEF NoAccept
<1>4. ASSUME OneAccept(q)
      PROVE  /\ Head(q).do \in AcceptKind => NoAccept(Tail(q))
             /\ Head(q).do \notin AcceptKind => OneAccept(Tail(q))
  <2>1. PICK i \in 1..Len(q) : /\ q[i].do \in AcceptKind
                               /\ \A j \in 1..Len(q) : q[j].do \in AcceptKind => j = i
    BY <1>1, <1>4 DEF OneAccept
  <2>2. CASE Head(q).do \in AcceptKind
    <3>1. i = 1
      BY <1>1, <2>1, <2>2
    <3>2. QED
      BY <1>1, <1>2, <2>1, <2>2, <3>1 DEF NoAccept
  <2>3. CASE Head(q).do \notin AcceptKind
    <3>1. i # 1
      BY <1>1, <2>1, <2>3
    <3>2. PICK k \in 1..(Len(q) - 1) : k + 1 = i
      <4>1. i - 1 \in 1..(Len(q) - 1) /\ (i - 1) + 1 = i
        BY <1>1, <2>1, <3>1
      <4>2. QED
        BY <4>1
    <3>3. Tail(q)[k].do \in AcceptKind
      BY <1>1, <2>1, <3>2
    <3>4. ASSUME NEW j \in 1..(Len(q) - 1), Tail(q)[j].do \in AcceptKind PROVE j = k
      <4>1. q[j + 1].do \in AcceptKind /\ j + 1 \in 1..Len(q)
        BY <1>1, <1>2, <3>4
      <4>2. j + 1 = k + 1
        BY <2>1, <3>2, <4>1
      <4>3. QED
        BY <3>2, <4>2
    <3>5. QED
      BY <1>1, <2>3, <3>2, <3>3, <3>4 DEF OneAccept
  <2>4. QED
    BY <2>2, <2>3
<1>5. QED
  BY <1>3, <1>4

LEMMA PostSame ==
    ASSUME NEW q, QueueOK(q), NEW w, NEW t \in AnyTask, t.do \notin AcceptKind,
           w \in Worker => t \in TaskOf(w)
    PROVE  SameAccepts(q[listen_worker], Post(q, w, t)[listen_worker])
<1>1. listen_worker \in Worker /\ q[listen_worker] \in Seq(AnyTask)
  BY WorkersAssumption DEF QueueOK
<1>2. Post(q, w, t)[listen_worker]
         = IF listen_worker = w THEN Append(q[listen_worker], t) ELSE q[listen_worker]
  BY <1>1, PostOK
<1>3. SameAccepts(q[listen_worker], Append(q[listen_worker], t))
  BY <1>1, AppendOther
<1>4. QED
  BY <1>2, <1>3 DEF SameAccepts

LEMMA TakenSame ==
    ASSUME Queued, NEW w \in Worker, NEW t, Runs(w, t), t.do \notin AcceptKind
    PROVE  SameAccepts(queue[listen_worker], Taken(w)[listen_worker])
<1>1. /\ queue[w] \in Seq(AnyTask) /\ queue[w] # <<>> /\ t = Head(queue[w])
      /\ \A v \in Worker : Taken(w)[v] = IF v = w THEN Tail(queue[v]) ELSE queue[v]
  BY TakenOK
<1>2. listen_worker \in Worker
  BY WorkersAssumption
<1>3. CASE w = listen_worker
  BY <1>1, <1>2, <1>3, TailAccepts DEF SameAccepts
<1>4. CASE w # listen_worker
  BY <1>1, <1>2, <1>4 DEF SameAccepts
<1>5. QED
  BY <1>3, <1>4

(* An accept handler runs on the listen worker, and was the only one.      *)
LEMMA TakenAccept ==
    ASSUME Queued, NEW w \in Worker, NEW t, Runs(w, t), t.do \in AcceptKind
    PROVE  /\ w = listen_worker /\ ~NoAccept(queue[listen_worker])
           /\ OneAccept(queue[listen_worker]) => NoAccept(Taken(w)[listen_worker])
<1>1. /\ queue[w] \in Seq(AnyTask) /\ queue[w] # <<>> /\ t = Head(queue[w]) /\ t \in TaskOf(w)
      /\ \A v \in Worker : Taken(w)[v] = IF v = w THEN Tail(queue[v]) ELSE queue[v]
  BY TakenOK
<1>2. w = listen_worker
  BY <1>1 DEF TaskOf, Kinds, AcceptKind, ServerKind, ClientKind
<1>3. QED
  BY <1>1, <1>2, TailAccepts

----------------------------------------------------------------------------
(* Steps that leave the listener's own state alone.                        *)

LEMMA InitInv ==
    ASSUME Init PROVE ServerInv
<1> USE DEF Init, WorkerInit, ListenerInit, ConnectorInit
<1>1. Shape
  BY ServerWorkerType DEF Shape, ThreadState, SrvState, CliState
<1>2. Queued
  BY DEF Queued, QueueOK
<1>3. queue[listen_worker] = <<>>
  BY WorkersAssumption
<1>4. Loop
  BY <1>3 DEF Loop, NoAccept, Idle
<1>5. Quiet
  BY DEF Quiet
<1>6. QED
  BY <1>1, <1>2, <1>4, <1>5 DEF ServerInv

LEMMA Keep ==
    ASSUME ServerInv, QueueOK(queue'), SameAccepts(queue[listen_worker], queue'[listen_worker]),
           UNCHANGED <<alive, is_running, stopping, acceptor, user_workers, pending, thread, gave_up>>,
           backlog' = backlog \/ stopping = "no", leaving' = "done" => leaving = "done"
    PROVE  Queued' /\ Loop' /\ Quiet'
<1>1. Queued'
  BY DEF Queued
<1>2. Loop'
  <2>1. Idle' <=> Idle
    BY DEF Idle
  <2>2. /\ NoAccept(queue[listen_worker]) => NoAccept(queue'[listen_worker])
        /\ OneAccept(queue[listen_worker]) => OneAccept(queue'[listen_worker])
    BY DEF SameAccepts
  <2>3. QED
    BY <2>1, <2>2 DEF ServerInv, Loop
<1>3. Quiet'
  BY DEF ServerInv, Quiet
<1>4. QED
  BY <1>1, <1>2, <1>3

LEMMA SameQueue ==
    ASSUME ServerInv, queue' = queue
    PROVE  QueueOK(queue') /\ SameAccepts(queue[listen_worker], queue'[listen_worker])
  BY DEF ServerInv, Queued, SameAccepts

(* A handler for a connection is posted or run.                            *)
LEMMA PostClient ==
    ASSUME ServerInv, NEW k \in ClientKind, NEW c \in Conn, queue' = Post(queue, worker, Task(k, c))
    PROVE  QueueOK(queue') /\ SameAccepts(queue[listen_worker], queue'[listen_worker])
<1>1. k \in Kinds(worker) /\ k \notin AcceptKind
  BY DEF Kinds, ClientKind, AcceptKind
<1>2. Task(k, c) \in TaskOf(worker) /\ Task(k, c) \in AnyTask /\ Task(k, c).do = k
  BY <1>1, TaskOfType
<1>3. QED
  BY <1>1, <1>2, PostOK, PostSame DEF ServerInv, Queued

LEMMA ServerTask ==
    ASSUME NEW w \in ServerWorker \cup {"none"}, NEW k \in ServerKind, NEW c \in Conn
    PROVE  /\ Task(k, c) \in AnyTask /\ Task(k, c).do \notin AcceptKind
           /\ w \in Worker => Task(k, c) \in TaskOf(w)
<1>1. k \in Kinds(w) /\ k \notin AcceptKind
  BY ServerWorkerType DEF Kinds, ServerKind, AcceptKind
<1>2. QED
  BY <1>1, TaskOfType

LEMMA PostServer ==
    ASSUME ServerInv, NEW w \in ServerWorker \cup {"none"}, NEW k \in ServerKind, NEW c \in Conn,
           queue' = Post(queue, w, Task(k, c))
    PROVE  QueueOK(queue') /\ SameAccepts(queue[listen_worker], queue'[listen_worker])
  BY ServerTask, PostOK, PostSame DEF ServerInv, Queued

LEMMA TakeOther ==
    ASSUME ServerInv, NEW w \in Worker, NEW k \in ServerKind \cup ClientKind, NEW c \in Conn,
           Runs(w, Task(k, c)), queue' = Taken(w)
    PROVE  QueueOK(queue') /\ SameAccepts(queue[listen_worker], queue'[listen_worker])
<1>1. Task(k, c).do \notin AcceptKind
  BY DEF Task, ServerKind, ClientKind, AcceptKind
<1>2. QED
  BY <1>1, TakenOK, TakenSame DEF ServerInv

LEMMA EndComesStep ==
    ASSUME ServerInv, NEW c \in Conn, NEW why \in {"close", "read_error"}, Server(EndComes(c, why))
    PROVE  ServerInv'
<1> USE DEF Server, EndComes, listener_vars, connector_vars
<1>1. home[c] \in ServerWorker \cup {"none"} /\ why \in ServerKind
  BY DEF ServerInv, Shape, ServerKind
<1>2. Queued' /\ Loop' /\ Quiet'
  BY <1>1, PostServer, Keep
<1>3. Shape'
  BY DEF ServerInv, Shape
<1>4. QED
  BY <1>2, <1>3 DEF ServerInv

LEMMA OnInitStep ==
    ASSUME ServerInv, NEW w \in Worker, NEW c \in Conn,
           Server(OnInit(w, c)) \/ Server(OnRelease(w, c))
    PROVE  ServerInv'
<1> USE DEF Server, OnInit, OnRelease, connector_vars
<1>1. PICK k \in ServerKind : Runs(w, Task(k, c)) /\ queue' = Taken(w)
  BY DEF ServerKind
<1>2. Queued' /\ Loop' /\ Quiet'
  BY <1>1, TakeOther, Keep
<1>3. Shape'
  BY DEF ServerInv, Shape, SrvState
<1>4. QED
  BY <1>2, <1>3 DEF ServerInv

LEMMA OnEndStep ==
    ASSUME ServerInv, NEW w \in Worker, NEW c \in Conn, NEW why \in {"close", "read_error"},
           Server(OnEnd(w, c, why))
    PROVE  ServerInv'
<1> USE DEF Server, OnEnd, connector_vars
<1>1. why \in ServerKind /\ Runs(w, Task(why, c)) /\ Queued
  BY DEF ServerKind, ServerInv
<1>2. QueueOK(queue') /\ SameAccepts(queue[listen_worker], queue'[listen_worker])
  <2>1. CASE queue' = Taken(w)
    BY <1>1, <2>1, TakeOther
  <2>2. CASE queue' = release(w, c)
    <3>1. queue' = Post(Taken(w), listen_worker, Task("release", c))
      BY <2>2 DEF release
    <3>2. QueueOK(Taken(w)) /\ SameAccepts(queue[listen_worker], Taken(w)[listen_worker])
      <4>1. Task(why, c).do \notin AcceptKind
        BY DEF Task, AcceptKind
      <4>2. QED
        BY <1>1, <4>1, TakenOK, TakenSame
    <3>3. /\ Task("release", c) \in AnyTask /\ Task("release", c).do \notin AcceptKind
          /\ listen_worker \in Worker => Task("release", c) \in TaskOf(listen_worker)
      BY ServerWorkerType, ServerTask DEF ServerKind
    <3>4. QueueOK(queue') /\ SameAccepts(Taken(w)[listen_worker], queue'[listen_worker])
      BY <3>1, <3>2, <3>3, PostOK, PostSame
    <3>5. QED
      BY <3>2, <3>4 DEF SameAccepts
  <2>3. QED
    BY <2>1, <2>2
<1>3. Queued' /\ Loop' /\ Quiet'
  BY <1>2, Keep
<1>4. Shape'
  BY DEF ServerInv, Shape, SrvState
<1>5. QED
  BY <1>3, <1>4 DEF ServerInv

LEMMA ClientStep ==
    ASSUME ServerInv, NEW c \in Conn,
           \/ Client(add_connection(c)) \/ Client(remove_connection(c))
           \/ Client(CloseComes(c, "end")) \/ Client(CloseComes(c, "reset"))
           \/ Refused(c) \/ Connected(c)
    PROVE  ServerInv'
<1> USE DEF Client, add_connection, remove_connection, CloseComes, Refused, Connected,
            ConnectAnswer, listener_vars, connector_vars, worker_vars
<1>1. QueueOK(queue') /\ SameAccepts(queue[listen_worker], queue'[listen_worker])
  <2>1. \/ queue' = queue
        \/ \E k \in ClientKind : queue' = Post(queue, worker, Task(k, c))
    BY DEF ClientKind
  <2>2. QED
    BY <2>1, SameQueue, PostClient
<1>2. backlog' = backlog \/ stopping = "no"
  BY DEF ServerInv, Quiet, Shape
<1>3. UNCHANGED <<alive, is_running, stopping, acceptor, user_workers, pending, thread, gave_up>>
  OBVIOUS
<1>4. leaving' = "done" => leaving = "done"
  OBVIOUS
<1>5. Queued' /\ Loop' /\ Quiet'
  BY <1>1, <1>2, <1>3, <1>4, Keep
<1>6. backlog' \in Seq(Conn)
  <2>1. backlog \in Seq(Conn)
    BY DEF ServerInv, Shape
  <2>2. Append(backlog, c) \in Seq(Conn)
    BY <2>1
  <2>3. backlog' = backlog \/ backlog' = Append(backlog, c)
    OBVIOUS
  <2>4. QED
    BY <2>1, <2>2, <2>3
<1>7. /\ UNCHANGED <<srv, home, worker_index>>
      /\ cli' = cli \/ cli' = [cli EXCEPT ![c] = "connecting"]
      /\ connections' \subseteq connections \cup {c} /\ deinited' = deinited
  OBVIOUS
<1>8. Shape'
  BY <1>3, <1>6, <1>7 DEF ServerInv, Shape, CliState
<1>9. QED
  BY <1>5, <1>8 DEF ServerInv

LEMMA OnConnectStep ==
    ASSUME ServerInv, NEW c \in Conn, NEW k \in ClientKind,
           Client(OnConnect(c, k)) \/ Client(OnClose(c, k)) \/ Client(OnForget(c))
    PROVE  ServerInv'
<1> USE DEF Client, OnConnect, OnClose, OnForget, listener_vars, connector_vars
<1>0. PICK run \in ClientKind : Runs(worker, Task(run, c))
  BY DEF ClientKind
<1>1. QueueOK(queue') /\ SameAccepts(queue[listen_worker], queue'[listen_worker])
  <2>1. CASE queue' = Taken(worker)
    BY <1>0, <2>1, ServerWorkerType, TakeOther
  <2>2. CASE queue' = Post(Taken(worker), worker, Task("forget", c))
    <3>1. QueueOK(Taken(worker)) /\ SameAccepts(queue[listen_worker], Taken(worker)[listen_worker])
      <4>1. Task(run, c).do \notin AcceptKind
        BY <1>0 DEF Task, ClientKind, AcceptKind
      <4>2. QED
        BY <1>0, <4>1, ServerWorkerType, TakenOK, TakenSame DEF ServerInv
    <3>2. /\ Task("forget", c) \in TaskOf(worker) /\ Task("forget", c) \in AnyTask
          /\ Task("forget", c).do \notin AcceptKind
      <4>1. "forget" \in Kinds(worker) /\ "forget" \notin AcceptKind
        BY DEF Kinds, ClientKind, AcceptKind
      <4>2. QED
        BY <4>1, TaskOfType
    <3>3. QED
      BY <2>2, <3>1, <3>2, ServerWorkerType, PostOK, PostSame DEF SameAccepts
  <2>3. QED
    BY <2>1, <2>2
<1>2. Queued' /\ Loop' /\ Quiet'
  BY <1>1, Keep
<1>3. cli' = cli \/ \E st \in CliState : cli' = [cli EXCEPT ![c] = st]
  BY DEF CliState
<1>4. Shape'
  BY <1>3 DEF ServerInv, Shape
<1>5. QED
  BY <1>2, <1>4 DEF ServerInv

LEMMA ConnectorStopStepInv ==
    ASSUME ServerInv, Client(ConnectorStopStep) \/ Client(ConnectorStop)
    PROVE  ServerInv'
<1>1. CASE Client(StopConnection)
  <2> USE DEF Client, StopConnection, listener_vars, connector_vars
  <2>1. PICK c \in connections \ deinited :
          /\ deinited' = deinited \cup {c}
          /\ queue' = queue \/ queue' = Post(queue, worker, Task("end", c))
          /\ UNCHANGED <<alive, connections, cli, leaving>>
    BY <1>1
  <2>2. c \in Conn
    BY <2>1 DEF ServerInv, Shape
  <2>3. QueueOK(queue') /\ SameAccepts(queue[listen_worker], queue'[listen_worker])
    BY <2>1, <2>2, SameQueue, PostClient DEF ClientKind
  <2>4. Queued' /\ Loop' /\ Quiet'
    BY <1>1, <2>1, <2>3, Keep
  <2>5. Shape'
    BY <1>1, <2>1, <2>2 DEF ServerInv, Shape
  <2>6. QED
    BY <2>4, <2>5 DEF ServerInv
<1>2. CASE Client(StopWorker)
  <2> USE <1>2 DEF Client, StopWorker, Stop, listener_vars, connector_vars
  <2>1. Shape' /\ Queued'
    BY DEF ServerInv, Shape, Queued
  <2>2. Loop'
    BY DEF ServerInv, Loop, Idle
  <2>3. Quiet'
    BY DEF ServerInv, Quiet
  <2>4. QED
    BY <2>1, <2>2, <2>3 DEF ServerInv
<1>3. CASE Client(ConnectorStop)
  <2> USE <1>3 DEF Client, ConnectorStop, listener_vars, connector_vars, worker_vars
  <2>1. Queued' /\ Loop' /\ Quiet'
    BY SameQueue, Keep
  <2>2. Shape'
    BY DEF ServerInv, Shape
  <2>3. QED
    BY <2>1, <2>2 DEF ServerInv
<1>4. QED
  BY <1>1, <1>2, <1>3 DEF ConnectorStopStep, Client

----------------------------------------------------------------------------
(* The steps of the listener.                                              *)

LEMMA WorkerAtType ==
    ASSUME ServerInv, NEW i \in Nat
    PROVE  WorkerAt(i) \in ServerWorker
<1>1. user_workers \in Seq(ServerWorker)
  BY DEF ServerInv, Shape
<1>2. CASE user_workers = <<>>
  BY <1>2, ServerWorkerType DEF WorkerAt
<1>3. CASE user_workers # <<>>
  <2>1. PICK n \in Nat \ {0} : n = Len(user_workers)
    BY <1>1, <1>3, EmptySeq, LenProperties
  <2>2. i % n \in 0..(n - 1)
    OBVIOUS
  <2>3. (i % n) + 1 \in 1..n
    BY <2>2
  <2>4. user_workers[(i % n) + 1] \in ServerWorker
    BY <1>1, <2>1, <2>3, ElementOfSeq
  <2>5. QED
    BY <1>3, <2>1, <2>4 DEF WorkerAt
<1>4. QED
  BY <1>2, <1>3

LEMMA DoAccept ==
    ASSUME ServerInv, do_accept
    PROVE  pending' \in ServerWorker /\ pending' # "none" /\ worker_index' \in Nat
<1>1. worker_index \in Nat
  BY DEF ServerInv, Shape
<1>2. QED
  BY <1>1, WorkerAtType, ServerWorkerType DEF do_accept

LEMMA ConcatRange ==
    ASSUME NEW S, NEW u \in Seq(S), NEW v \in Seq(S)
    PROVE  u \o v \in Seq(S) /\ Range(u \o v) = Range(u) \cup Range(v)
<1>1. PICK s \in Seq(S) : s = u \o v
  BY ConcatProperties
<1>2. /\ DOMAIN s = 1..Len(s) /\ Len(s) = Len(u) + Len(v) /\ Len(u) \in Nat /\ Len(v) \in Nat
      /\ DOMAIN u = 1..Len(u) /\ DOMAIN v = 1..Len(v)
      /\ \A i \in 1..Len(s) : s[i] = IF i <= Len(u) THEN u[i] ELSE v[i - Len(u)]
  BY <1>1, ConcatProperties
<1>3. ASSUME NEW i \in 1..Len(s) PROVE s[i] \in Range(u) \cup Range(v)
  <2>1. CASE i <= Len(u)
    BY <1>2, <2>1 DEF Range
  <2>2. CASE ~(i <= Len(u))
    <3>1. i - Len(u) \in 1..Len(v)
      BY <1>2, <2>2
    <3>2. QED
      BY <1>2, <2>2, <3>1 DEF Range
  <2>3. QED
    BY <2>1, <2>2
<1>4. ASSUME NEW i \in 1..Len(u) PROVE u[i] \in Range(s)
  <2>1. i \in 1..Len(s) /\ s[i] = u[i]
    BY <1>2
  <2>2. QED
    BY <1>2, <2>1 DEF Range
<1>5. ASSUME NEW i \in 1..Len(v) PROVE v[i] \in Range(s)
  <2>1. PICK j \in 1..Len(s) : j = i + Len(u)
    BY <1>2
  <2>2. s[j] = v[i]
    BY <1>2, <2>1
  <2>3. QED
    BY <1>2, <2>1, <2>2 DEF Range
<1>6. Range(s) \subseteq Range(u) \cup Range(v)
  BY <1>2, <1>3 DEF Range
<1>7. Range(u) \subseteq Range(s) /\ Range(v) \subseteq Range(s)
  BY <1>2, <1>4, <1>5 DEF Range
<1>8. QED
  BY <1>1, <1>6, <1>7

LEMMA FirstWorker ==
    ASSUME ServerInv
    PROVE  (user_workers \o UserWorkers \o <<listen_worker>>)[1] \in ServerWorker
<1>1. user_workers \in Seq(ServerWorker) /\ UserWorkers \in Seq(ServerWorker)
  BY ServerWorkerType DEF ServerInv, Shape
<1>2. PICK s \in Seq(ServerWorker) : s = user_workers \o UserWorkers
  BY <1>1, ConcatProperties
<1>3. PICK u : u = <<listen_worker>>
  OBVIOUS
<1>4. u \in Seq(ServerWorker) /\ Len(u) = 1
  BY <1>3, ServerWorkerType
<1>5. s \o u \in Seq(ServerWorker) /\ Len(s \o u) = Len(s) + 1 /\ Len(s) \in Nat
  BY <1>4, ConcatProperties
<1>6. 1 \in 1..Len(s \o u)
  BY <1>5
<1>7. (s \o u)[1] \in ServerWorker
  BY <1>5, <1>6, ElementOfSeq
<1>8. QED
  BY <1>2, <1>3, <1>7

LEMMA StartStep ==
    ASSUME ServerInv,
           \/ Server(ListenerStart(FALSE)) \/ Server(ListenerStart(TRUE)) \/ Server(StartFails)
    PROVE  ServerInv'
<1> USE DEF Server, ListenerStart, StartFails, Start, connector_vars
<1>1. /\ ~is_running /\ stopping = "no" /\ stopping' = "no" /\ leaving' = leaving
      /\ user_workers' = user_workers \o UserWorkers /\ alive' = alive \cup Range(UserWorkers)
  OBVIOUS
<1>2. user_workers \in Seq(ServerWorker) /\ UserWorkers \in Seq(ServerWorker)
  BY ServerWorkerType DEF ServerInv, Shape
<1>3. /\ user_workers' \in Seq(ServerWorker)
      /\ Range(user_workers') = Range(user_workers) \cup Range(UserWorkers)
  BY <1>1, <1>2, ConcatRange
<1>4. pending' \in ServerWorker \cup {"none"} /\ worker_index' \in Nat
  BY FirstWorker DEF ServerInv, Shape
<1>5. thread' \in [AcceptThread -> ThreadState]
  BY DEF ServerInv, Shape, ThreadState
<1>6. Shape'
  BY <1>1, <1>2, <1>3, <1>4, <1>5, ServerWorkerType DEF ServerInv, Shape
<1>7. Queued' /\ queue' = queue
  BY DEF ServerInv, Queued
<1>8. Loop'
  <2>1. pending = "none" /\ NoAccept(queue[listen_worker]) /\ ~gave_up /\ Idle /\ gave_up' = gave_up
    BY <1>1 DEF ServerInv, Loop
  <2>2. CASE Server(ListenerStart(FALSE))
    <3>1. pending' # "none"
      BY <2>2, FirstWorker, ServerWorkerType
    <3>2. QED
      BY <1>7, <2>1, <2>2, <3>1 DEF Loop
  <2>3. CASE Server(ListenerStart(TRUE))
    <3>1. is_running' /\ ~Idle'
      BY <2>3 DEF Idle
    <3>2. QED
      BY <3>1 DEF Loop
  <2>4. CASE Server(StartFails)
    BY <1>1, <1>7, <2>1, <2>4 DEF Loop, Idle
  <2>5. QED
    BY <2>2, <2>3, <2>4
<1>9. Quiet'
  <2>1. /\ alive \subseteq {listen_worker, worker} \cup Range(user_workers)
        /\ leaving = "done" => worker \notin alive
    BY <1>1 DEF ServerInv, Quiet
  <2>2. worker \notin Range(UserWorkers)
    BY WorkersAssumption
  <2> HIDE DEF Server, ListenerStart, StartFails, Start, connector_vars
  <2>3. QED
    BY <1>1, <1>3, <2>1, <2>2 DEF Quiet
<1>10. QED
  BY <1>6, <1>7, <1>8, <1>9 DEF ServerInv

LEMMA CompletesStep ==
    ASSUME ServerInv, NEW why \in {"ok", "EMFILE", "error", "aborted"}, Server(Completes(why))
    PROVE  ServerInv'
<1> USE DEF Server, Completes, connector_vars
<1>1. PICK k \in AcceptKind, c \in Conn \cup {0} :
         queue' = Post(queue, listen_worker, Task(k, c))
  <2>1. CASE why = "ok"
    <3>1. Head(backlog) \in Conn
      BY <2>1 DEF ServerInv, Shape
    <3>2. QED
      BY <2>1, <3>1 DEF AcceptKind
  <2>2. CASE why # "ok"
    BY <2>2 DEF AcceptKind
  <2>3. QED
    BY <2>1, <2>2
<1>2. /\ Task(k, c) \in TaskOf(listen_worker) /\ Task(k, c) \in AnyTask /\ Task(k, c).do \in AcceptKind
      /\ listen_worker \in Worker /\ queue[listen_worker] \in Seq(AnyTask) /\ QueueOK(queue)
  <2>1. k \in Kinds(listen_worker)
    BY WorkersAssumption DEF Kinds
  <2>2. QED
    BY <2>1, TaskOfType, WorkersAssumption DEF ServerInv, Queued, QueueOK
<1>3. QueueOK(queue') /\ queue'[listen_worker] = Append(queue[listen_worker], Task(k, c))
  BY <1>1, <1>2, PostOK
<1>4. Loop'
  <2>1. pending # "none" /\ pending' = "none" /\ UNCHANGED <<is_running, stopping, thread, gave_up>>
    OBVIOUS
  <2>2. NoAccept(queue[listen_worker]) => OneAccept(queue'[listen_worker])
    BY <1>2, <1>3, AppendAccept
  <2> HIDE DEF Server, Completes
  <2>3. QED
    BY <2>1, <2>2 DEF ServerInv, Loop, Idle
<1>5. backlog' \in Seq(Conn) /\ home' \in [Conn -> ServerWorker \cup {"none"}]
  <2>1. CASE why = "ok"
    <3>1. backlog \in Seq(Conn) /\ backlog # <<>>
      BY <2>1 DEF ServerInv, Shape
    <3>2. Tail(backlog) \in Seq(Conn)
      BY <3>1, HeadTailProperties
    <3>3. QED
      BY <2>1, <3>2 DEF ServerInv, Shape
  <2>2. CASE why # "ok"
    BY <2>2 DEF ServerInv, Shape
  <2>3. QED
    BY <2>1, <2>2
<1>6. Shape'
  BY <1>5 DEF ServerInv, Shape
<1>7. Quiet'
  <2>1. backlog # <<>> \/ backlog' = backlog
    OBVIOUS
  <2>2. QED
    BY <2>1 DEF ServerInv, Quiet
<1>8. QED
  BY <1>3, <1>4, <1>6, <1>7 DEF ServerInv, Queued

LEMMA OnAcceptStep ==
    ASSUME ServerInv, NEW w \in Worker, NEW c \in Conn, Server(OnAccept(w, c))
    PROVE  ServerInv'
<1> USE DEF Server, OnAccept, connector_vars
<1>1. Runs(w, Task("accept", c)) /\ Task("accept", c).do \in AcceptKind /\ do_accept /\ Queued
  BY DEF Task, AcceptKind, ServerInv
<1>2. /\ ~NoAccept(queue[listen_worker]) /\ QueueOK(Taken(w))
      /\ OneAccept(queue[listen_worker]) => NoAccept(Taken(w)[listen_worker])
  BY <1>1, TakenAccept, TakenOK
<1>3. QueueOK(queue') /\ SameAccepts(Taken(w)[listen_worker], queue'[listen_worker])
  <2>1. CASE queue' = Taken(w)
    BY <1>2, <2>1 DEF SameAccepts
  <2>2. CASE queue' = Post(Taken(w), home[c], Task("init", c))
    <3>1. home[c] \in ServerWorker \cup {"none"} /\ "init" \in ServerKind
      BY DEF ServerInv, Shape, ServerKind
    <3>2. /\ Task("init", c) \in AnyTask /\ Task("init", c).do \notin AcceptKind
          /\ home[c] \in Worker => Task("init", c) \in TaskOf(home[c])
      BY <3>1, ServerTask
    <3>3. QED
      BY <1>2, <2>2, <3>2, PostOK, PostSame
  <2>3. QED
    BY <2>1, <2>2
<1>4. pending' \in ServerWorker /\ pending' # "none" /\ worker_index' \in Nat
  BY <1>1, DoAccept
<1>5. Loop'
  <2>1. UNCHANGED <<is_running, stopping, thread, gave_up>>
    OBVIOUS
  <2>2. OneAccept(queue[listen_worker]) => NoAccept(queue'[listen_worker])
    BY <1>2, <1>3 DEF SameAccepts
  <2> HIDE DEF Server, OnAccept
  <2>3. QED
    BY <1>2, <1>4, <2>1, <2>2 DEF ServerInv, Loop, Idle
<1>6. Shape'
  BY <1>4 DEF ServerInv, Shape, SrvState
<1>7. Quiet'
  BY DEF ServerInv, Quiet
<1>8. QED
  BY <1>3, <1>5, <1>6, <1>7 DEF ServerInv, Queued

LEMMA OnAcceptErrorStep ==
    ASSUME ServerInv, NEW w \in Worker, NEW why \in {"EMFILE", "error", "aborted"},
           Server(OnAcceptError(w, why))
    PROVE  ServerInv'
<1> USE DEF Server, OnAcceptError, connector_vars
<1>1. Runs(w, Task(why, 0)) /\ Task(why, 0).do \in AcceptKind /\ Queued /\ queue' = Taken(w)
  BY DEF Task, AcceptKind, ServerInv
<1>2. /\ ~NoAccept(queue[listen_worker]) /\ QueueOK(queue')
      /\ OneAccept(queue[listen_worker]) => NoAccept(queue'[listen_worker])
  BY <1>1, TakenAccept, TakenOK
<1>3. \/ pending' \in ServerWorker /\ pending' # "none" /\ worker_index' \in Nat /\ gave_up' = gave_up
      \/ UNCHANGED <<pending, worker_index>> /\ gave_up'
  BY DoAccept
<1>4. Loop'
  <2>1. UNCHANGED <<is_running, stopping, thread>>
    OBVIOUS
  <2> HIDE DEF Server, OnAcceptError
  <2>2. QED
    BY <1>2, <1>3, <2>1 DEF ServerInv, Loop, Idle
<1>5. Shape'
  BY <1>3 DEF ServerInv, Shape
<1>6. Quiet'
  BY DEF ServerInv, Quiet
<1>7. QED
  BY <1>2, <1>4, <1>5, <1>6 DEF ServerInv, Queued

(* A step of an accept thread: it has left "idle" for good.                *)
LEMMA ThreadLoop ==
    ASSUME ServerInv, NEW t \in AcceptThread, thread[t].pc # "idle", thread'[t].pc # "idle",
           UNCHANGED <<is_running, stopping>>
    PROVE  Loop'
<1>1. ~Idle /\ ~Idle'
  BY DEF Idle
<1>2. QED
  BY <1>1 DEF ServerInv, Loop

LEMMA ThreadStepInv ==
    ASSUME ServerInv, NEW t \in AcceptThread,
           \/ Server(Choose(t)) \/ Server(Advance(t)) \/ Server(SyncAcceptFails(t))
    PROVE  ServerInv'
<1> USE DEF Server, Choose, Advance, SyncAcceptFails, connector_vars, worker_vars
<1>1. /\ thread \in [AcceptThread -> ThreadState] /\ worker_index \in Nat
      /\ thread[t].index \in Nat /\ thread[t].pc # "idle"
  BY DEF ServerInv, Shape, ThreadState
<1>2. WorkerAt(thread[t].index) \in ServerWorker
  BY <1>1, WorkerAtType
<1>3. thread' \in [AcceptThread -> ThreadState] /\ thread'[t].pc # "idle" /\ worker_index' \in Nat
  <2>1. CASE Server(Choose(t))
    <3>1. thread[t] \in ThreadState
      BY <1>1
    <3>2. /\ [thread[t] EXCEPT !.pc = "advance", !.index = worker_index] \in ThreadState
          /\ [thread[t] EXCEPT !.pc = "ended"] \in ThreadState
      BY <1>1, <3>1 DEF ThreadState
    <3>3. PICK r \in ThreadState : r.pc # "idle" /\ thread' = [thread EXCEPT ![t] = r]
      <4>1. CASE is_running
        BY <2>1, <3>1, <3>2, <4>1 DEF ThreadState
      <4>2. CASE ~is_running
        BY <2>1, <3>1, <3>2, <4>2 DEF ThreadState
      <4>3. QED
        BY <4>1, <4>2
    <3>4. worker_index' = worker_index
      BY <2>1
    <3>5. QED
      BY <1>1, <3>3, <3>4
  <2>2. CASE Server(Advance(t))
    <3>1. thread[t] \in ThreadState
      BY <1>1
    <3>2. PICK r \in ThreadState :
             r = [thread[t] EXCEPT !.pc = "accept", !.worker = WorkerAt(thread[t].index)]
      BY <1>2, <3>1 DEF ThreadState
    <3>3. r.pc = "accept" /\ thread' = [thread EXCEPT ![t] = r]
      BY <2>2, <1>1, <3>1, <3>2 DEF ThreadState
    <3>4. worker_index' \in Nat
      BY <2>2, <1>1
    <3>5. QED
      BY <1>1, <3>3, <3>4
  <2>3. CASE Server(SyncAcceptFails(t))
    BY <1>1, <2>3 DEF ThreadState
  <2>4. QED
    BY <2>1, <2>2, <2>3
<1>4. Loop'
  BY <1>1, <1>3, ThreadLoop
<1>5. Shape' /\ Queued'
  BY <1>3 DEF ServerInv, Shape, Queued
<1>6. Quiet'
  <2>1. UNCHANGED <<alive, is_running, stopping, acceptor, backlog, user_workers, leaving>>
    OBVIOUS
  <2> HIDE DEF Server, Choose, Advance, SyncAcceptFails
  <2>2. QED
    BY <2>1 DEF ServerInv, Quiet
<1>7. QED
  BY <1>4, <1>5, <1>6 DEF ServerInv

LEMMA SyncAcceptStep ==
    ASSUME ServerInv, NEW t \in AcceptThread, Server(SyncAccept(t))
    PROVE  ServerInv'
<1> USE DEF Server, SyncAccept, connector_vars
<1>1. /\ thread \in [AcceptThread -> ThreadState] /\ backlog \in Seq(Conn) /\ backlog # <<>>
      /\ thread[t].worker \in ServerWorker \cup {"none"}
  BY DEF ServerInv, Shape, ThreadState
<1>2. Head(backlog) \in Conn /\ Tail(backlog) \in Seq(Conn)
  BY <1>1, HeadTailProperties
<1>3. QueueOK(queue')
  BY <1>1, <1>2, PostServer DEF ServerKind
<1>4. thread' \in [AcceptThread -> ThreadState] /\ thread'[t].pc # "idle"
  BY <1>1 DEF ThreadState
<1>5. Loop'
  BY <1>4, ThreadLoop
<1>6. Shape'
  BY <1>1, <1>2, <1>4 DEF ServerInv, Shape, SrvState
<1>7. Quiet'
  BY <1>1 DEF ServerInv, Quiet
<1>8. QED
  BY <1>3, <1>5, <1>6, <1>7 DEF ServerInv, Queued

LEMMA StopStepInv ==
    ASSUME ServerInv, Server(StopBegin) \/ Server(StopStep)
    PROVE  ServerInv'
<1> USE DEF Server, connector_vars
<1>1. CASE Server(StopBegin)
  <2> USE <1>1 DEF StopBegin, worker_vars
  <2>1. Shape' /\ Queued'
    BY DEF ServerInv, Shape, Queued, SrvState
  <2>2. Loop'
    BY DEF Loop
  <2>3. Quiet'
    BY DEF ServerInv, Quiet, Shape
  <2>4. QED
    BY <2>1, <2>2, <2>3 DEF ServerInv
<1>2. CASE Server(StopUserWorker)
  <2> USE <1>2 DEF StopUserWorker, Stop
  <2>0. /\ alive' \subseteq alive /\ user_workers' \in Seq(ServerWorker)
        /\ stopping' \in {"workers", "listen"}
    <3>1. CASE Range(user_workers) \cap alive # {}
      BY <3>1 DEF ServerInv, Shape
    <3>2. CASE Range(user_workers) \cap alive = {}
      <4>1. user_workers' = <<>> /\ stopping' = "listen" /\ alive' = alive
        BY <3>2
      <4>2. QED
        BY <4>1
    <3>3. QED
      BY <3>1, <3>2
  <2>1. Shape' /\ Queued'
    BY <2>0 DEF ServerInv, Shape, Queued
  <2>2. Loop'
    BY DEF ServerInv, Loop, Quiet
  <2>3. Quiet'
    BY DEF ServerInv, Quiet
  <2>4. QED
    BY <2>1, <2>2, <2>3 DEF ServerInv
<1>3. CASE Server(StopListenWorker)
  <2> USE <1>3 DEF StopListenWorker, Stop
  <2>1. Shape' /\ Queued'
    BY DEF ServerInv, Shape, Queued
  <2>2. Loop'
    BY DEF ServerInv, Loop, Quiet
  <2>3. Quiet'
    BY DEF ServerInv, Quiet
  <2>4. QED
    BY <2>1, <2>2, <2>3 DEF ServerInv
<1>4. QED
  BY <1>1, <1>2, <1>3 DEF StopStep

LEMMA StutterStep ==
    ASSUME ServerInv, UNCHANGED vars
    PROVE  ServerInv'
<1> USE DEF vars, worker_vars, listener_vars, connector_vars
<1>1. Queued' /\ Loop' /\ Quiet'
  BY SameQueue, Keep
<1>2. Shape'
  BY DEF ServerInv, Shape
<1>3. QED
  BY <1>1, <1>2 DEF ServerInv

LEMMA HandlerStep ==
    ASSUME ServerInv, NEW w \in Worker, Server(Handler(w))
    PROVE  ServerInv'
<1>1. ASSUME NEW c \in Conn, Server(OnAccept(w, c)) PROVE ServerInv'
  BY <1>1, OnAcceptStep
<1>2. ASSUME NEW c \in Conn, Server(OnInit(w, c)) \/ Server(OnRelease(w, c)) PROVE ServerInv'
  BY <1>2, OnInitStep
<1>3. ASSUME NEW c \in Conn, NEW why \in {"close", "read_error"}, Server(OnEnd(w, c, why))
      PROVE  ServerInv'
  BY <1>3, OnEndStep
<1>4. ASSUME NEW why \in {"EMFILE", "error", "aborted"}, Server(OnAcceptError(w, why))
      PROVE  ServerInv'
  BY <1>4, OnAcceptErrorStep
<1>5. QED
  BY <1>1, <1>2, <1>3, <1>4 DEF Handler, Server

LEMMA NextStep ==
    ASSUME ServerInv, [Next]_vars
    PROVE  ServerInv'
<1>1. ASSUME User PROVE ServerInv'
  BY <1>1, StartStep, StopStepInv, ConnectorStopStepInv, ClientStep, EndComesStep DEF User
<1>2. ASSUME NEW c \in Conn, Kernel(c) PROVE ServerInv'
  <2>1. ASSUME ServerHears(c) PROVE ServerInv'
    BY <2>1, EndComesStep DEF ServerHears
  <2>2. ASSUME ClientHears(c) PROVE ServerInv'
    BY <2>2, ClientStep DEF ClientHears
  <2>3. QED
    BY <1>2, <2>1, <2>2, ClientStep DEF Kernel
<1>3. CASE AcceptCompletes
  BY <1>3, CompletesStep DEF AcceptCompletes
<1>4. ASSUME NEW t \in AcceptThread, Server(ThreadStep(t)) \/ Server(SyncAcceptFails(t))
      PROVE  ServerInv'
  BY <1>4, ThreadStepInv, SyncAcceptStep DEF ThreadStep, Server
<1>5. CASE Client(ConnectorHandler)
  BY <1>5, OnConnectStep DEF ConnectorHandler, ClientKind, Client
<1>6. CASE UNCHANGED vars
  BY <1>6, StutterStep
<1>7. QED
  BY <1>1, <1>2, <1>3, <1>4, <1>5, <1>6, HandlerStep, StopStepInv, ConnectorStopStepInv DEF Next

----------------------------------------------------------------------------
(* The theorems.                                                           *)

LEMMA InvGives ==
    ASSUME ServerInv PROVE ListenerSound
<1>1. TypeOK
  BY ServerWorkerType DEF ServerInv, Shape, TypeOK
<1>2. AcceptLoopAlive
  <2>1. SUFFICES ASSUME is_running, Idle
                 PROVE  (IF pending = "none" THEN 0 ELSE 1) + Cardinality(AcceptTasks)
                          = IF gave_up THEN 0 ELSE 1
    BY DEF AcceptLoopAlive, Idle
  <2>2. NoAccept(queue[listen_worker]) => Cardinality(AcceptTasks) = 0
    <3>1. ASSUME NoAccept(queue[listen_worker]) PROVE AcceptTasks = {}
      BY <3>1 DEF NoAccept, AcceptTasks, AcceptKind
    <3>2. QED
      BY <3>1, FS_EmptySet
  <2>3. OneAccept(queue[listen_worker]) => Cardinality(AcceptTasks) = 1
    <3>1. ASSUME OneAccept(queue[listen_worker]) PROVE \E i : AcceptTasks = {i}
      BY <3>1 DEF OneAccept, AcceptTasks, AcceptKind
    <3>2. QED
      BY <3>1, FS_Singleton
  <2>4. \/ pending = "none" /\ NoAccept(queue[listen_worker]) /\ gave_up
        \/ pending # "none" /\ NoAccept(queue[listen_worker]) /\ ~gave_up
        \/ pending = "none" /\ OneAccept(queue[listen_worker]) /\ ~gave_up
    BY <2>1 DEF ServerInv, Loop
  <2>5. QED
    BY <2>2, <2>3, <2>4
<1>3. QED
  BY <1>1, <1>2 DEF ListenerSound

(* The accept loop of do_accept() neither dies nor doubles: while the      *)
(* listener runs without accept threads, one async_accept is outstanding   *)
(* or its handler is queued, until an error has ended the loop.            *)
THEOREM ListenerIsSound == Spec => []ListenerSound
<1>1. Init => ServerInv
  BY InitInv
<1>2. ServerInv /\ [Next]_vars => ServerInv'
  BY NextStep
<1>3. ServerInv => ListenerSound
  BY InvGives
<1>4. QED
  BY <1>1, <1>2, <1>3, PTL DEF Spec

(* No thread that could touch a connection of a stopped side is left.      *)
LEMMA StoppedServer ==
    ASSUME ServerInv, stopping = "done", [Next]_vars
    PROVE  UNCHANGED srv
<1>1. /\ alive \subseteq {worker} /\ ~is_running /\ acceptor = "closed" /\ backlog = <<>>
  BY DEF ServerInv, Quiet
<1>2. ASSUME NEW w \in Worker, Server(Handler(w)) PROVE FALSE
  <2>1. PICK k \in AcceptKind \cup ServerKind, c \in Conn \cup {0} : Runs(w, Task(k, c))
    BY <1>2 DEF Server, Handler, OnAccept, OnInit, OnRelease, OnEnd, OnAcceptError, AcceptKind, ServerKind
  <2>2. w = worker
    BY <1>1, <2>1 DEF Runs
  <2>3. Task(k, c) \in TaskOf(worker)
    BY <2>1, <2>2, TakenOK DEF ServerInv
  <2>4. k \in ClientKind
    BY <2>3 DEF TaskOf, Kinds, Task
  <2>5. QED
    BY <2>1, <2>4 DEF AcceptKind, ServerKind, ClientKind
<1>3. ASSUME NEW t \in AcceptThread, Server(ThreadStep(t)) \/ Server(SyncAcceptFails(t))
      PROVE  srv' = srv
  BY <1>1, <1>3 DEF Server, ThreadStep, Choose, Advance, SyncAccept, SyncAcceptFails
<1>4. ASSUME User PROVE srv' = srv
  BY <1>1, <1>4 DEF User, Server, Client, ListenerStart, StartFails, StopBegin, EndComes, listener_vars
<1>5. ASSUME NEW c \in Conn, Kernel(c) PROVE srv' = srv
  BY <1>5 DEF Kernel, Connected, Refused, ServerHears, ClientHears, Server, Client, EndComes, listener_vars
<1>6. CASE AcceptCompletes
  BY <1>6 DEF AcceptCompletes, Server, Completes
<1>7. CASE Server(StopStep)
  BY <1>7 DEF Server, StopStep, StopUserWorker, StopListenWorker
<1>8. CASE Client(ConnectorHandler) \/ Client(ConnectorStopStep) \/ UNCHANGED vars
  BY <1>8 DEF Client, listener_vars, vars
<1>9. QED
  BY <1>2, <1>3, <1>4, <1>5, <1>6, <1>7, <1>8 DEF Next

LEMMA StoppedClient ==
    ASSUME ServerInv, leaving = "done", [Next]_vars
    PROVE  UNCHANGED cli
<1>1. worker \notin alive
  BY DEF ServerInv, Quiet
<1>2. ASSUME Client(ConnectorHandler) PROVE FALSE
  BY <1>1, <1>2 DEF Client, ConnectorHandler, OnConnect, OnClose, OnForget, Runs
<1>3. ASSUME Client(ConnectorStopStep) PROVE cli' = cli
  BY <1>3 DEF Client, ConnectorStopStep, StopConnection, StopWorker
<1>4. ASSUME User PROVE cli' = cli
  BY <1>4 DEF User, Server, Client, ConnectorStop, add_connection, remove_connection, CloseComes,
              connector_vars
<1>5. ASSUME NEW c \in Conn, Kernel(c) PROVE cli' = cli
  BY <1>5 DEF Kernel, Connected, Refused, ServerHears, ClientHears, Server, Client, ConnectAnswer,
              CloseComes, connector_vars
<1>6. CASE AcceptCompletes
  BY <1>6 DEF AcceptCompletes, Server, connector_vars
<1>7. CASE \/ Server(StopStep) \/ \E w \in Worker : Server(Handler(w))
           \/ \E t \in AcceptThread : Server(ThreadStep(t)) \/ Server(SyncAcceptFails(t))
  BY <1>7 DEF Server, connector_vars
<1>8. CASE UNCHANGED vars
  BY <1>8 DEF vars, connector_vars
<1>9. QED
  BY <1>2, <1>3, <1>4, <1>5, <1>6, <1>7, <1>8 DEF Next

(* Once the stop() of a side has returned, none of its connections changes *)
(* state: handlers that were queued are never run, and an accept thread    *)
(* that is still there finds no connection.                                *)
THEOREM StoppedStaysQuiet == Spec => StopIsFinal
<1>1. Init => ServerInv
  BY InitInv
<1>2. ServerInv /\ [Next]_vars => ServerInv'
  BY NextStep
<1>3. ServerInv /\ [Next]_vars =>
        [/\ stopping = "done" => UNCHANGED srv
         /\ leaving = "done" => UNCHANGED cli]_vars
  BY StoppedServer, StoppedClient
<1>4. QED
  BY <1>1, <1>2, <1>3, PTL DEF Spec, StopIsFinal
=============================================================================
