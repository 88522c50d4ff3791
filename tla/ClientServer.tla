---------------------------- MODULE ClientServer ----------------------------
(***************************************************************************)
(* A client and a server program: a TcpConnector and a TcpListener, whose  *)
(* connections meet in the kernel.  Each side sees the other only through  *)
(* its own workers' queues, and each may stop() at any time.               *)
(***************************************************************************)
EXTENDS TcpListener, TcpConnector

(* The programs do not share a worker.                                     *)
ASSUME WorkersAssumption ==
  /\ listen_worker \in Worker /\ UserWorkers \in Seq(Worker) /\ worker \in Worker
  /\ worker # listen_worker /\ worker \notin Range(UserWorkers)
  /\ "none" \notin Worker

vars == <<worker_vars, listener_vars, connector_vars>>

Init == WorkerInit /\ ListenerInit /\ ConnectorInit /\ alive = {listen_worker, worker}

Server(A) == A /\ UNCHANGED connector_vars
Client(A) == A /\ UNCHANGED listener_vars

(* The kernel connects c when the server listens.                          *)
Connected(c) == /\ acceptor = "listening" /\ ConnectAnswer(c, "connected")
                /\ backlog' = Append(backlog, c)
                /\ UNCHANGED <<is_running, stopping, acceptor, user_workers, worker_index, pending,
                               thread, home, srv, errors, gave_up>>
Refused(c) == acceptor # "listening" /\ Client(ConnectAnswer(c, "connect_error"))

(* Each end learns that the other has closed its socket.                   *)
ServerHears(c) == cli[c] \in {"ended", "released"} /\ Server(EndComes(c, "read_error"))
ClientHears(c) == /\ srv[c] \in {"ended", "released", "refused"}
                  /\ Client(CloseComes(c, "reset"))
Kernel(c) == Connected(c) \/ Refused(c) \/ ServerHears(c) \/ ClientHears(c)

AcceptCompletes == \E why \in {"ok", "EMFILE", "error", "aborted"} : Server(Completes(why))

User ==
  \/ Server(ListenerStart(FALSE)) \/ Server(ListenerStart(TRUE)) \/ Server(StartFails)
  \/ Server(StopBegin)
  \/ Client(ConnectorStop)
  \/ \E c \in Conn : \/ Client(add_connection(c)) \/ Client(remove_connection(c))
                     \/ Client(CloseComes(c, "end")) \/ Server(EndComes(c, "close"))

Next == \/ User \/ (\E c \in Conn : Kernel(c)) \/ AcceptCompletes
        \/ \E w \in Worker : Server(Handler(w))
        \/ \E t \in AcceptThread : Server(ThreadStep(t)) \/ Server(SyncAcceptFails(t))
        \/ Server(StopStep)
        \/ Client(ConnectorHandler) \/ Client(ConnectorStopStep)

(* Threads run and the kernel answers; users and errors need not come.     *)
Fairness ==
  /\ \A w \in Worker : WF_vars(Server(Handler(w)))
  /\ \A t \in AcceptThread : WF_vars(Server(ThreadStep(t)))
  /\ WF_vars(Client(ConnectorHandler))
  /\ WF_vars(Server(Completes("ok"))) /\ \A c \in Conn : WF_vars(Kernel(c))

Spec == Init /\ [][Next]_vars /\ Fairness

----------------------------------------------------------------------------
(* Properties                                                              *)
TypeOK ==
  /\ alive \subseteq Worker /\ srv \in [Conn -> SrvState] /\ cli \in [Conn -> CliState]
  /\ home \in [Conn -> Worker \cup {"none"}] /\ pending \in Worker \cup {"none"}
  /\ connections \subseteq Conn /\ deinited \subseteq Conn

(* As long as the listener runs and no error has ended its accept loop,    *)
(* exactly one accept is outstanding or its handler is on its way: the     *)
(* listener neither goes deaf nor accepts twice.                           *)
AcceptTasks == {i \in DOMAIN queue[listen_worker] :
                  queue[listen_worker][i].do \in {"accept", "EMFILE", "error", "aborted"}}
AcceptLoopAlive ==
  (is_running /\ \A t \in AcceptThread : thread[t].pc = "idle") =>
    (IF pending = "none" THEN 0 ELSE 1) + Cardinality(AcceptTasks) = IF gave_up THEN 0 ELSE 1

(* The listener has its shape and is listening.                            *)
ListenerSound == TypeOK /\ AcceptLoopAlive

(* Once stop() has returned, no connection of that side changes state any  *)
(* more: neither its events nor the factory are called again, whatever was *)
(* still queued and whatever the accept threads still do.                  *)
StopIsFinal == [][/\ stopping = "done" => UNCHANGED srv
                  /\ leaving = "done" => UNCHANGED cli]_vars

(* A connection that has come up at the client is served: it comes up at   *)
(* the server too, unless the server closes it unseen (its address was     *)
(* gone before the accept handler asked for it), one of the sides stops or *)
(* accept errors have ended the loop.                                      *)
Stopped == stopping # "no" \/ leaving # "no"
PeersAreServed ==
  \A c \in Conn : (cli[c] = "up") ~> (srv[c] \in {"up", "ended", "released", "refused"}
                                        \/ gave_up \/ Stopped)

(* When one end of a connection has ended, the other ends too, and the     *)
(* factories of both sides release it, unless a side stops.                *)
BothEndsEnd ==
  \A c \in Conn :
    (srv[c] = "ended" \/ (srv[c] = "up" /\ cli[c] = "released")) ~>
      ((srv[c] = "released" /\ cli[c] = "released") \/ Stopped)
=============================================================================
