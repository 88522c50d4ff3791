---------------------------- MODULE TcpConnector ----------------------------
(***************************************************************************)
(* TcpConnector (src/include/tcp/asio/tcp_connector.hpp): the connections  *)
(* of a client, by their ids, on one worker, and stop().  add_connection() *)
(* always uses the first worker, because get_worker() is called with its   *)
(* default index 0.  As in TcpListener, a connection is kept as far as its *)
(* connector sees it.                                                      *)
(***************************************************************************)
EXTENDS KNetWorker

CONSTANT worker  \* the connector's own worker

VARIABLES
  connections,   \* the ids in the map
  deinited,      \* connections without their user_event_handler
  cli,           \* [Conn -> state of the connection at the client]
  leaving        \* how far stop() has come
connector_vars == <<connections, deinited, cli, leaving>>

CliState == {"none", "connecting", "up", "failed", "ended", "released"}

ConnectorInit ==
  /\ connections = {} /\ deinited = {} /\ leaving = "no"
  /\ cli = [c \in Conn |-> "none"]

(* cids count up.                                                          *)
add_connection(c) ==
  /\ leaving = "no" /\ cli[c] = "none" /\ \A d \in Conn : d < c => cli[d] # "none"
  /\ connections' = connections \cup {c} /\ cli' = [cli EXCEPT ![c] = "connecting"]
  /\ UNCHANGED <<worker_vars, deinited, leaving>>

(* Only the map forgets the connection; its socket lives on.               *)
remove_connection(c) ==
  /\ leaving = "no" /\ c \in connections
  /\ connections' = connections \ {c}
  /\ UNCHANGED <<worker_vars, deinited, cli, leaving>>

(* The kernel's answer to async_connect.  A failed attempt closes the      *)
(* socket and raises no event.                                             *)
ConnectAnswer(c, why) ==
  /\ cli[c] = "connecting"
  /\ \A t \in {"connected", "connect_error"} : Task(t, c) \notin Range(queue[worker])
  /\ queue' = Post(queue, worker, Task(why, c))
  /\ UNCHANGED <<alive, connector_vars>>
OnConnect(c, why) ==
  /\ Runs(worker, Task(why, c)) /\ queue' = Taken(worker)
  /\ cli' = IF cli[c] # "connecting" THEN cli
            ELSE [cli EXCEPT ![c] = IF why = "connected" THEN "up" ELSE "failed"]
  /\ UNCHANGED <<alive, connections, deinited, leaving>>

(* close() by the user ("end"), or the kernel reports the peer gone.       *)
CloseComes(c, why) ==
  /\ cli[c] = "up" \/ (cli[c] = "connecting" /\ why = "end")
  /\ Task(why, c) \notin Range(queue[worker])
  /\ queue' = Post(queue, worker, Task(why, c))
  /\ UNCHANGED <<alive, connector_vars>>

(* The socket ends: EVT_DISCONNECT and EVT_RELEASE reach handle_event(),   *)
(* which posts the factory's release of the connection, unless stop() has  *)
(* taken the handler away.  close()'s lambda does so for an attempt that   *)
(* has failed in the meantime too.                                         *)
OnClose(c, why) ==
  /\ Runs(worker, Task(why, c))
  /\ IF cli[c] \in {"none", "ended", "released"} \/ (why = "reset" /\ cli[c] # "up")
     THEN queue' = Taken(worker) /\ UNCHANGED cli
     ELSE /\ queue' = IF c \in deinited THEN Taken(worker)
                      ELSE Post(Taken(worker), worker, Task("forget", c))
          /\ cli' = [cli EXCEPT ![c] = "ended"]
  /\ UNCHANGED <<alive, connections, deinited, leaving>>
(* The lambda of handle_event(EVT_RELEASE).                                *)
OnForget(c) ==
  /\ Runs(worker, Task("forget", c)) /\ queue' = Taken(worker)
  /\ cli' = [cli EXCEPT ![c] = "released"]
  /\ UNCHANGED <<alive, connections, deinited, leaving>>

(* stop(): deinit() and close(true) for each connection, then the worker.  *)
StopConnection ==
  \E c \in connections \ deinited :
    /\ leaving = "closing" /\ deinited' = deinited \cup {c}
    /\ queue' = IF cli[c] \in {"connecting", "up"} THEN Post(queue, worker, Task("end", c))
                ELSE queue
    /\ UNCHANGED <<alive, connections, cli, leaving>>
ConnectorStop ==
  /\ leaving = "no" /\ leaving' = "closing"
  /\ UNCHANGED <<worker_vars, connections, deinited, cli>>
StopWorker ==
  /\ leaving = "closing" /\ connections \subseteq deinited
  /\ leaving' = "done" /\ connections' = {} /\ Stop(worker)
  /\ UNCHANGED <<queue, deinited, cli>>

ConnectorHandler ==
  \E c \in Conn : \/ \E why \in {"connected", "connect_error"} : OnConnect(c, why)
                  \/ \E why \in {"end", "reset"} : OnClose(c, why)
                  \/ OnForget(c)
ConnectorStopStep == StopConnection \/ StopWorker
=============================================================================
