----------------------------- MODULE TcpListener -----------------------------
(***************************************************************************)
(* TcpListener (src/include/tcp/asio/tcp_listener.hpp): the accept loop,   *)
(* asynchronous or in threads of its own, the choice of a worker for every *)
(* connection, creation and release of connections, and stop().            *)
(*                                                                         *)
(* The sockets it accepts are TcpSockets; of them only the part the        *)
(* listener sees is kept: a connection comes up when its worker runs       *)
(* init_conn()'s lambda, ends once, by close() or because its peer has     *)
(* closed, and then raises EVT_RELEASE, on its own worker's thread.        *)
(***************************************************************************)
EXTENDS KNetWorker

CONSTANTS
  UserWorkers,     \* the workers that start() creates, in their order
  listen_worker,
  AcceptThread,    \* sync_accept_threads
  MaxErrors        \* bound on accept errors

VARIABLES
  is_running, stopping,        \* of the listener; how far stop() has come
  acceptor,                    \* "closed", "open" or "listening"
  backlog,                     \* connections the kernel holds for accept()
  user_workers, worker_index,
  pending,                     \* worker of the outstanding async_accept, or "none"
  thread,                      \* [AcceptThread -> [pc, worker, index]]
  home,                        \* the worker whose context a connection's socket uses
  srv,                         \* [Conn -> state of the connection at the server]
  errors, gave_up              \* accept errors so far; one of them ended the loop
listener_vars == <<is_running, stopping, acceptor, backlog, user_workers, worker_index, pending,
                   thread, home, srv, errors, gave_up>>

SrvState == {"none", "accepted", "up", "ended", "released", "refused"}

ListenerInit ==
  /\ is_running = FALSE /\ stopping = "no" /\ acceptor = "closed" /\ backlog = <<>>
  /\ user_workers = <<>> /\ worker_index = 0 /\ pending = "none"
  /\ thread = [t \in AcceptThread |-> [pc |-> "idle", worker |-> "none", index |-> 0]]
  /\ home = [c \in Conn |-> "none"] /\ srv = [c \in Conn |-> "none"]
  /\ errors = 0 /\ gave_up = FALSE

(* get_worker(): round robin over the user workers.                        *)
WorkerAt(i) == IF user_workers = <<>> THEN listen_worker
               ELSE user_workers[(i % Len(user_workers)) + 1]

(* Mutant: the next accept is not started.                                 *)
do_accept_stopped == pending' = "none" /\ UNCHANGED worker_index
(* do_accept(): the socket of the next connection belongs to the worker    *)
(* chosen now.                                                             *)
do_accept == /\ pending' = WorkerAt(worker_index)
             /\ worker_index' = IF user_workers = <<>> THEN worker_index ELSE worker_index + 1

(* start(): async_accept, or `AcceptThread' threads; bind or listen may fail.*)
ListenerStart(threads) ==
  /\ ~is_running /\ stopping = "no" /\ acceptor = "closed"
  /\ threads => AcceptThread # {}
  /\ user_workers' = user_workers \o UserWorkers
  /\ Start(Range(UserWorkers))
  /\ is_running' = TRUE /\ acceptor' = "listening"
  /\ IF threads
     THEN /\ thread' = [t \in AcceptThread |-> [pc |-> "choose", worker |-> "none", index |-> 0]]
          /\ UNCHANGED <<pending, worker_index>>
     ELSE /\ pending' = (user_workers \o UserWorkers \o <<listen_worker>>)[1]
          /\ worker_index' = IF UserWorkers = <<>> THEN 0 ELSE 1
          /\ UNCHANGED thread
  /\ UNCHANGED <<queue, stopping, backlog, home, srv, errors, gave_up>>

StartFails ==
  /\ ~is_running /\ stopping = "no" /\ acceptor = "closed"
  /\ user_workers' = user_workers \o UserWorkers
  /\ Start(Range(UserWorkers))
  /\ acceptor' = "open"
  /\ UNCHANGED <<queue, is_running, stopping, backlog, worker_index, pending, thread, home, srv,
                 errors, gave_up>>

(* The kernel completes the outstanding accept: with a connection, with    *)
(* EMFILE, with another error, or, once the acceptor is closed, aborted.   *)
Completes(why) ==
  /\ pending # "none" /\ pending' = "none"
  /\ why = "aborted" <=> acceptor = "closed"
  /\ IF why = "ok" THEN /\ backlog # <<>> /\ backlog' = Tail(backlog)
                        /\ home' = [home EXCEPT ![Head(backlog)] = pending]
                        /\ queue' = Post(queue, listen_worker, Task("accept", Head(backlog)))
                        /\ UNCHANGED errors
     ELSE /\ queue' = Post(queue, listen_worker, Task(why, 0))
          /\ errors' = IF why = "aborted" THEN errors ELSE errors + 1
          /\ errors' <= MaxErrors
          /\ UNCHANGED <<backlog, home>>
  /\ UNCHANGED <<alive, is_running, stopping, acceptor, user_workers, worker_index, thread, srv,
                 gave_up>>

(* The accept handler.  A peer that has gone already (remote_endpoint()    *)
(* fails) only costs its socket.                                           *)
OnAccept(w, c) ==
  /\ Runs(w, Task("accept", c))
  /\ \/ /\ queue' = Post(Taken(w), home[c], Task("init", c))
        /\ srv' = [srv EXCEPT ![c] = "accepted"]
     \/ /\ queue' = Taken(w) /\ srv' = [srv EXCEPT ![c] = "refused"]
  /\ do_accept
  /\ UNCHANGED <<alive, is_running, stopping, acceptor, backlog, user_workers, thread, home,
                 errors, gave_up>>

(* Mutant: every error ends the accept loop.                               *)
OnAcceptErrorStops(w, why) ==
  /\ Runs(w, Task(why, 0)) /\ queue' = Taken(w)
  /\ UNCHANGED <<pending, worker_index>> /\ gave_up' = (gave_up \/ why # "EMFILE")
  /\ UNCHANGED <<alive, is_running, stopping, acceptor, backlog, user_workers, thread, home, srv,
                 errors>>
(* Too many open files: try again.  Any other error ends the loop.         *)
OnAcceptError(w, why) ==
  /\ Runs(w, Task(why, 0)) /\ queue' = Taken(w)
  /\ IF why = "EMFILE" THEN do_accept /\ UNCHANGED gave_up
     ELSE gave_up' = TRUE /\ UNCHANGED <<pending, worker_index>>
  /\ UNCHANGED <<alive, is_running, stopping, acceptor, backlog, user_workers, thread, home, srv,
                 errors>>

(* do_sync_accept() in threads of its own: worker_index++ is a read and a  *)
(* write, and the threads do not synchronise.                              *)
Choose(t) ==
  /\ thread[t].pc = "choose"
  /\ thread' = [thread EXCEPT ![t] = IF is_running THEN [@ EXCEPT !.pc = "advance", !.index = worker_index]
                                     ELSE [@ EXCEPT !.pc = "ended"]]
  /\ UNCHANGED <<worker_vars, is_running, stopping, acceptor, backlog, user_workers, worker_index,
                 pending, home, srv, errors, gave_up>>
Advance(t) ==
  /\ thread[t].pc = "advance"
  /\ thread' = [thread EXCEPT ![t].pc = "accept", ![t].worker = WorkerAt(thread[t].index)]
  /\ worker_index' = IF user_workers = <<>> THEN worker_index ELSE thread[t].index + 1
  /\ UNCHANGED <<worker_vars, is_running, stopping, acceptor, backlog, user_workers, pending, home,
                 srv, errors, gave_up>>
SyncAccept(t) ==
  /\ thread[t].pc = "accept" /\ backlog # <<>> /\ backlog' = Tail(backlog)
  /\ LET c == Head(backlog)
     IN /\ home' = [home EXCEPT ![c] = thread[t].worker]
        /\ srv' = [srv EXCEPT ![c] = "accepted"]
        /\ queue' = Post(queue, thread[t].worker, Task("init", c))
  /\ thread' = [thread EXCEPT ![t] = [pc |-> "choose", worker |-> "none", index |-> 0]]
  /\ UNCHANGED <<alive, is_running, stopping, acceptor, user_workers, worker_index, pending, errors,
                 gave_up>>
(* Any error, EMFILE too, ends the thread; so does a closed acceptor, if   *)
(* the thread notices it.                                                  *)
SyncAcceptFails(t) ==
  /\ thread[t].pc = "accept" /\ thread' = [thread EXCEPT ![t].pc = "ended"]
  /\ errors' = IF acceptor = "closed" THEN errors ELSE errors + 1
  /\ errors' <= MaxErrors
  /\ gave_up' = \A o \in AcceptThread : thread'[o].pc = "ended"
  /\ UNCHANGED <<worker_vars, is_running, stopping, acceptor, backlog, user_workers, worker_index,
                 pending, home, srv>>

(* init_conn()'s lambda: the factory creates the connection, which reads.  *)
OnInit(w, c) ==
  /\ Runs(w, Task("init", c)) /\ queue' = Taken(w)
  /\ srv' = [srv EXCEPT ![c] = "up"]
  /\ UNCHANGED <<alive, is_running, stopping, acceptor, backlog, user_workers, worker_index,
                 pending, thread, home, errors, gave_up>>

(* Mutant: the connection is closed on its worker instead of released.     *)
ReleaseHere(w, c) == Post(Taken(w), w, Task("close", c))
(* release(conn), from handle_event(EVT_RELEASE): on the listener's worker.*)
release(w, c) == Post(Taken(w), listen_worker, Task("release", c))

(* The socket ends on its worker: EVT_DISCONNECT, then EVT_RELEASE.  A     *)
(* second handler finds the connection gone.                               *)
OnEnd(w, c, why) ==
  /\ Runs(w, Task(why, c))
  /\ IF srv[c] = "up" THEN queue' = release(w, c) /\ srv' = [srv EXCEPT ![c] = "ended"]
     ELSE queue' = Taken(w) /\ UNCHANGED srv
  /\ UNCHANGED <<alive, is_running, stopping, acceptor, backlog, user_workers, worker_index,
                 pending, thread, home, errors, gave_up>>

OnRelease(w, c) ==
  /\ Runs(w, Task("release", c)) /\ queue' = Taken(w)
  /\ srv' = [srv EXCEPT ![c] = "released"]
  /\ UNCHANGED <<alive, is_running, stopping, acceptor, backlog, user_workers, worker_index,
                 pending, thread, home, errors, gave_up>>

(* A connection is closed by its user, or the kernel reports its peer gone.*)
EndComes(c, why) ==
  /\ srv[c] = "up" /\ Task(why, c) \notin Range(queue[home[c]])
  /\ queue' = Post(queue, home[c], Task(why, c))
  /\ UNCHANGED <<alive, listener_vars>>

(* stop(): acceptor (the kernel drops its backlog), user workers one after the other, the listen worker.  *)
StopBegin ==
  /\ is_running /\ is_running' = FALSE /\ acceptor' = "closed" /\ backlog' = <<>>
  /\ stopping' = "workers"
  /\ srv' = [c \in Conn |-> IF Contains(backlog, c) THEN "refused" ELSE srv[c]]
  /\ UNCHANGED <<worker_vars, user_workers, worker_index, pending, thread, home, errors, gave_up>>
StopUserWorker ==
  /\ stopping = "workers"
  /\ IF Range(user_workers) \cap alive # {}
     THEN /\ \E i \in DOMAIN user_workers :
               /\ user_workers[i] \in alive /\ Stop(user_workers[i])
               /\ \A j \in 1..(i - 1) : user_workers[j] \notin alive
          /\ UNCHANGED <<user_workers, stopping>>
     ELSE user_workers' = <<>> /\ stopping' = "listen" /\ UNCHANGED alive
  /\ UNCHANGED <<queue, is_running, acceptor, backlog, worker_index, pending, thread, home, srv,
                 errors, gave_up>>
(* Mutant: stop() leaves the listen worker running.                        *)
StopKeepsListenWorker ==
  /\ stopping = "listen" /\ stopping' = "done"
  /\ UNCHANGED <<worker_vars, is_running, acceptor, backlog, user_workers, worker_index, pending,
                 thread, home, srv, errors, gave_up>>
StopListenWorker ==
  /\ stopping = "listen" /\ stopping' = "done" /\ Stop(listen_worker)
  /\ UNCHANGED <<queue, is_running, acceptor, backlog, user_workers, worker_index, pending, thread,
                 home, srv, errors, gave_up>>

(* The next handler of worker w, a step of an accept thread, of stop().    *)
Handler(w) ==
  \/ \E c \in Conn : \/ OnAccept(w, c) \/ OnInit(w, c) \/ OnRelease(w, c)
                     \/ \E why \in {"close", "read_error"} : OnEnd(w, c, why)
  \/ \E why \in {"EMFILE", "error", "aborted"} : OnAcceptError(w, why)
ThreadStep(t) == Choose(t) \/ Advance(t) \/ SyncAccept(t)
StopStep == StopUserWorker \/ StopListenWorker
=============================================================================
