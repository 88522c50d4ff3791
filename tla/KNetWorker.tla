----------------------------- MODULE KNetWorker -----------------------------
(***************************************************************************)
(* KNetWorker (src/include/knet_worker.hpp): a thread that runs the        *)
(* handlers posted to its io_context in their order, until stop().  A task *)
(* is a handler with what its lambda captured.                             *)
(***************************************************************************)
EXTENDS Sequences, SequencesExt, FiniteSets, Naturals

CONSTANTS
  Worker,
  Conn     \* connections by their number, named alike by client and server

VARIABLES alive,    \* the workers whose thread is in io_context::run()
          queue     \* the handlers posted to each worker and not yet run
worker_vars == <<alive, queue>>

Task(do, c) == [do |-> do, conn |-> c]

WorkerInit == queue = [w \in Worker |-> <<>>]

(* post(): the io_context takes the handler whether or not it still runs.  *)
Post(q, w, t) == [q EXCEPT ![w] = Append(@, t)]

(* run(): w takes its next handler.                                        *)
Runs(w, t) == w \in alive /\ queue[w] # <<>> /\ t = Head(queue[w])
Taken(w) == [queue EXCEPT ![w] = Tail(@)]

Start(ws) == alive' = alive \cup ws

(* stop(): the context stops and the thread is joined, between two         *)
(* handlers; what is queued is never run.                                  *)
Stop(w) == alive' = alive \ {w}
=============================================================================
