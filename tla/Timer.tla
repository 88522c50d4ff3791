------------------------------- MODULE Timer -------------------------------
(***************************************************************************)
(* The timers of a KNetWorker (include/utils/timer.hpp): a TimerNode per   *)
(* timer, the map timer_nodes, handle_timeout() on the worker's thread and *)
(* the calls of an application thread.  When the calls are made on the     *)
(* worker's own thread they do not interrupt handle_timeout(), except that *)
(* the timer's handler may make them.                                      *)
(*                                                                         *)
(* A wait that is cancelled completes with an error and its completion     *)
(* does nothing, so cancelled waits just disappear.                        *)
(***************************************************************************)
EXTENDS Naturals, FiniteSets

CONSTANTS Timers,       \* the ids start_timer() hands out
          None,         \* no timer
          MaxCalls,     \* bound: calls of stop_, restart_timer() and reset_interval()
          MaxDue        \* bound: expired waits of a timer the worker has not run

ASSUME TimerAssumption ==
    /\ None \notin Timers
    /\ MaxCalls \in Nat /\ MaxDue \in Nat

VARIABLES
    otherThread,       \* the calls come from another thread than the worker's
    timer_nodes,       \* the timers in the map
    alive, skip, loop, \* fields of TimerNode
    waits,             \* async_wait operations pending on a node's steady_timer
    due,               \* expired waits whose handle_timeout() has not run yet
    node, at,          \* the node handle_timeout() runs for, and where it is
    op, target,        \* the call the application is in, and its timer
    calls,             \* calls that MaxCalls bounds, so far
    stopped,           \* timers whose stop_timer() has returned
    late               \* calls of a handler that began after that

nodes  == <<timer_nodes, alive, skip, loop>>
worker == <<node, at>>
app    == <<op, target, calls, stopped>>
timerVars   == <<otherThread, nodes, waits, due, worker, app, late>>

TimerInit == /\ otherThread \in BOOLEAN
        /\ timer_nodes = {}
        /\ alive = [t \in Timers |-> FALSE]
        /\ skip = [t \in Timers |-> FALSE]
        /\ loop \in [Timers -> BOOLEAN]
        /\ waits = [t \in Timers |-> 0] /\ due = [t \in Timers |-> 0]
        /\ node = None /\ at = "idle"
        /\ op = "none" /\ target = None /\ calls = 0
        /\ stopped = {} /\ late = [t \in Timers |-> 0]

Set(f, t, v) == [f EXCEPT ![t] = v]
cancel(t)     == waits' = Set(waits, t, 0)
async_wait(t) == waits' = Set(waits, t, waits[t] + 1)

(* Who may take a step: a call on the worker's thread is made between two  *)
(* runs of handle_timeout() or from inside a handler, and not interrupted. *)
WorkerRuns == otherThread \/ op = "none"
AppRuns    == otherThread \/ at \in {"idle", "calling"}

----------------------------------------------------------------------------
(* The worker.                                                             *)

(* The steady_timer expires: every wait on it completes.                   *)
Expire(t) ==
    /\ waits[t] > 0 /\ due[t] + waits[t] <= MaxDue
    /\ due' = Set(due, t, due[t] + waits[t])
    /\ cancel(t)
    /\ UNCHANGED <<otherThread, nodes, worker, app, late>>

(* Mutant: handle_timeout() does not look at alive.                        *)
TimeoutMutant(t) ==
    /\ WorkerRuns /\ at = "idle" /\ due[t] > 0
    /\ due' = Set(due, t, due[t] - 1)
    /\ node' = t /\ at' = "checked"
    /\ UNCHANGED <<otherThread, nodes, waits, app, late>>

Timeout(t) ==
    /\ WorkerRuns /\ at = "idle" /\ due[t] > 0
    /\ due' = Set(due, t, due[t] - 1)
    /\ \/ /\ alive[t]
          /\ node' = t /\ at' = "checked"
          /\ UNCHANGED timer_nodes
       \/ /\ ~alive[t]
          /\ timer_nodes' = timer_nodes \ {t}
          /\ UNCHANGED worker
    /\ UNCHANGED <<otherThread, alive, skip, loop, waits, app, late>>

(* After the handler: a looping timer is armed again, in two calls.        *)
(* Mutant: a skipped timeout does not arm the timer again.                 *)
AfterMutant(t) == at' = "idle" /\ node' = None /\ UNCHANGED waits
After(t) ==
    IF loop[t] THEN at' = "arming" /\ cancel(t) /\ UNCHANGED node
               ELSE at' = "idle" /\ node' = None /\ UNCHANGED waits

Skip ==
    /\ WorkerRuns /\ at = "checked" /\ skip[node]
    /\ skip' = Set(skip, node, FALSE)
    /\ After(node)
    /\ UNCHANGED <<otherThread, timer_nodes, alive, loop, due, app, late>>

CallHandler ==
    /\ WorkerRuns /\ at = "checked" /\ ~skip[node]
    /\ at' = "calling"
    /\ late' = IF node \in stopped THEN Set(late, node, late[node] + 1) ELSE late
    /\ UNCHANGED <<otherThread, nodes, waits, due, node, app>>

Return ==
    /\ WorkerRuns /\ at = "calling"
    /\ After(node)
    /\ UNCHANGED <<otherThread, nodes, due, app, late>>

ReturnFalse ==
    /\ WorkerRuns /\ at = "calling"
    /\ alive' = Set(alive, node, FALSE)
    /\ cancel(node)
    /\ timer_nodes' = timer_nodes \ {node}
    /\ at' = "idle" /\ node' = None
    /\ UNCHANGED <<otherThread, skip, loop, due, app, late>>

Arm ==
    /\ WorkerRuns /\ at = "arming"
    /\ async_wait(node)
    /\ at' = "idle" /\ node' = None
    /\ UNCHANGED <<otherThread, nodes, due, app, late>>

Worker == (\E t \in Timers : Timeout(t)) \/ Skip \/ CallHandler \/ Return \/ ReturnFalse \/ Arm

----------------------------------------------------------------------------
(* The calls.                                                              *)

Unused(t) == /\ t \notin timer_nodes /\ t \notin stopped /\ ~alive[t]
             /\ waits[t] = 0 /\ due[t] = 0 /\ node # t

start_timer(t) ==
    /\ AppRuns /\ op = "none" /\ Unused(t)
    /\ alive' = Set(alive, t, TRUE) /\ skip' = Set(skip, t, FALSE)
    /\ timer_nodes' = timer_nodes \cup {t}
    /\ async_wait(t)
    /\ UNCHANGED <<otherThread, loop, due, worker, app, late>>

restart_timer(t) ==
    /\ AppRuns /\ op = "none" /\ calls < MaxCalls
    /\ calls' = calls + 1
    /\ skip' = IF t \in timer_nodes THEN Set(skip, t, TRUE) ELSE skip
    /\ UNCHANGED <<otherThread, timer_nodes, alive, loop, waits, due,
                   worker, op, target, stopped, late>>

(* stop_timer(): alive is cleared, then the wait is cancelled.             *)
stop_timer(t) ==
    /\ AppRuns /\ op = "none" /\ t \in timer_nodes /\ calls < MaxCalls
    /\ calls' = calls + 1
    /\ alive' = Set(alive, t, FALSE)
    /\ op' = "stop" /\ target' = t
    /\ UNCHANGED <<otherThread, timer_nodes, skip, loop, waits, due, worker, stopped, late>>

StopCancel ==
    /\ AppRuns /\ op = "stop"
    /\ cancel(target)
    /\ stopped' = stopped \cup {target}
    /\ op' = "none" /\ target' = None
    /\ UNCHANGED <<otherThread, nodes, due, worker, calls, late>>

(* reset_interval(): the wait is cancelled and a new one started.          *)
reset_interval(t) ==
    /\ AppRuns /\ op = "none" /\ t \in timer_nodes /\ calls < MaxCalls
    /\ calls' = calls + 1
    /\ cancel(t)
    /\ op' = "reset" /\ target' = t
    /\ UNCHANGED <<otherThread, nodes, due, worker, stopped, late>>

ResetArm ==
    /\ AppRuns /\ op = "reset"
    /\ async_wait(target)
    /\ op' = "none" /\ target' = None
    /\ UNCHANGED <<otherThread, nodes, due, worker, calls, stopped, late>>

(* clear(), also called by the destructor.                                 *)
clear ==
    /\ AppRuns /\ op = "none" /\ timer_nodes # {}
    /\ alive' = [t \in Timers |-> alive[t] /\ t \notin timer_nodes]
    /\ waits' = [t \in Timers |-> IF t \in timer_nodes THEN 0 ELSE waits[t]]
    /\ stopped' = stopped \cup timer_nodes
    /\ timer_nodes' = {}
    /\ UNCHANGED <<otherThread, skip, loop, due, worker, op, target, calls, late>>

App == \/ \E t \in Timers : \/ start_timer(t) \/ stop_timer(t)
                            \/ restart_timer(t) \/ reset_interval(t)
       \/ StopCancel \/ ResetArm \/ clear

TimerNext == Worker \/ App \/ \E t \in Timers : Expire(t)

TimerSpec == TimerInit /\ [][TimerNext]_timerVars

(* The worker runs what is due, no timer for ever before another (asio's   *)
(* queue is first in, first out), steady_timers expire, and a call that    *)
(* was begun returns.                                                      *)
TimerFairness ==
    /\ WF_timerVars(Worker) /\ WF_timerVars(StopCancel \/ ResetArm)
    /\ \A t \in Timers : WF_timerVars(Expire(t)) /\ SF_timerVars(Timeout(t))

----------------------------------------------------------------------------
(* Properties.                                                             *)

TimerTypeOK ==
    /\ otherThread \in BOOLEAN
    /\ timer_nodes \subseteq Timers /\ stopped \subseteq Timers
    /\ alive \in [Timers -> BOOLEAN] /\ skip \in [Timers -> BOOLEAN]
    /\ loop \in [Timers -> BOOLEAN]
    /\ waits \in [Timers -> Nat] /\ due \in [Timers -> Nat] /\ late \in [Timers -> Nat]
    /\ node \in Timers \cup {None} /\ target \in Timers \cup {None}
    /\ at \in {"idle", "checked", "calling", "arming"}
    /\ op \in {"none", "stop", "reset"} /\ calls \in Nat
    /\ at = "idle" <=> node = None
    /\ op = "none" <=> target = None

(* After stop_timer() or clear() has returned, a handler is not called any *)
(* more; a handle_timeout() on another thread that had already looked at   *)
(* alive may call it once ("not safe?", timer.hpp:157).                    *)
StopStops == \A t \in Timers : late[t] <= IF otherThread THEN 1 ELSE 0

(* An alive looping timer always has a wait pending, expired or about to   *)
(* be started: neither restart_timer() nor reset_interval() can lose it in *)
(* any interleaving with handle_timeout().                                 *)
AliveIsArmed ==
    \A t \in Timers : alive[t] /\ loop[t] =>
        \/ waits[t] > 0 \/ due[t] > 0
        \/ node = t
        \/ op = "reset" /\ target = t

(* A looping timer nobody stops goes on calling its handler.               *)
KeepsTicking ==
    \A t \in Timers : (alive[t] /\ loop[t]) ~> (~alive[t] \/ (node = t /\ at = "calling"))
=============================================================================
