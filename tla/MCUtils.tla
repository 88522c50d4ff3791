------------------------------ MODULE MCUtils ------------------------------
(***************************************************************************)
(* The two utilities that keep a protocol of their own, each by itself:    *)
(* `part' says which of them runs, and the other stands still in one       *)
(* initial state.  Of two timers or producers that differ in nothing one   *)
(* is enough: `First' is the one that loops, or is there, when only one    *)
(* does.                                                                   *)
(***************************************************************************)
EXTENDS LoopBuffer, Timer

VARIABLE part

First(S) == CHOOSE x \in S : TRUE

MCInit ==
  /\ part \in {"ring", "timer"} /\ Init /\ TimerInit
  /\ users # {} => First(Producers) \in users
  /\ (\E t \in Timers : loop[t]) => loop[First(Timers)]
  /\ part # "ring" => ~mutex /\ users = {}
  /\ part # "timer" => ~otherThread /\ \A t \in Timers : ~loop[t]
MCNext ==
  \/ part = "ring" /\ Next /\ UNCHANGED <<timerVars, part>>
  \/ part = "timer" /\ TimerNext /\ UNCHANGED <<vars, part>>
MCSpec == MCInit /\ [][MCNext]_<<vars, timerVars, part>> /\ TimerFairness
=============================================================================
