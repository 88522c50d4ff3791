------------------------------ MODULE MCServer ------------------------------
(***************************************************************************)
(* Three programs, chosen at the start: two connections served by the      *)
(* asynchronous accept loop and closed by anyone; two connections served   *)
(* by two accept threads; one connection while either side stops.          *)
(***************************************************************************)
EXTENDS ClientServer
CONSTANT scene_set
VARIABLE scene

MCUserWorkers == <<"w1", "w2">>

Posted(do) == \E w \in Worker, c \in Conn : Contains(queue'[w], Task(do, c))

MCInit == Init /\ scene \in scene_set
MCNext ==
  /\ Next /\ UNCHANGED scene
  /\ scene # "stop" => stopping' = "no" /\ leaving' = "no"
  /\ scene # "threads" => connections \subseteq connections' \/ leaving' # "no"
  /\ scene = "serve" => /\ \A t \in AcceptThread : thread'[t].pc = "idle"
                        /\ errors' = 0 \/ ~Posted("close")
  /\ scene = "threads" => /\ pending' = "none" /\ acceptor' # "open"
                          /\ ~Posted("end") /\ ~Posted("close")
  /\ scene = "stop" => /\ errors' = 0 /\ ~Posted("close") /\ acceptor' # "open"
                       /\ stopping' = "no" \/ leaving' = "no"
                       /\ cli'[2] = "none"
MCSpec == MCInit /\ [][MCNext]_<<vars, scene>> /\ Fairness
=============================================================================
