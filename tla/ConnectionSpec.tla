--------------------------- MODULE ConnectionSpec ---------------------------
(***************************************************************************)
(* What a knet TCP connection without reconnect promises to its user, with *)
(* no buffers, threads, sockets or handlers in it:                         *)
(*   - the connection comes up at most once and is released at most once;  *)
(*   - handle_data is called only between EVT_CONNECT and EVT_DISCONNECT;  *)
(*   - the peer is handed the accepted units in the order in which they    *)
(*     were accepted, with no gap and no repetition, while the connection  *)
(*     is up.                                                              *)
(***************************************************************************)
EXTENDS Naturals, Sequences

CONSTANT MaxUnits       \* bound: units accepted

VARIABLES phase,        \* last of CONNECT, DISCONNECT + RELEASE seen
          accepted,     \* number of units accepted from the user
          wire,         \* units handed to the peer
          dataPhase     \* phase when handle_data was last called

vars == <<phase, accepted, wire, dataPhase>>

Init == /\ phase = "created"
        /\ accepted = 0
        /\ wire = <<>>
        /\ dataPhase = "up"

Connect == /\ phase = "created"
           /\ phase' = "up"
           /\ UNCHANGED <<accepted, wire, dataPhase>>

Accept == /\ phase # "created"
          /\ accepted < MaxUnits
          /\ accepted' = accepted + 1
          /\ UNCHANGED <<phase, wire, dataPhase>>

Transmit == /\ phase = "up"
            /\ \E n \in (Len(wire) + 1)..accepted :
                   wire' = [i \in 1..n |-> IF i <= Len(wire) THEN wire[i] ELSE i]
            /\ UNCHANGED <<phase, accepted, dataPhase>>

Deliver == /\ phase = "up"
           /\ dataPhase' = "up"
           /\ UNCHANGED <<phase, accepted, wire>>

Release == /\ phase \in {"created", "up"}
           /\ phase' = "released"
           /\ UNCHANGED <<accepted, wire, dataPhase>>

Next == Connect \/ Accept \/ Transmit \/ Deliver \/ Release

Spec == Init /\ [][Next]_vars
=============================================================================
