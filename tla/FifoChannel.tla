---------------------------- MODULE FifoChannel ----------------------------
(***************************************************************************)
(* What a reliable channel promises in each direction: every message that  *)
(* was accepted is handed over whole, once and in the order of acceptance. *)
(***************************************************************************)
EXTENDS Naturals, Sequences, SequencesExt

CONSTANTS Peer, Message

VARIABLES accepted,   \* [Peer -> Seq(Message)], taken from the user at peer p
          handed      \* [Peer -> Seq(Message)], those given to p's correspondent

vars == <<accepted, handed>>

Init == /\ accepted = [p \in Peer |-> <<>>]
        /\ handed = [p \in Peer |-> <<>>]

Accept(p) == /\ \E m \in Message : accepted' = [accepted EXCEPT ![p] = Append(@, m)]
             /\ UNCHANGED handed

Hand(p) == /\ Len(handed[p]) < Len(accepted[p])
           /\ handed' = [handed EXCEPT ![p] = Append(@, accepted[p][Len(@) + 1])]
           /\ UNCHANGED accepted

Next == \E p \in Peer : Accept(p) \/ Hand(p)

Spec == Init /\ [][Next]_vars
=============================================================================
