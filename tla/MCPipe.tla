------------------------------- MODULE MCPipe -------------------------------
(***************************************************************************)
(* A pipe, and the framing that cuts the bytes of its connections into the *)
(* messages it exchanges, each by itself: `part' says which of them runs,  *)
(* and the other stands still in one initial state.                        *)
(***************************************************************************)
EXTENDS Pipe, TcpFraming

VARIABLE part

MCInit ==
  /\ part \in {"pipe", "framing"} /\ Init /\ FramingInit
  /\ part # "pipe" => ~named /\ ~known
  /\ part # "framing" => style = "readme" /\ \A m \in 1..N : Length(m) = HeadSize

Framing == part = "framing" /\ FramingNext /\ UNCHANGED <<vars, part>>
MCNext == Framing \/ (part = "pipe" /\ Next /\ UNCHANGED <<framingVars, part>>)

(* For the pipe see PipeFairness; the peer's bytes arrive, and the worker  *)
(* returns from its handlers.                                              *)
MCSpec == /\ MCInit /\ [][MCNext]_<<vars, framingVars, part>>
          /\ PipeFairness /\ WF_framingVars(Framing)
=============================================================================
