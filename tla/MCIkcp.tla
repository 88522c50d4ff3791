------------------------------- MODULE MCIkcp -------------------------------
(* The instance of Ikcp that TLC checks: one end sends, the other answers.   *)
EXTENDS Ikcp

MCMaxMsgs == A :> 2 @@ B :> 0
=============================================================================
