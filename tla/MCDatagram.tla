----------------------------- MODULE MCDatagram -----------------------------
(***************************************************************************)
(* The instance TLC checks of the two datagram transports.  A behaviour is *)
(* one of KcpSession or one of Udp; the other's variables stay as they are.*)
(***************************************************************************)
EXTENDS KcpSession

CONSTANTS Client, Datagram, Nobody

VARIABLES transport, open, loop, remote_point, connections, told, heard, sock,
          silent, released, read, up, down

U == INSTANCE Udp

udp == <<open, loop, remote_point, connections, told, heard, sock, silent,
         released, read, up, down>>

MCCid == C :> 5 @@ S :> 6
MCMaxMsgs == C :> 2 @@ S :> 0

\* KCP is looked at twice: while it opens and ends, without data, and with
\* data, where no heartbeat timer fires and no broadcast() comes too early.
MCInit == Init /\ U!Init /\ transport \in {"opening", "data", "udp"}

\* Bound: a disconnect() or an early broadcast() is not combined with faults,
\* nor a disconnect() of a connection with data with a reset.
KcpBound ==
  LET closing == \E p \in Side : conn_status'[p] = "CLOSING" IN
  /\ closing \/ asked' => faults' = 0
  /\ transport = "opening" => accepted' = [p \in Side |-> <<>>]
  /\ transport = "data" =>
       silence' = [p \in Side |-> 0] /\ ~asked' /\ (closing => resets' = 0)

MCNext == /\ UNCHANGED transport
          /\ \/ transport # "udp" /\ Next /\ KcpBound /\ UNCHANGED udp
             \/ transport = "udp" /\ U!Next /\ UNCHANGED vars

\* In their initial states neither module's fair actions are enabled, so the
\* one that is not chosen asks for nothing.
MCSpec == /\ MCInit /\ [][MCNext]_<<vars, udp, transport>>
          /\ Fairness /\ U!Fairness

\* KCP alone: nobody disconnects, but the listener may be restarted.
MCRestartNext == /\ Next \/ RestartListener
                 /\ \A p \in Side : conn_status'[p] # "CLOSING"
                 /\ UNCHANGED <<udp, transport>>

MCRestartSpec == /\ Init /\ U!Init /\ transport = "data"
                 /\ [][MCRestartNext]_<<vars, udp, transport>>

-----------------------------------------------------------------------------
\* What a user of KCP is handed is what his own peer sent, in order, until a
\* control block is replaced.
Delivered == TypeOK /\ InOrderUntilReset

\* Opening comes to an end: the KCP handshake does unless it is disturbed, and
\* whoever sends to a UDP listener that still receives gets a connection.
OpeningEnds == HandshakeEnds /\ U!SenderIsHeard

\* What has ended stays so: a released KCP connection, and the UDP listener's
\* receive loop after its first error, of which at most one peer is told.
EndIsFinal == ReleasedIsSilent /\ U!EndedForGood /\ []U!OneFarewell
=============================================================================
