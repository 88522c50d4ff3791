----------------------------- MODULE KcpSession -----------------------------
(***************************************************************************)
(* KcpConnection over UDP: a connection C made by a KcpConnector, and the  *)
(* connection S that a KcpListener keeps for C's address.  The handshake,  *)
(* the heartbeat timers, the release and the calls to ikcp are those of    *)
(* kcp_connection.hpp; ikcp itself (module Ikcp) is cut down to numbered   *)
(* messages that are resent until they are acknowledged, and put in order  *)
(* in rcv_buf and rcv_queue, whose windows are large enough here.          *)
(***************************************************************************)
EXTENDS Naturals, Sequences, FiniteSetsExt, TLC

CONSTANTS
  C, S,          \* the connector's and the listener's connection
  Cid,           \* [{C, S} -> Nat], the cid each constructor takes from index
  NewCid,        \* the cid of S's successor after a restart of the listener
  Reconnect,     \* reconnect_flag of C
  MaxMsgs,       \* bound: messages ikcp_send accepts, [Side -> Nat]
  NetCap,        \* bound: timers and users wait while so many are under way
  MaxFaults,     \* bound: datagrams lost or duplicated, and receive errors
  Silence        \* heartbeat ticks without a datagram that are tolerated (3)

Side == {C, S}
Other(p) == IF p = C THEN S ELSE C

ASSUME KcpAssumption == /\ C # S /\ Cid \in [Side -> Nat] /\ 0 \notin {Cid[C], Cid[S], NewCid}
                        /\ Silence \in Nat /\ MaxMsgs \in [Side -> Nat]

VARIABLES
  conn_status,   \* "IDLE", "OPEN", "READY", "CLOSING" or "CLOSED"
  cid,           \* conv of the connection
  kcp,           \* the control block: a record, or NoKcp
  silence,       \* ticks of the heartbeat timer since last_msg_time, or Ahead
  receiving,     \* [Side -> BOOLEAN], an async_receive_from is outstanding
  known,         \* S is in the listener's map
  net,           \* [Side -> set of datagrams on their way to it]
  events,        \* [Side -> set of the events raised so far]
  accepted,      \* [Side -> Seq], messages ikcp_send took
  delivered,     \* [Side -> Seq], messages handle_package got
  resets,        \* history: init_kcp replaced a live control block (0 or 1)
  asked,         \* history: S asked for a handshake before it was connected
  dropped,       \* history: the network lost a request or a response
  faults

vars == <<conn_status, cid, kcp, silence, receiving, known, net, events, accepted,
          delivered, resets, asked, dropped, faults>>

data == <<receiving, accepted, delivered, resets, asked, dropped, faults>>

\* last_msg_time lies in the future: no time has passed since it.
Ahead == Silence + 2

NoKcp == [conv |-> 0]

\* ikcp_create: una is the first message not acknowledged, queue what follows;
\* rcv_buf has what arrived ahead of rcv_nxt, rcv_queue what nobody has read.
NewKcp(conv) == [conv |-> conv, una |-> 0, queue |-> <<>>, rcv_nxt |-> 0,
                 rcv_buf |-> {}, rcv_queue |-> <<>>, ack |-> FALSE]

Msg(cmd, conv) == [cmd |-> cmd, conv |-> conv, sn |-> 0, user |-> 0]
Control == {"REQUEST", "RESPONSE", "HEARTBEAT"}

\* S is what the listener will make of C's address: listen() opens it, and its
\* first datagram sets last_msg_time.  C has a last_msg_time that no
\* constructor sets: any time.
Init == /\ conn_status = [p \in Side |-> IF p = C THEN "IDLE" ELSE "OPEN"]
        /\ cid = Cid
        /\ kcp = [p \in Side |-> NoKcp]
        /\ \E s \in 0..Ahead : silence = [p \in Side |-> IF p = C THEN s ELSE 0]
        /\ receiving = [p \in Side |-> TRUE]
        /\ known = FALSE
        /\ net = [p \in Side |-> {}]
        /\ events = [p \in Side |-> {}]
        /\ accepted = [p \in Side |-> <<>>]
        /\ delivered = [p \in Side |-> <<>>]
        /\ resets = 0 /\ asked = FALSE /\ dropped = FALSE
        /\ faults = 0

\* kcp_sock: C closes its own in release(), S shares the listener's.
HasSocket(p) == IF p = S THEN known ELSE conn_status[C] \notin {"IDLE", "CLOSED"}

\* async_send_to; what goes to a port that is closed vanishes.
Towards(q, ms) == IF q = S \/ HasSocket(C) THEN net[q] \cup ms ELSE {}

Sending(p, ms) == /\ Cardinality(Towards(Other(p), {})) < NetCap
                  /\ net' = [net EXCEPT ![Other(p)] = Towards(Other(p), ms)]

Raise(p, evts) == events' = [events EXCEPT ![p] = @ \cup evts]

\* release(): timers stop with the status, the control block goes.
release(p) == /\ conn_status' = [conn_status EXCEPT ![p] = "CLOSED"]
              /\ kcp' = [kcp EXCEPT ![p] = NoKcp]

\* init_kcp(): whatever the old control block held is gone.
init_kcp(p, conv) ==
  /\ kcp' = [kcp EXCEPT ![p] = NewKcp(conv)]
  /\ conn_status' = [conn_status EXCEPT ![p] = "READY"]
  /\ resets' = IF kcp[p] = NoKcp THEN resets ELSE 1

\* KcpConnector::connect.
connect ==
  /\ conn_status[C] = "IDLE"
  /\ conn_status' = [conn_status EXCEPT ![C] = "OPEN"]
  /\ Sending(C, {Msg("REQUEST", cid[C])})
  /\ UNCHANGED <<cid, kcp, silence, known, events, data>>

\* send(), and broadcast() for S: data when ready, otherwise another handshake
\* request, whatever the status is.
send(p) ==
  \/ /\ conn_status[p] = "READY"
     /\ Len(accepted[p]) < MaxMsgs[p]
     /\ kcp' = [kcp EXCEPT ![p].queue = Append(@, Len(accepted[p]) + 1)]
     /\ accepted' = [accepted EXCEPT ![p] = Append(@, Len(@) + 1)]
     /\ UNCHANGED <<conn_status, cid, silence, receiving, known, net, events, delivered,
                    resets, asked, dropped, faults>>
  \/ /\ conn_status[p] # "READY" /\ HasSocket(p)
     /\ Sending(p, {Msg("REQUEST", cid[p])})
     /\ asked' = (asked \/ (p = S /\ "CONNECT" \notin events[S]))
     /\ UNCHANGED <<conn_status, cid, kcp, silence, receiving, known, events, accepted,
                    delivered, resets, dropped, faults>>

\* The 100 ms timer: ikcp_update sends what waits and acknowledges.
kcp_timer(p) ==
  LET k == kcp[p] IN
  /\ conn_status[p] = "READY"
  /\ Sending(p, {[cmd |-> "PUSH", conv |-> k.conv, sn |-> k.una + i - 1, user |-> k.queue[i]] :
                   i \in 1..Len(k.queue)}
                \cup {[cmd |-> "ACK", conv |-> k.conv, sn |-> k.rcv_nxt, user |-> 0] :
                         a \in {TRUE} \cap {k.ack}})
  /\ kcp' = [kcp EXCEPT ![p].ack = FALSE]
  /\ UNCHANGED <<conn_status, cid, silence, known, events, data>>

\* Mutant: silence is never looked at.
heartbeatMutant(p) ==
  /\ HasSocket(p) /\ conn_status[p] # "CLOSED"
  /\ net' = [net EXCEPT ![Other(p)] = Towards(Other(p), {Msg("HEARTBEAT", cid[p])})]
  /\ UNCHANGED <<conn_status, cid, kcp, silence, known, events, data>>

\* The 1 s heartbeat timer of listen() and connect().
heartbeat(p) ==
  /\ HasSocket(p) /\ conn_status[p] # "CLOSED"
  /\ silence' = [silence EXCEPT ![p] = IF @ > Silence THEN @ ELSE @ + 1]
  /\ IF silence'[p] = Silence + 1
     THEN /\ Raise(p, {"DISCONNECT"})
          /\ IF p = C /\ Reconnect THEN UNCHANGED <<conn_status, kcp>> ELSE release(p)
          /\ UNCHANGED net
     ELSE /\ net' = [net EXCEPT ![Other(p)] = Towards(Other(p), {Msg("HEARTBEAT", cid[p])})]
          /\ UNCHANGED <<conn_status, kcp, events>>
  /\ UNCHANGED <<cid, known, data>>

\* disconnect(): the answer of async_send_to releases.
disconnect(p) ==
  /\ HasSocket(p) /\ conn_status[p] \in {"OPEN", "READY"}
  /\ conn_status' = [conn_status EXCEPT ![p] = "CLOSING"]
  /\ Sending(p, {Msg("GOODBYE", cid[p])})
  /\ UNCHANGED <<cid, kcp, silence, known, events, data>>

OnGoodbyeSent(p) ==
  /\ conn_status[p] = "CLOSING"
  /\ Raise(p, {"DISCONNECT"}) /\ release(p)
  /\ UNCHANGED <<cid, silence, known, net, data>>

-----------------------------------------------------------------------------
(***************************************************************************)
(* check_control_message() and handle_receive(): what a datagram m does to *)
(* connection p, and what is sent in reply.                                *)
(***************************************************************************)

\* Mutant: the cid that is there is kept.
OpenRequestMutant(p, m) == /\ init_kcp(p, cid[p]) /\ Raise(p, {"CONNECT"})
                           /\ UNCHANGED <<cid, delivered>>

\* SHAKEHAND_REQUEST on OPEN: take the peer's cid, be connected.
OpenRequest(p, m) == /\ cid' = [cid EXCEPT ![p] = m.conv]
                     /\ init_kcp(p, m.conv) /\ Raise(p, {"CONNECT"})
                     /\ UNCHANGED delivered

\* SHAKEHAND_RESPONSE on OPEN: cid is never 0, so the peer's is ignored.
OpenResponse(p) == /\ init_kcp(p, cid[p]) /\ Raise(p, {"CONNECT"})
                   /\ UNCHANGED <<cid, delivered>>

\* A handshake on READY starts ikcp again, without an event.
ReadyHandshake(p) == init_kcp(p, cid[p]) /\ UNCHANGED <<cid, events, delivered>>

\* Mutant: what arrives is taken whatever its number.
handle_receiveMutant(p, m) ==
  /\ delivered' = [delivered EXCEPT ![p] = IF m.cmd = "PUSH" THEN Append(@, m.user) ELSE @]
  /\ UNCHANGED <<conn_status, cid, kcp, events, resets>>

\* ikcp_parse_data: m goes to rcv_buf unless its number has passed or is there.
Stored(k, m) ==
  IF m.sn < k.rcv_nxt \/ \E x \in k.rcv_buf : x.sn = m.sn THEN k.rcv_buf
  ELSE k.rcv_buf \cup {m}

\* The message with number sn in buf, and that exactly n follow each other
\* there from rcv_nxt on: those move to rcv_queue.
At(buf, sn) == CHOOSE x \in buf : x.sn = sn
InSequence(buf, nxt, n) == /\ \A i \in 1..n : \E x \in buf : x.sn = nxt + i - 1
                           /\ \A x \in buf : x.sn # nxt + n

\* handle_receive(): ikcp_input, and then the loop that reads, but not after
\* an ack.  The loop stops at a message that is empty or longer than
\* kMaxMessageLength and when it has read as much as the datagram was long:
\* lengths are left out, so it may stop anywhere (read).
handle_receive(p, m) ==
  LET k == kcp[p]
      fits == m.conv = k.conv
      buf == IF fits /\ m.cmd = "PUSH" THEN Stored(k, m) ELSE k.rcv_buf
      acked == IF fits /\ m.cmd = "ACK" /\ m.sn > k.una
               THEN Min({m.sn - k.una, Len(k.queue)}) ELSE 0
  IN /\ UNCHANGED <<conn_status, cid, events, resets>>
     /\ \/ k = NoKcp /\ UNCHANGED <<kcp, delivered>>
        \/ /\ k # NoKcp
           /\ \E n, read \in 0..MaxMsgs[Other(p)] :
                LET ready == k.rcv_queue \o [i \in 1..n |-> At(buf, k.rcv_nxt + i - 1).user] IN
                /\ InSequence(buf, k.rcv_nxt, n)
                /\ read <= Len(ready)
                /\ fits /\ m.cmd = "ACK" => read = 0
                /\ kcp' = [kcp EXCEPT ![p] =
                     [conv |-> k.conv, una |-> k.una + acked,
                      queue |-> SubSeq(k.queue, acked + 1, Len(k.queue)),
                      rcv_nxt |-> k.rcv_nxt + n,
                      rcv_buf |-> {x \in buf : x.sn >= k.rcv_nxt + n},
                      rcv_queue |-> SubSeq(ready, read + 1, Len(ready)),
                      ack |-> k.ack \/ (fits /\ m.cmd = "PUSH")]]
                /\ delivered' = [delivered EXCEPT ![p] = @ \o SubSeq(ready, 1, read)]

Ignore == UNCHANGED <<conn_status, cid, kcp, events, delivered, resets>>

Handle(p, m) ==
  LET st == conn_status[p] IN
  \/ st = "OPEN" /\ m.cmd = "REQUEST" /\ OpenRequest(p, m)
  \/ st = "OPEN" /\ m.cmd = "RESPONSE" /\ OpenResponse(p)
  \/ st = "OPEN" /\ m.cmd \notin {"REQUEST", "RESPONSE"} /\ Ignore
  \/ st = "READY" /\ m.cmd \in {"REQUEST", "RESPONSE"} /\ ReadyHandshake(p)
  \/ st = "READY" /\ m.cmd = "HEARTBEAT" /\ Ignore
  \/ st \in {"CLOSING", "CLOSED"} /\ m.cmd \in Control /\ Ignore
  \/ st # "OPEN" /\ m.cmd \notin Control /\ handle_receive(p, m)

\* Mutant: a request on an open connection is not answered.
ReplyMutant(p, m) ==
  IF m.cmd = "REQUEST" /\ conn_status[p] = "READY" THEN {Msg("RESPONSE", cid[p])} ELSE {}

\* A request is answered; what an open connection cannot place makes it ask.
Reply(p, m) ==
  LET st == conn_status[p] IN
  IF m.cmd = "REQUEST" /\ st = "OPEN" THEN {Msg("RESPONSE", m.conv)}
  ELSE IF m.cmd = "REQUEST" /\ st = "READY" THEN {Msg("RESPONSE", cid[p])}
  ELSE IF m.cmd \notin Control /\ st = "OPEN" THEN {Msg("REQUEST", cid[p])}
  ELSE {}

\* do_receive() of the connection or of the listener, which makes S when C's
\* address is new; copy: the network delivers m again later.
do_receive(p, m, copy) ==
  /\ receiving[p] /\ (p = C => HasSocket(C))
  /\ m \in net[p]
  /\ copy => faults < MaxFaults
  /\ Handle(p, m)
  /\ net' = [net EXCEPT ![p] = IF copy THEN @ ELSE @ \ {m},
                      ![Other(p)] = Towards(Other(p), Reply(p, m))]
  /\ silence' = [silence EXCEPT ![p] = 0]
  /\ known' = (known \/ p = S)
  /\ faults' = IF copy THEN faults + 1 ELSE faults
  /\ UNCHANGED <<receiving, accepted, asked, dropped>>

\* An error, or an empty datagram, and there is no further do_receive().
OnReceiveError(p) ==
  /\ receiving[p] /\ (p = C => HasSocket(C))
  /\ faults < MaxFaults
  /\ receiving' = [receiving EXCEPT ![p] = FALSE]
  /\ faults' = faults + 1
  /\ UNCHANGED <<conn_status, cid, kcp, silence, known, net, events, accepted, delivered,
                 resets, asked, dropped>>

Lose(p, m) ==
  /\ faults < MaxFaults
  /\ net' = [net EXCEPT ![p] = @ \ {m}]
  /\ faults' = faults + 1
  /\ dropped' = (dropped \/ m.cmd \in {"REQUEST", "RESPONSE"})
  /\ UNCHANGED <<conn_status, cid, kcp, silence, receiving, known, events, accepted,
                 delivered, resets, asked>>

\* The listener's process starts again with an empty map.
RestartListener ==
  /\ known /\ cid[S] # NewCid
  /\ known' = FALSE
  /\ conn_status' = [conn_status EXCEPT ![S] = "OPEN"]
  /\ cid' = [cid EXCEPT ![S] = NewCid]
  /\ kcp' = [kcp EXCEPT ![S] = NoKcp]
  /\ silence' = [silence EXCEPT ![S] = 0]
  /\ events' = [events EXCEPT ![S] = {}]
  /\ UNCHANGED <<net, data>>

Next == \/ connect
        \/ \E p \in Side : \/ send(p) \/ kcp_timer(p) \/ heartbeat(p)
                           \/ disconnect(p) \/ OnGoodbyeSent(p) \/ OnReceiveError(p)
                           \/ \E m \in net[p] : \/ \E copy \in BOOLEAN : do_receive(p, m, copy)
                                                \/ Lose(p, m)

\* The worker runs its timers and handlers and a handshake that is not lost
\* arrives.  No user has to send.
Fairness ==
  \A p \in Side :
    /\ WF_vars(heartbeat(p)) /\ WF_vars(OnGoodbyeSent(p))
    /\ \A cmd \in {"REQUEST", "RESPONSE"} :
         WF_vars(\E m \in net[p] : m.cmd = cmd /\ do_receive(p, m, FALSE))

Spec == Init /\ [][Next]_vars /\ Fairness
-----------------------------------------------------------------------------
TypeOK ==
  /\ conn_status \in [Side -> {"IDLE", "OPEN", "READY", "CLOSING", "CLOSED"}]
  /\ silence \in [Side -> 0..Ahead]
  /\ \A p \in Side : conn_status[p] = "READY" <=> (kcp[p] # NoKcp /\ conn_status[p] # "CLOSING")
  /\ \A p \in Side : events[p] \subseteq {"CONNECT", "DISCONNECT"}

\* Two ends that are ready and have not been told to part speak of the same
\* conversation, whatever was lost, repeated or reordered: otherwise
\* ikcp_input drops everything while the heartbeats keep the link up.  The
\* exception is a broadcast() that reached S before its handshake: S then asks
\* with a cid of its own, the requests cross and each side takes the other's.
SameConversation ==
  conn_status[C] = "READY" /\ conn_status[S] = "READY" /\ ~asked => kcp[C].conv = kcp[S].conv

\* As long as no late or repeated handshake has replaced a control block,
\* what the users get is what their peers sent, in order, and what was
\* acknowledged has been delivered or still lies in rcv_queue, where the
\* receive loop may have left it.
InOrderUntilReset ==
  resets = 0 =>
    \A p \in Side :
      /\ Len(delivered[p]) <= Len(accepted[Other(p)])
      /\ delivered[p] = SubSeq(accepted[Other(p)], 1, Len(delivered[p]))
      /\ kcp[p] # NoKcp /\ kcp[Other(p)] # NoKcp =>
           kcp[Other(p)].una <= Len(delivered[p]) + Len(kcp[p].rcv_queue)

\* handle_package and EVT_RECV come after EVT_CONNECT, and a connection that
\* was released is silent and never comes back.
ReleasedIsSilent ==
  [][\A p \in Side :
       /\ delivered'[p] # delivered[p] => "CONNECT" \in events[p] /\ conn_status[p] # "CLOSED"
       /\ conn_status[p] = "CLOSED" /\ known' = known => conn_status'[p] = "CLOSED"]_vars

\* A connection that is opened does not stay in the handshake for ever, unless
\* one of its datagrams was lost, a receive loop has ended or the listener's
\* side has given up: nothing but the user's next send() asks again.
Disturbed == \/ dropped \/ \E p \in Side : ~receiving[p]
             \/ conn_status[S] \in {"CLOSING", "CLOSED"}
HandshakeEnds == conn_status[C] = "OPEN" ~> conn_status[C] # "OPEN" \/ Disturbed

\* GOODBYE is ignored, but the heartbeat lets the listener's side notice that
\* its peer has gone.
PeerNoticed == known /\ conn_status[C] = "CLOSED" ~> conn_status[S] = "CLOSED"
=============================================================================
