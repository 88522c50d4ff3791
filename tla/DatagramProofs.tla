--------------------------- MODULE DatagramProofs ---------------------------
(***************************************************************************)
(* Theorems about KcpSession and Udp, for every bound, any number of       *)
(* addresses and datagrams, and whatever the network does.                 *)
(***************************************************************************)
EXTENDS MCDatagram, SequenceTheorems, TLAPS

----------------------------------------------------------------------------
(* KCP: the inductive invariant.                                           *)

Handshake == {"REQUEST", "RESPONSE"}
Command == Control \cup {"PUSH", "ACK", "GOODBYE"}
Message == [cmd : Command, conv : Nat, sn : Nat, user : Nat]
Block == [conv : Nat \ {0}, una : Nat, queue : Seq(Nat), rcv_nxt : Nat,
          rcv_buf : SUBSET Message, rcv_queue : Seq(Nat), ack : BOOLEAN]

Shape ==
  /\ conn_status \in [Side -> {"IDLE", "OPEN", "READY", "CLOSING", "CLOSED"}]
  /\ cid \in [Side -> Nat \ {0}] /\ kcp \in [Side -> Block \cup {NoKcp}]
  /\ silence \in [Side -> 0..Ahead]
  /\ net \in [Side -> SUBSET Message]
  /\ \A p \in Side : \A m \in net[p] : m.cmd \in Handshake => m.conv # 0
  /\ events \in [Side -> SUBSET {"CONNECT", "DISCONNECT"}]
  /\ accepted \in [Side -> Seq(Nat)] /\ delivered \in [Side -> Seq(Nat)]
  /\ resets \in {0, 1}

(* A control block is there from the handshake to the release, and nobody  *)
(* sends or receives before it is.                                         *)
Life ==
  \A p \in Side :
    /\ conn_status[p] = "READY" => kcp[p] # NoKcp
    /\ conn_status[p] \in {"IDLE", "OPEN", "CLOSED"} => kcp[p] = NoKcp
    /\ conn_status[p] \in {"IDLE", "OPEN"} => accepted[p] = <<>> /\ delivered[p] = <<>>
    /\ kcp[p] # NoKcp => "CONNECT" \in events[p]

(* The window of p, as long as no control block was replaced: what waits   *)
(* are the last messages accepted, what was received is delivered or in    *)
(* rcv_queue, and messages are numbered by their place in the stream.      *)
Window(p) ==
  /\ \A i \in 1..Len(accepted[p]) : accepted[p][i] = i
  /\ \A i \in 1..Len(delivered[p]) : delivered[p][i] = i
  /\ kcp[p] # NoKcp =>
       /\ kcp[p].rcv_nxt = Len(delivered[p]) + Len(kcp[p].rcv_queue)
       /\ \A i \in 1..Len(kcp[p].rcv_queue) : kcp[p].rcv_queue[i] = Len(delivered[p]) + i
       /\ kcp[p].una + Len(kcp[p].queue) = Len(accepted[p])
       /\ \A i \in 1..Len(kcp[p].queue) : kcp[p].queue[i] = kcp[p].una + i

(* p has received n messages and more, as far as that can still be seen:   *)
(* a connection that was released has no control block to be asked.        *)
Below(p, n) == /\ kcp[p] # NoKcp => n <= kcp[p].rcv_nxt
               /\ conn_status[p] \in {"IDLE", "OPEN"} => n = 0

(* What is under way from p: messages it accepted, and acknowledgements of *)
(* what it received.                                                       *)
Taken(p, m) == m.user = m.sn + 1 /\ m.sn < Len(accepted[p])
Fits(p, m) == /\ m.cmd = "PUSH" => Taken(p, m)
              /\ m.cmd = "ACK" => Below(p, m.sn)
Sent(p) == \A m \in net[Other(p)] : Fits(p, m)

(* p has received no more than its peer has accepted, and knows of no more *)
(* than its peer has received.                                             *)
Agreed(p) ==
  /\ Len(delivered[p]) <= Len(accepted[Other(p)])
  /\ kcp[p] # NoKcp => /\ kcp[p].rcv_nxt <= Len(accepted[Other(p)])
                       /\ \A x \in kcp[p].rcv_buf : Taken(Other(p), x)
                       /\ Below(Other(p), kcp[p].una)

Streams == resets = 0 => \A p \in Side : Window(p) /\ Sent(p) /\ Agreed(p)

KcpInv == Shape /\ Life /\ Streams

(* Until S asks for a handshake before it was connected: the listener's    *)
(* side takes the connector's conversation, and no handshake of its own    *)
(* reaches a connector that could still follow it.                         *)
Leaving == conn_status[C] \in {"CLOSING", "CLOSED"}
Begun   == conn_status[S] # "OPEN"
Proper(q, m) ==
  IF q = S THEN /\ m.cmd \in Handshake => m.conv = Cid[C]
                /\ m.cmd = "RESPONSE" => Begun
                /\ m.cmd \notin Control => Begun \/ Leaving
  ELSE /\ m.cmd = "RESPONSE" => m.conv = Cid[C] /\ Begun
       /\ m.cmd = "REQUEST" => Leaving \/ (m.conv = Cid[C] /\ Begun)
Joined ==
  /\ cid[C] = Cid[C]
  /\ "CONNECT" \in events[S] => Begun /\ cid[S] = Cid[C]
  /\ \A p \in Side : kcp[p] # NoKcp => kcp[p].conv = Cid[C]
  /\ conn_status[C] = "READY" => Begun
Conversation ==
  /\ Joined
  /\ \A q \in Side : \A m \in net[q] : Proper(q, m)

----------------------------------------------------------------------------
(* UDP: the inductive invariant.                                           *)

UdpInv ==
  /\ connections \subseteq Client /\ remote_point \in Client \cup {Nobody}
  /\ told \in [Client -> SUBSET {"CREATE", "CONNECT", "RECV", "DISCONNECT"}]
  /\ U!OneFarewell

LEMMA UdpInitInv ==
    ASSUME U!Init PROVE UdpInv
  BY DEF U!Init, UdpInv, U!OneFarewell

LEMMA UdpListenerStep ==
    ASSUME UdpInv, NEW e \in Client \cup {Nobody},
           U!OnReceiveError(e) \/ U!stop \/ \E d \in Datagram : U!broadcast(d)
    PROVE  UdpInv'
<1> USE DEF UdpInv, U!OneFarewell, U!listener, U!client
<1>1. CASE U!OnReceiveError(e)
  BY <1>1 DEF U!OnReceiveError, U!Tell
<1>2. CASE U!stop
  BY <1>2 DEF U!stop
<1>3. CASE \E d \in Datagram : U!broadcast(d)
  BY <1>3 DEF U!broadcast
<1>4. QED
  BY <1>1, <1>2, <1>3

LEMMA UdpConnectionStep ==
    ASSUME UdpInv, NEW e \in Client,
           U!connect(e) \/ U!close(e) \/ U!ClosePassive(e) \/ U!net_timer(e)
           \/ U!OnReceiveFails(e)
    PROVE  UdpInv'
  BY DEF UdpInv, U!OneFarewell, U!listener, U!client,
         U!connect, U!close, U!ClosePassive, U!net_timer, U!OnReceiveFails

LEMMA UdpDatagramStep ==
    ASSUME UdpInv, NEW e \in Client, NEW d \in Datagram,
           U!send(e, d) \/ U!do_receive(e, d) \/ U!OnReceive(e, d) \/ U!Lose(e, d)
    PROVE  UdpInv'
<1> USE DEF UdpInv, U!OneFarewell, U!listener, U!client
<1>1. CASE U!send(e, d)
  BY <1>1 DEF U!send
<1>2. CASE U!do_receive(e, d)
  BY <1>2 DEF U!do_receive, U!Tell
<1>3. CASE U!OnReceive(e, d)
  BY <1>3 DEF U!OnReceive
<1>4. CASE U!Lose(e, d)
  BY <1>4 DEF U!Lose
<1>5. QED
  BY <1>1, <1>2, <1>3, <1>4

LEMMA UdpStep ==
    ASSUME UdpInv, U!Next \/ UNCHANGED udp
    PROVE  UdpInv'
<1>1. CASE UNCHANGED udp
  BY <1>1 DEF UdpInv, U!OneFarewell, udp
<1>2. CASE U!Next
  BY <1>2, UdpListenerStep, UdpConnectionStep, UdpDatagramStep DEF U!Next
<1>3. QED
  BY <1>1, <1>2

(* The loop that has ended tells nobody anything, whether the socket is    *)
(* open or not.                                                            *)
LEMMA UdpEnded ==
    ASSUME loop = "ended", U!Next \/ UNCHANGED udp
    PROVE  UNCHANGED <<loop, told, heard>> /\ connections' \subseteq connections
<1>1. CASE UNCHANGED udp
  BY <1>1 DEF udp
<1>2. CASE U!Next
  BY <1>2 DEF U!Next, U!OnReceiveError, U!stop, U!broadcast, U!connect, U!close, U!ClosePassive,
              U!OnReceiveFails, U!net_timer, U!send, U!do_receive, U!OnReceive, U!Lose,
              U!listener, U!client
<1>3. QED
  BY <1>1, <1>2

----------------------------------------------------------------------------
(* KCP: sides, control blocks and the network.                             *)

LEMMA Sides ==
    /\ C \in Side /\ S \in Side /\ C # S /\ Other(C) = S /\ Other(S) = C
    /\ \A p \in Side : /\ Other(p) \in Side /\ Other(p) # p /\ Other(Other(p)) = p
                       /\ \A q \in Side : q = p \/ q = Other(p)
  BY KcpAssumption DEF Side, Other

LEMMA Blocks ==
    /\ \A b \in Block : b # NoKcp
    /\ \A c \in Nat \ {0} : NewKcp(c) \in Block /\ NewKcp(c) # NoKcp
<1>1. \A b \in Block : b # NoKcp
  BY DEF Block, NoKcp
<1>2. \A c \in Nat \ {0} : NewKcp(c) \in Block
  BY DEF NewKcp, Block
<1>3. QED
  BY <1>1, <1>2

(* Two control blocks with the same windows.                               *)
Alike(b, k) == /\ b.conv = k.conv /\ b.una = k.una /\ b.rcv_nxt = k.rcv_nxt
               /\ b.rcv_buf = k.rcv_buf /\ b.rcv_queue = k.rcv_queue

LEMMA BlockExcept ==
    ASSUME NEW k \in Block, NEW q \in Seq(Nat), NEW a \in BOOLEAN
    PROVE  /\ [k EXCEPT !.queue = q] \in Block /\ Alike([k EXCEPT !.queue = q], k)
           /\ [k EXCEPT !.queue = q].queue = q
           /\ [k EXCEPT !.ack = a] \in Block /\ Alike([k EXCEPT !.ack = a], k)
           /\ [k EXCEPT !.ack = a].queue = k.queue
  BY DEF Block, Alike

(* Everything that is added to the network goes from p to its peer.        *)
Grows(p, ms) ==
  /\ net' \in [Side -> SUBSET Message]
  /\ net'[p] \subseteq net[p] /\ net'[Other(p)] \subseteq net[Other(p)] \cup ms

LEMMA MsgType ==
    ASSUME NEW cmd \in Command, NEW conv \in Nat
    PROVE  /\ Msg(cmd, conv) \in Message /\ Msg(cmd, conv).cmd = cmd /\ Msg(cmd, conv).conv = conv
  BY DEF Msg, Message

LEMMA TowardsGrows ==
    ASSUME Shape, NEW p \in Side, NEW ms \in SUBSET Message,
           net' = [net EXCEPT ![Other(p)] = Towards(Other(p), ms)]
    PROVE  Grows(p, ms)
<1>1. Other(p) \in Side /\ Other(p) # p
  BY Sides
<1>2. Towards(Other(p), ms) \subseteq net[Other(p)] \cup ms
  BY DEF Towards
<1>3. QED
  BY <1>1, <1>2 DEF Grows, Shape

(* One control message from p to its peer.                                 *)
LEMMA OneMessage ==
    ASSUME Shape, NEW p \in Side, NEW cmd \in Command \ {"PUSH", "ACK"}, NEW conv \in Nat \ {0},
           net' = [net EXCEPT ![Other(p)] = Towards(Other(p), {Msg(cmd, conv)})]
    PROVE  /\ Grows(p, {Msg(cmd, conv)})
           /\ \A m \in {Msg(cmd, conv)} : m.conv # 0 /\ m.cmd \notin {"PUSH", "ACK"}
<1>1. Msg(cmd, conv) \in Message /\ Msg(cmd, conv).cmd = cmd /\ Msg(cmd, conv).conv = conv
  BY MsgType
<1>2. QED
  BY <1>1, TowardsGrows

LEMMA Controls ==
    ASSUME Shape, NEW p \in Side, NEW cmd \in Command \ {"PUSH", "ACK"}, NEW conv \in Nat \ {0},
           \/ net' = net
           \/ net' = [net EXCEPT ![Other(p)] = Towards(Other(p), {Msg(cmd, conv)})]
    PROVE  \E ms : Grows(p, ms) /\ \A m \in ms : m.conv # 0 /\ m.cmd \notin {"PUSH", "ACK"}
<1>1. CASE net' = net
  <2>1. Grows(p, {})
    BY <1>1, Sides DEF Grows, Shape
  <2>2. QED
    BY <2>1
<1>2. CASE net' = [net EXCEPT ![Other(p)] = Towards(Other(p), {Msg(cmd, conv)})]
  <2> DEFINE ms == {Msg(cmd, conv)}
  <2>1. Grows(p, ms) /\ \A m \in ms : m.conv # 0 /\ m.cmd \notin {"PUSH", "ACK"}
    BY <1>2, OneMessage
  <2> HIDE DEF ms
  <2>2. QED
    BY <2>1
<1>3. QED
  BY <1>1, <1>2

LEMMA SameGrows ==
    ASSUME Shape, NEW p \in Side, net' = net
    PROVE  Grows(p, {})
  BY Sides DEF Grows, Shape

(* The handshakes on the network keep a conversation number.               *)
LEMMA NetShape ==
    ASSUME Shape, NEW p \in Side, NEW ms, Grows(p, ms),
           \A m \in ms : m.cmd \in Handshake => m.conv # 0
    PROVE  /\ net' \in [Side -> SUBSET Message]
           /\ \A q \in Side : \A m \in net'[q] : m.cmd \in Handshake => m.conv # 0
<1>1. ASSUME NEW q \in Side, NEW m \in net'[q], m.cmd \in Handshake PROVE m.conv # 0
  <2>1. m \in net[p] \/ m \in net[Other(p)] \/ m \in ms
    BY <1>1, Sides DEF Grows
  <2>2. QED
    BY <1>1, <2>1, Sides DEF Shape
<1>2. QED
  BY <1>1 DEF Grows

(* A step that accepts and delivers nothing, sends only what fits and at   *)
(* most drops a control block or makes the first one of a connection.      *)
Fresh(q) == /\ conn_status[q] = "OPEN" /\ accepted[q] = <<>> /\ delivered[q] = <<>>
            /\ kcp'[q].una = 0 /\ kcp'[q].queue = <<>> /\ kcp'[q].rcv_nxt = 0
            /\ kcp'[q].rcv_buf = {} /\ kcp'[q].rcv_queue = <<>>
BlockStep(q) ==
  /\ \/ kcp'[q] = kcp[q] \/ kcp'[q] = NoKcp
     \/ kcp[q] # NoKcp /\ Alike(kcp'[q], kcp[q]) /\ kcp'[q].queue = kcp[q].queue
     \/ Fresh(q)
  /\ conn_status'[q] \in {"IDLE", "OPEN"} => conn_status[q] \in {"IDLE", "OPEN"}

LEMMA BelowKeeps ==
    ASSUME KcpInv, Shape', NEW q \in Side, BlockStep(q)
    PROVE  \A n \in Nat : Below(q, n) => Below(q, n)'
<1>1. SUFFICES ASSUME NEW n \in Nat, Below(q, n) PROVE Below(q, n)'
  OBVIOUS
<1>2. conn_status'[q] \in {"IDLE", "OPEN"} => n = 0
  BY <1>1 DEF BlockStep, Below
<1>3. kcp'[q] # NoKcp => n <= kcp'[q].rcv_nxt
  BY <1>1 DEF BlockStep, Below, Fresh, Alike
<1>4. QED
  BY <1>2, <1>3 DEF Below

LEMMA StreamsKeep ==
    ASSUME KcpInv, Shape', NEW p \in Side, NEW ms, Grows(p, ms),
           UNCHANGED <<accepted, delivered>>,
           resets' = 0 => /\ resets = 0 /\ \A q \in Side : BlockStep(q)
                          /\ \A m \in ms : Fits(p, m)
    PROVE  Streams'
<1>1. SUFFICES ASSUME resets' = 0, NEW q \in Side PROVE Window(q)' /\ Sent(q)' /\ Agreed(q)'
  BY DEF Streams
<1>2. /\ Window(q) /\ Sent(q) /\ Agreed(q) /\ BlockStep(q) /\ BlockStep(Other(q))
      /\ accepted[q] \in Seq(Nat) /\ delivered[q] \in Seq(Nat) /\ Other(q) \in Side
      /\ accepted[Other(q)] \in Seq(Nat)
  BY <1>1, Sides DEF KcpInv, Streams, Shape
<1>3. Window(q)'
  <2>1. CASE kcp'[q] = kcp[q] \/ kcp'[q] = NoKcp
    BY <1>2, <2>1 DEF Window
  <2>2. CASE Fresh(q)
    BY <1>2, <2>2 DEF Window, Fresh
  <2>3. CASE kcp[q] # NoKcp /\ Alike(kcp'[q], kcp[q]) /\ kcp'[q].queue = kcp[q].queue
    BY <1>2, <2>3 DEF Window, Alike
  <2>4. QED
    BY <1>2, <2>1, <2>2, <2>3 DEF BlockStep
<1>4. /\ \A n \in Nat : Below(q, n) => Below(q, n)'
      /\ \A n \in Nat : Below(Other(q), n) => Below(Other(q), n)'
  BY <1>2, BelowKeeps
<1>5. Sent(q)'
  <2>1. \A m \in net'[Other(q)] : Fits(q, m)
    <3>1. CASE q = p
      BY <1>1, <1>2, <3>1 DEF Grows, Sent
    <3>2. CASE q = Other(p)
      BY <1>2, <3>2, Sides DEF Grows, Sent
    <3>3. QED
      BY <3>1, <3>2, Sides
  <2>2. \A m \in net'[Other(q)] : m.sn \in Nat
    BY <1>2 DEF Shape, Message
  <2>3. ASSUME NEW m \in net'[Other(q)] PROVE Fits(q, m)'
    <3>1. m.cmd = "ACK" => Below(q, m.sn)'
      BY <1>4, <2>1, <2>2 DEF Fits
    <3>2. m.cmd = "PUSH" => Taken(q, m)'
      BY <2>1 DEF Fits, Taken
    <3>3. QED
      BY <3>1, <3>2 DEF Fits
  <2>4. QED
    BY <2>3 DEF Sent
<1>6. Agreed(q)'
  <2>0. SUFFICES ASSUME kcp'[q] # NoKcp
        PROVE  /\ kcp'[q].rcv_nxt <= Len(accepted[Other(q)])
               /\ \A x \in kcp'[q].rcv_buf : Taken(Other(q), x)'
               /\ Below(Other(q), kcp[q].una)'
    BY <1>2 DEF Agreed
  <2>1. CASE kcp'[q] = kcp[q] \/ (kcp[q] # NoKcp /\ Alike(kcp'[q], kcp[q]))
    <3>1. /\ kcp'[q].una = kcp[q].una /\ kcp'[q].rcv_nxt = kcp[q].rcv_nxt
          /\ kcp'[q].rcv_buf = kcp[q].rcv_buf /\ kcp[q] # NoKcp
      BY <2>0, <2>1 DEF Alike
    <3>2. kcp[q].una \in Nat
      BY <3>1 DEF KcpInv, Shape, Block
    <3>3. \A n \in Nat : n = kcp'[q].una /\ Below(Other(q), n)' => Below(Other(q), kcp[q].una)'
      BY DEF Below
    <3>4. QED
      BY <1>2, <1>4, <3>1, <3>2, <3>3 DEF Agreed, Taken
  <2>2. CASE Fresh(q)
    <3>1. Below(Other(q), 0)'
      BY <1>2, Blocks DEF Below, Shape, Block
    <3>2. kcp'[q].una = 0 => (Below(Other(q), 0)' => Below(Other(q), kcp[q].una)')
      BY DEF Below
    <3>3. QED
      BY <1>2, <2>2, <3>1, <3>2 DEF Fresh
  <2>3. QED
    BY <1>2, <2>0, <2>1, <2>2 DEF BlockStep
<1>7. QED
  BY <1>3, <1>5, <1>6

----------------------------------------------------------------------------
(* KCP: the steps of users and timers.                                     *)

LEMMA KcpInitInv ==
    ASSUME Init PROVE KcpInv
<1> USE DEF Init
<1>1. Shape
  <2>1. Cid \in [Side -> Nat \ {0}]
    BY KcpAssumption DEF Side
  <2>2. silence \in [Side -> 0..Ahead]
    BY KcpAssumption DEF Ahead
  <2>3. QED
    BY <2>1, <2>2, KcpAssumption DEF Shape
<1>2. Life
  BY DEF Life
<1>3. Streams
  <2>1. \A p \in Side : Other(p) \in Side
    BY Sides
  <2>2. QED
    BY <2>1 DEF Streams, Window, Sent, Fits, Agreed
<1>4. QED
  BY <1>1, <1>2, <1>3 DEF KcpInv

LEMMA ConnectStep ==
    ASSUME KcpInv, connect PROVE KcpInv'
<1>1. /\ C \in Side /\ Other(C) = S /\ Shape /\ cid[C] \in Nat \ {0}
      /\ "REQUEST" \in Command \ {"PUSH", "ACK"}
  BY Sides DEF KcpInv, Shape, Command, Control
<1>2. net' = [net EXCEPT ![Other(C)] = Towards(Other(C), {Msg("REQUEST", cid[C])})]
  BY DEF connect, Sending
<1>3. /\ conn_status[C] = "IDLE" /\ conn_status' = [conn_status EXCEPT ![C] = "OPEN"]
      /\ UNCHANGED <<cid, kcp, silence, known, events, accepted, delivered, resets>>
  BY DEF connect, data
<1>4. PICK ms : Grows(C, ms) /\ \A m \in ms : m.conv # 0 /\ m.cmd \notin {"PUSH", "ACK"}
  BY <1>1, <1>2, Controls
<1>5. Shape'
  BY <1>1, <1>3, <1>4, NetShape DEF Shape
<1>6. Life'
  BY <1>1, <1>3 DEF KcpInv, Life, Shape
<1>7. \A q \in Side : BlockStep(q)
  BY <1>1, <1>3 DEF BlockStep, Shape
<1>8. Streams'
  BY <1>1, <1>3, <1>4, <1>5, <1>7, StreamsKeep DEF Fits
<1>9. QED
  BY <1>5, <1>6, <1>8 DEF KcpInv

(* The two halves of send().                                               *)
SendData(p) ==
  /\ conn_status[p] = "READY"
  /\ kcp' = [kcp EXCEPT ![p].queue = Append(@, Len(accepted[p]) + 1)]
  /\ accepted' = [accepted EXCEPT ![p] = Append(@, Len(@) + 1)]
  /\ UNCHANGED <<conn_status, cid, silence, known, net, events, delivered, resets>>

SendRequest(p) ==
  /\ conn_status[p] # "READY" /\ HasSocket(p)
  /\ asked' = (asked \/ (p = S /\ "CONNECT" \notin events[S]))
  /\ Sending(p, {Msg("REQUEST", cid[p])})
  /\ UNCHANGED <<conn_status, cid, kcp, silence, known, events, accepted, delivered, resets>>

LEMMA SendHalves ==
    ASSUME NEW p \in Side, send(p) PROVE SendData(p) \/ SendRequest(p)
  BY DEF send, SendData, SendRequest, data

LEMMA SendRequestStep ==
    ASSUME KcpInv, NEW p \in Side, SendRequest(p) PROVE KcpInv'
<1>1. /\ Shape /\ cid[p] \in Nat \ {0} /\ "REQUEST" \in Command \ {"PUSH", "ACK"}
  BY DEF KcpInv, Shape, Command, Control
<1>2. net' = [net EXCEPT ![Other(p)] = Towards(Other(p), {Msg("REQUEST", cid[p])})]
  BY DEF SendRequest, Sending
<1>3. UNCHANGED <<conn_status, cid, kcp, silence, known, events, accepted, delivered, resets>>
  BY DEF SendRequest
<1>4. PICK ms : Grows(p, ms) /\ \A m \in ms : m.conv # 0 /\ m.cmd \notin {"PUSH", "ACK"}
  BY <1>1, <1>2, Controls
<1>5. Shape'
  BY <1>1, <1>3, <1>4, NetShape DEF Shape
<1>6. Life'
  BY <1>3 DEF KcpInv, Life
<1>7. Streams'
  BY <1>1, <1>3, <1>4, <1>5, StreamsKeep DEF BlockStep, Fits
<1>8. QED
  BY <1>5, <1>6, <1>7 DEF KcpInv

(* A message is numbered by its place among those accepted, and queued     *)
(* behind the others.                                                      *)
LEMMA SendDataStep ==
    ASSUME KcpInv, NEW p \in Side, SendData(p) PROVE KcpInv'
<1> DEFINE k == kcp[p]
           n == Len(accepted[p])
<1>0. /\ conn_status[p] = "READY"
      /\ UNCHANGED <<conn_status, cid, silence, known, net, events, delivered, resets>>
  BY DEF SendData
<1>1. /\ Shape /\ k \in Block /\ accepted[p] \in Seq(Nat) /\ n \in Nat /\ k.queue \in Seq(Nat)
      /\ k # NoKcp
  BY <1>0 DEF KcpInv, Shape, Life, Block
<1>2. PICK q \in Seq(Nat) : q = Append(k.queue, n + 1)
  <2>1. n + 1 \in Nat
    BY <1>1
  <2>2. Append(k.queue, n + 1) \in Seq(Nat)
    BY <1>1, <2>1, AppendProperties
  <2>3. QED
    BY <2>2
<1>3. PICK b \in Block : b = [k EXCEPT !.queue = q] /\ b.queue = q /\ Alike(b, k)
  BY <1>1, BlockExcept
<1>4. kcp' = [kcp EXCEPT ![p] = b]
  BY <1>2, <1>3 DEF SendData
<1>5. PICK a \in Seq(Nat) : a = Append(accepted[p], n + 1)
  <2>1. n + 1 \in Nat
    BY <1>1
  <2>2. Append(accepted[p], n + 1) \in Seq(Nat)
    BY <1>1, <2>1, AppendProperties
  <2>3. QED
    BY <2>2
<1>6. accepted' = [accepted EXCEPT ![p] = a]
  BY <1>5 DEF SendData
<1>7. kcp'[p] = b /\ accepted'[p] = a
  BY <1>1, <1>4, <1>6 DEF Shape
<1> HIDE DEF k, n
<1>8. Shape'
  BY <1>0, <1>1, <1>4, <1>6 DEF Shape
<1>9. Life'
  BY <1>0, <1>4, <1>6, <1>7, Blocks DEF KcpInv, Life, Shape
<1>10. Len(a) = n + 1 /\ Len(q) = Len(k.queue) + 1 /\ Len(k.queue) \in Nat
  BY <1>1, <1>2, <1>5, AppendProperties DEF n
<1>11. ASSUME resets' = 0 PROVE Window(p)' /\ Sent(p)' /\ Agreed(p)'
  <2>1. Window(p) /\ Sent(p) /\ Agreed(p) /\ Other(p) \in Side /\ Other(p) # p
    BY <1>0, <1>11, Sides DEF KcpInv, Streams
  <2>2. \A i \in 1..Len(a) : a[i] = i
    <3>1. \A i \in 1..n : a[i] = accepted[p][i] /\ accepted[p][i] = i
      BY <1>1, <1>5, <2>1 DEF Window, n
    <3>2. a[n + 1] = n + 1
      BY <1>1, <1>5, AppendProperties DEF n
    <3>3. ASSUME NEW i \in 1..(n + 1) PROVE a[i] = i
      <4>1. i \in 1..n \/ i = n + 1
        BY <1>1
      <4>2. QED
        BY <4>1, <3>1, <3>2
    <3>4. QED
      BY <1>10, <3>3
  <2>3. k.una \in Nat /\ k.una + Len(k.queue) = n
    BY <1>1, <2>1 DEF Window, Block, k, n
  <2>4. \A i \in 1..Len(q) : q[i] = k.una + i
    <3>1. \A i \in 1..Len(k.queue) : q[i] = k.queue[i] /\ k.queue[i] = k.una + i
      BY <1>1, <1>2, <2>1 DEF Window, k
    <3>2. q[Len(k.queue) + 1] = n + 1
      BY <1>1, <1>2, AppendProperties
    <3>3. q[Len(k.queue) + 1] = k.una + (Len(k.queue) + 1)
      BY <1>10, <2>3, <3>2
    <3>4. ASSUME NEW i \in 1..(Len(k.queue) + 1) PROVE q[i] = k.una + i
      <4>0. Len(k.queue) \in Nat
        BY <1>10
      <4>1. i \in 1..Len(k.queue) \/ i = Len(k.queue) + 1
        BY <4>0
      <4>2. QED
        BY <4>1, <3>1, <3>3
    <3>5. QED
      BY <1>10, <3>4
  <2>5. Window(p)'
    <3>1. /\ k.rcv_nxt = Len(delivered[p]) + Len(k.rcv_queue)
          /\ \A i \in 1..Len(k.rcv_queue) : k.rcv_queue[i] = Len(delivered[p]) + i
          /\ \A i \in 1..Len(delivered[p]) : delivered[p][i] = i
      BY <1>1, <2>1 DEF Window, k
    <3>2. k.una + Len(q) = Len(a)
      BY <1>10, <2>3
    <3>3. QED
      BY <1>0, <1>3, <1>7, <2>2, <2>4, <3>1, <3>2 DEF Window, Alike
  <2>6. Sent(p)'
    <3>1. \A m \in net[Other(p)] : m.sn \in Nat
      BY <1>1, <2>1 DEF Shape, Message
    <3>2. QED
      BY <1>0, <1>1, <1>3, <1>7, <1>10, <2>1, <3>1 DEF Sent, Fits, Taken, Below, Alike, n, k
  <2>7. Agreed(p)'
    <3>1. kcp'[Other(p)] = kcp[Other(p)] /\ accepted'[Other(p)] = accepted[Other(p)]
      BY <1>1, <1>4, <1>6, <2>1 DEF Shape
    <3>2. QED
      BY <1>0, <1>1, <1>3, <1>7, <2>1, <3>1 DEF Agreed, Taken, Below, Alike, k
  <2>8. QED
    BY <2>5, <2>6, <2>7
<1>12. ASSUME resets' = 0, NEW o \in Side, o = Other(p) PROVE Window(o)' /\ Sent(o)' /\ Agreed(o)'
  <2>1. /\ Window(o) /\ Sent(o) /\ Agreed(o) /\ o # p /\ Other(o) = p
        /\ Len(delivered[o]) \in Nat
    BY <1>0, <1>12, Sides DEF KcpInv, Streams, Shape
  <2>2. kcp'[o] = kcp[o] /\ accepted'[o] = accepted[o] /\ delivered' = delivered /\ net' = net
    BY <1>0, <1>1, <1>4, <1>6, <2>1 DEF Shape
  <2>3. Window(o)' /\ Sent(o)'
    BY <1>0, <2>1, <2>2 DEF Window, Sent, Fits, Taken, Below
  <2>4. Agreed(o)'
    <3>0. kcp[o] # NoKcp => /\ kcp[o].rcv_nxt \in Nat
                            /\ \A x \in kcp[o].rcv_buf : x.sn \in Nat
      <4>1. kcp[o] # NoKcp => kcp[o] \in Block
        BY <1>1 DEF Shape
      <4>2. kcp[o] \in Block => kcp[o].rcv_nxt \in Nat /\ kcp[o].rcv_buf \subseteq Message
        BY DEF Block
      <4>3. \A x \in Message : x.sn \in Nat
        BY DEF Message
      <4>4. QED
        BY <4>1, <4>2, <4>3
    <3>1. kcp[o] # NoKcp =>
            /\ kcp[o].rcv_nxt \in Nat /\ kcp[o].rcv_nxt <= n
            /\ \A x \in kcp[o].rcv_buf : x.sn \in Nat /\ Taken(p, x) /\ x.sn < n
      BY <2>1, <3>0 DEF Agreed, Taken, n
    <3>2. kcp[o] # NoKcp => /\ kcp[o].rcv_nxt <= Len(a)
                            /\ \A x \in kcp[o].rcv_buf : x.user = x.sn + 1 /\ x.sn < Len(a)
      BY <1>1, <1>10, <3>1 DEF Taken
    <3>3. kcp[o] # NoKcp => Below(p, kcp[o].una)'
      BY <1>0, <1>1, <1>3, <1>7, <2>1, <2>2 DEF Agreed, Below, Alike, k
    <3>4. Len(delivered[o]) <= Len(a)
      BY <1>1, <1>10, <2>1 DEF Agreed, n
    <3>5. QED
      BY <1>7, <2>1, <2>2, <3>2, <3>3, <3>4 DEF Agreed, Taken
  <2>5. QED
    BY <2>3, <2>4
<1>13. Streams'
  BY <1>11, <1>12, Sides DEF Streams
<1>14. QED
  BY <1>8, <1>9, <1>13 DEF KcpInv

LEMMA SendStep ==
    ASSUME KcpInv, NEW p \in Side, send(p) PROVE KcpInv'
  BY SendHalves, SendDataStep, SendRequestStep

LEMMA HeartbeatStep ==
    ASSUME KcpInv, NEW p \in Side, heartbeat(p) PROVE KcpInv'
<1>1. /\ Shape /\ Life /\ cid[p] \in Nat \ {0} /\ "HEARTBEAT" \in Command \ {"PUSH", "ACK"}
      /\ silence[p] \in 0..Ahead /\ Silence \in Nat
  BY KcpAssumption DEF KcpInv, Shape, Command, Control
<1>2. /\ silence' = [silence EXCEPT ![p] = IF @ > Silence THEN @ ELSE @ + 1]
      /\ UNCHANGED <<cid, known, accepted, delivered, resets>>
      /\ \/ net' = net /\ events' = [events EXCEPT ![p] = @ \cup {"DISCONNECT"}]
            /\ \/ UNCHANGED <<conn_status, kcp>>
               \/ /\ conn_status' = [conn_status EXCEPT ![p] = "CLOSED"]
                  /\ kcp' = [kcp EXCEPT ![p] = NoKcp]
         \/ /\ net' = [net EXCEPT ![Other(p)] = Towards(Other(p), {Msg("HEARTBEAT", cid[p])})]
            /\ UNCHANGED <<conn_status, kcp, events>>
  BY DEF heartbeat, data, release, Raise
<1>3. PICK ms : Grows(p, ms) /\ \A m \in ms : m.conv # 0 /\ m.cmd \notin {"PUSH", "ACK"}
  BY <1>1, <1>2, Controls
<1>4. silence' \in [Side -> 0..Ahead]
  BY <1>1, <1>2 DEF Shape, Ahead
<1>5. /\ conn_status' \in [Side -> {"IDLE", "OPEN", "READY", "CLOSING", "CLOSED"}]
      /\ kcp' \in [Side -> Block \cup {NoKcp}]
      /\ events' \in [Side -> SUBSET {"CONNECT", "DISCONNECT"}]
      /\ \A q \in Side : /\ events[q] \subseteq events'[q]
                         /\ \/ kcp'[q] = kcp[q] /\ conn_status'[q] = conn_status[q]
                            \/ kcp'[q] = NoKcp /\ conn_status'[q] = "CLOSED"
  <2>1. /\ events' \in [Side -> SUBSET {"CONNECT", "DISCONNECT"}]
        /\ \A q \in Side : events[q] \subseteq events'[q]
    <3>1. events \in [Side -> SUBSET {"CONNECT", "DISCONNECT"}]
      BY <1>1 DEF Shape
    <3>2. events' = events \/ events' = [events EXCEPT ![p] = @ \cup {"DISCONNECT"}]
      BY <1>2
    <3>3. QED
      BY <3>1, <3>2
  <2>2. CASE UNCHANGED <<conn_status, kcp>>
    BY <1>1, <2>1, <2>2 DEF Shape
  <2>3. CASE /\ conn_status' = [conn_status EXCEPT ![p] = "CLOSED"]
             /\ kcp' = [kcp EXCEPT ![p] = NoKcp]
    BY <1>1, <2>1, <2>3 DEF Shape
  <2>4. QED
    BY <1>2, <2>2, <2>3
<1>6. Shape'
  BY <1>1, <1>2, <1>3, <1>4, <1>5, NetShape DEF Shape
<1>7. Life'
  BY <1>1, <1>2, <1>5 DEF Life
<1>8. Streams'
  BY <1>2, <1>3, <1>5, <1>6, StreamsKeep DEF BlockStep, Fits
<1>9. QED
  BY <1>6, <1>7, <1>8 DEF KcpInv

LEMMA DisconnectStep ==
    ASSUME KcpInv, NEW p \in Side, disconnect(p) PROVE KcpInv'
<1>1. /\ Shape /\ Life /\ cid[p] \in Nat \ {0} /\ "GOODBYE" \in Command \ {"PUSH", "ACK"}
  BY DEF KcpInv, Shape, Command, Control
<1>2. net' = [net EXCEPT ![Other(p)] = Towards(Other(p), {Msg("GOODBYE", cid[p])})]
  BY DEF disconnect, Sending
<1>3. /\ conn_status' = [conn_status EXCEPT ![p] = "CLOSING"]
      /\ UNCHANGED <<cid, kcp, silence, known, events, accepted, delivered, resets>>
  BY DEF disconnect, data
<1>4. PICK ms : Grows(p, ms) /\ \A m \in ms : m.conv # 0 /\ m.cmd \notin {"PUSH", "ACK"}
  BY <1>1, <1>2, Controls
<1>5. Shape'
  BY <1>1, <1>3, <1>4, NetShape DEF Shape
<1>6. Life'
  BY <1>1, <1>3 DEF Life, Shape
<1>7. \A q \in Side : BlockStep(q)
  BY <1>1, <1>3 DEF BlockStep, Shape
<1>8. Streams'
  BY <1>3, <1>4, <1>5, <1>7, StreamsKeep DEF Fits
<1>9. QED
  BY <1>5, <1>6, <1>8 DEF KcpInv

LEMMA GoodbyeStep ==
    ASSUME KcpInv, NEW p \in Side, OnGoodbyeSent(p) PROVE KcpInv'
<1>1. Shape /\ Life
  BY DEF KcpInv
<1>2. /\ events' = [events EXCEPT ![p] = @ \cup {"DISCONNECT"}]
      /\ conn_status' = [conn_status EXCEPT ![p] = "CLOSED"]
      /\ kcp' = [kcp EXCEPT ![p] = NoKcp]
      /\ UNCHANGED <<cid, silence, known, net, accepted, delivered, resets>>
  BY DEF OnGoodbyeSent, data, release, Raise
<1>3. Shape'
  BY <1>1, <1>2 DEF Shape
<1>4. Life'
  BY <1>1, <1>2 DEF Life, Shape
<1>5. \A q \in Side : BlockStep(q)
  BY <1>1, <1>2 DEF BlockStep, Shape
<1>6. Grows(p, {})
  BY <1>1, <1>2, SameGrows
<1>7. Streams'
  BY <1>2, <1>3, <1>5, <1>6, StreamsKeep DEF Fits
<1>8. QED
  BY <1>3, <1>4, <1>7 DEF KcpInv

LEMMA LoseStep ==
    ASSUME KcpInv, NEW p \in Side, NEW m \in net[p], Lose(p, m) PROVE KcpInv'
<1>1. Shape /\ Life
  BY DEF KcpInv
<1>2. /\ net' = [net EXCEPT ![p] = @ \ {m}]
      /\ UNCHANGED <<conn_status, cid, kcp, silence, known, events, accepted, delivered, resets>>
  BY DEF Lose
<1>3. Grows(p, {})
  BY <1>1, <1>2, Sides DEF Grows, Shape
<1>4. Shape'
  BY <1>1, <1>2, <1>3, NetShape DEF Shape
<1>5. Life'
  BY <1>1, <1>2 DEF Life
<1>6. Streams'
  BY <1>2, <1>3, <1>4, StreamsKeep DEF BlockStep, Fits
<1>7. QED
  BY <1>4, <1>5, <1>6 DEF KcpInv

LEMMA ReceiveErrorStep ==
    ASSUME KcpInv, NEW p \in Side, OnReceiveError(p) PROVE KcpInv'
<1>1. UNCHANGED <<conn_status, cid, kcp, silence, known, net, events, accepted, delivered, resets>>
  BY DEF OnReceiveError
<1>2. Shape /\ Life /\ Grows(p, {})
  BY <1>1, SameGrows DEF KcpInv
<1>3. Shape' /\ Life'
  BY <1>1, <1>2 DEF Shape, Life
<1>4. Streams'
  BY <1>1, <1>2, <1>3, StreamsKeep DEF BlockStep
<1>5. QED
  BY <1>3, <1>4 DEF KcpInv

(* What ikcp_update sends: the messages that wait and an acknowledgement   *)
(* of those received.                                                      *)
LEMMA TimerStep ==
    ASSUME KcpInv, NEW p \in Side, kcp_timer(p) PROVE KcpInv'
<1> DEFINE k == kcp[p]
           push(i) == [cmd |-> "PUSH", conv |-> k.conv, sn |-> k.una + i - 1, user |-> k.queue[i]]
           ack == [cmd |-> "ACK", conv |-> k.conv, sn |-> k.rcv_nxt, user |-> 0]
           ms == {push(i) : i \in 1..Len(k.queue)} \cup {ack : a \in {TRUE} \cap {k.ack}}
<1>1. /\ conn_status[p] = "READY"
      /\ UNCHANGED <<conn_status, cid, silence, known, events, accepted, delivered, resets>>
      /\ net' = [net EXCEPT ![Other(p)] = Towards(Other(p), ms)]
      /\ kcp' = [kcp EXCEPT ![p] = [k EXCEPT !.ack = FALSE]]
  BY DEF kcp_timer, Sending, data
<1>2. Shape /\ Life /\ k \in Block /\ k # NoKcp /\ accepted[p] \in Seq(Nat)
  BY <1>1 DEF KcpInv, Shape, Life
<1>3. /\ k.conv \in Nat /\ k.una \in Nat /\ k.queue \in Seq(Nat) /\ k.rcv_nxt \in Nat
      /\ Len(k.queue) \in Nat
  BY <1>2 DEF Block
<1>4. \A i \in 1..Len(k.queue) : k.una + i - 1 \in Nat /\ k.queue[i] \in Nat
  BY <1>3
<1> HIDE DEF k
<1>5. \A m \in ms : m \in Message /\ m.cmd \notin Handshake
  <2>1. \A i \in 1..Len(k.queue) : push(i) \in Message /\ push(i).cmd \notin Handshake
    BY <1>3, <1>4 DEF Message, Command, Handshake
  <2>2. ack \in Message /\ ack.cmd \notin Handshake
    BY <1>3 DEF Message, Command, Handshake
  <2> HIDE DEF push, ack
  <2>3. QED
    BY <2>1, <2>2
<1>6. ASSUME resets = 0, NEW m \in ms PROVE Fits(p, m)
  <2>1. Window(p)
    BY <1>6 DEF KcpInv, Streams
  <2>2. /\ k.una + Len(k.queue) = Len(accepted[p])
        /\ \A i \in 1..Len(k.queue) : k.queue[i] = k.una + i
    BY <1>2, <2>1 DEF Window, k
  <2>3. ASSUME NEW i \in 1..Len(k.queue) PROVE Fits(p, push(i))
    <3>1. k.una + i = (k.una + i - 1) + 1 /\ k.una + i - 1 < k.una + Len(k.queue)
      BY <1>3
    <3>2. k.queue[i] = (k.una + i - 1) + 1 /\ k.una + i - 1 < Len(accepted[p])
      BY <2>2, <3>1
    <3>3. QED
      BY <3>2 DEF Fits, Taken
  <2>4. Fits(p, ack)
    BY <1>1, <1>3 DEF Fits, Below, k
  <2> HIDE DEF push, ack
  <2>5. QED
    BY <1>6, <2>3, <2>4
<1> HIDE DEF ms
<1>7. Grows(p, ms)
  BY <1>1, <1>2, <1>5, TowardsGrows
<1>8. PICK b \in Block : kcp' = [kcp EXCEPT ![p] = b] /\ b.queue = k.queue /\ Alike(b, k)
  <2>1. FALSE \in BOOLEAN
    OBVIOUS
  <2>2. QED
    BY <1>1, <1>2, <1>3, <2>1, BlockExcept
<1>9. Shape'
  <2>1. kcp' \in [Side -> Block \cup {NoKcp}]
    BY <1>2, <1>8 DEF Shape
  <2>2. /\ net' \in [Side -> SUBSET Message]
        /\ \A q \in Side : \A m \in net'[q] : m.cmd \in Handshake => m.conv # 0
    BY <1>2, <1>5, <1>7, NetShape
  <2>3. QED
    BY <1>1, <1>2, <2>1, <2>2 DEF Shape
<1>10. Life'
  BY <1>1, <1>2, <1>8, Blocks DEF Life, Shape
<1>11. \A q \in Side : BlockStep(q)
  BY <1>1, <1>2, <1>8 DEF BlockStep, Shape, k
<1>12. Streams'
  BY <1>1, <1>6, <1>7, <1>9, <1>11, StreamsKeep
<1>13. QED
  BY <1>9, <1>10, <1>12 DEF KcpInv

----------------------------------------------------------------------------
(* KCP: a datagram arrives.                                                *)

LEMMA MinOfTwo ==
    ASSUME NEW a \in Nat, NEW b \in Nat
    PROVE  Min({a, b}) \in Nat /\ Min({a, b}) <= a /\ Min({a, b}) <= b
<1>1. \E x \in {a, b} : \A y \in {a, b} : x =< y
  BY SMT
<1>2. Min({a, b}) \in {a, b} /\ \A y \in {a, b} : Min({a, b}) =< y
  BY <1>1 DEF Min
<1>3. QED
  BY <1>2

LEMMA Offset ==
    ASSUME NEW l \in Nat, NEW n \in 0..l, NEW i \in 1..(l - n) PROVE n + i \in 1..l
  OBVIOUS

LEMMA Shorter ==
    ASSUME NEW q \in Seq(Nat), NEW n \in 0..Len(q)
    PROVE  /\ SubSeq(q, n + 1, Len(q)) \in Seq(Nat)
           /\ Len(SubSeq(q, n + 1, Len(q))) = Len(q) - n
           /\ \A i \in 1..(Len(q) - n) : SubSeq(q, n + 1, Len(q))[i] = q[n + i]
<1>1. Len(q) \in Nat /\ n \in Nat /\ n + 1 \in Int /\ Len(q) \in Int
  OBVIOUS
<1>2. \A i \in (n + 1)..Len(q) : q[i] \in Nat
  BY <1>1
<1> DEFINE r == SubSeq(q, n + 1, Len(q))
<1>3. /\ r \in Seq(Nat)
      /\ Len(r) = IF n + 1 <= Len(q) THEN Len(q) - (n + 1) + 1 ELSE 0
      /\ \A i \in 1..(Len(q) - (n + 1) + 1) : r[i] = q[(n + 1) + i - 1]
  BY <1>1, <1>2, SubSeqProperties
<1> HIDE DEF r
<1>4. Len(q) - (n + 1) + 1 = Len(q) - n /\ \A i \in 1..(Len(q) - n) : (n + 1) + i - 1 = n + i
  BY <1>1
<1>5. Len(r) = Len(q) - n
  BY <1>1, <1>3
<1>6. ASSUME NEW i \in 1..(Len(q) - n) PROVE r[i] = q[n + i]
  <2>1. i \in 1..(Len(q) - (n + 1) + 1)
    BY <1>4
  <2>2. r[i] = q[(n + 1) + i - 1]
    BY <1>3, <2>1
  <2>3. QED
    BY <1>4, <2>2
<1>7. QED
  BY <1>3, <1>5, <1>6, Zenon DEF r

(* What do_receive() does whatever the datagram is: at most a handshake    *)
(* goes back, and the connection has been heard of.                        *)
Answered(p, m) ==
  /\ Grows(p, Reply(p, m))
  /\ \A r \in Reply(p, m) : r.conv # 0 /\ r.cmd \in Handshake
  /\ silence' \in [Side -> 0..Ahead] /\ accepted' = accepted

LEMMA ReplyIsHandshake ==
    ASSUME Shape, NEW p \in Side, NEW m \in net[p]
    PROVE  \A r \in Reply(p, m) : r \in Message /\ r.conv # 0 /\ r.cmd \in Handshake
<1>1. /\ m \in Message /\ cid[p] \in Nat \ {0} /\ m.conv \in Nat
      /\ m.cmd = "REQUEST" => m.conv \in Nat \ {0}
  BY DEF Shape, Message, Handshake
<1>2. \A cmd \in Handshake, conv \in Nat \ {0} :
        Msg(cmd, conv) \in Message /\ Msg(cmd, conv).conv # 0 /\ Msg(cmd, conv).cmd \in Handshake
  BY MsgType DEF Handshake, Command, Control
<1>3. \A r \in Reply(p, m) : \/ r = Msg("RESPONSE", m.conv) /\ m.cmd = "REQUEST"
                             \/ r = Msg("RESPONSE", cid[p]) \/ r = Msg("REQUEST", cid[p])
  BY DEF Reply
<1>4. QED
  BY <1>1, <1>2, <1>3 DEF Handshake

LEMMA ReceiveAnswers ==
    ASSUME Shape, NEW p \in Side, NEW m \in net[p], NEW copy \in BOOLEAN, do_receive(p, m, copy)
    PROVE  Answered(p, m)
<1>1. /\ net' = [net EXCEPT ![p] = IF copy THEN @ ELSE @ \ {m},
                          ![Other(p)] = Towards(Other(p), Reply(p, m))]
      /\ silence' = [silence EXCEPT ![p] = 0] /\ accepted' = accepted
  BY DEF do_receive
<1>2. \A r \in Reply(p, m) : r \in Message /\ r.conv # 0 /\ r.cmd \in Handshake
  BY ReplyIsHandshake
<1>3. Towards(Other(p), Reply(p, m)) \subseteq net[Other(p)] \cup Reply(p, m)
  BY DEF Towards
<1>4. /\ net \in [Side -> SUBSET Message] /\ Other(p) \in Side /\ Other(p) # p
      /\ net[Other(p)] \subseteq Message
  BY Sides DEF Shape
<1>5. /\ net'[p] \subseteq net[p] /\ net'[Other(p)] = Towards(Other(p), Reply(p, m))
  BY <1>1, <1>4
<1>6. net' \in [Side -> SUBSET Message]
  BY <1>1, <1>2, <1>3, <1>4
<1>7. silence' \in [Side -> 0..Ahead]
  BY <1>1, KcpAssumption DEF Shape, Ahead
<1>8. QED
  BY <1>1, <1>2, <1>3, <1>5, <1>6, <1>7 DEF Answered, Grows

LEMMA IgnoreStep ==
    ASSUME KcpInv, NEW p \in Side, NEW m, Answered(p, m), Ignore
    PROVE  KcpInv'
<1>1. /\ UNCHANGED <<conn_status, cid, kcp, events, delivered, resets>> /\ accepted' = accepted
      /\ Shape /\ Life
  BY DEF Ignore, Answered, KcpInv
<1>2. /\ Grows(p, Reply(p, m)) /\ silence' \in [Side -> 0..Ahead]
      /\ \A r \in Reply(p, m) : r.conv # 0 /\ r.cmd \in Handshake
  BY DEF Answered
<1>3. Shape'
  BY <1>1, <1>2, NetShape DEF Shape
<1>4. Life'
  BY <1>1 DEF Life
<1>5. Streams'
  BY <1>1, <1>2, <1>3, StreamsKeep DEF BlockStep, Fits, Handshake
<1>6. QED
  BY <1>3, <1>4, <1>5 DEF KcpInv

(* A handshake: a fresh control block.  One that replaces another counts   *)
(* as a reset, so what follows is only about the first.                    *)
LEMMA FreshStep ==
    ASSUME KcpInv, NEW p \in Side, NEW m, Answered(p, m), NEW c \in Nat \ {0}, init_kcp(p, c),
           \/ conn_status[p] = "OPEN" /\ events' = [events EXCEPT ![p] = @ \cup {"CONNECT"}]
           \/ conn_status[p] = "READY" /\ events' = events,
           cid' = cid \/ cid' = [cid EXCEPT ![p] = c], delivered' = delivered
    PROVE  KcpInv'
<1>1. /\ kcp' = [kcp EXCEPT ![p] = NewKcp(c)] /\ conn_status' = [conn_status EXCEPT ![p] = "READY"]
      /\ resets' = IF kcp[p] = NoKcp THEN resets ELSE 1
      /\ accepted' = accepted /\ Shape /\ Life /\ NewKcp(c) \in Block /\ NewKcp(c) # NoKcp
  BY Blocks DEF init_kcp, Answered, KcpInv
<1>2. /\ Grows(p, Reply(p, m)) /\ silence' \in [Side -> 0..Ahead]
      /\ \A r \in Reply(p, m) : r.conv # 0 /\ r.cmd \in Handshake
  BY DEF Answered
<1>3. /\ events' \in [Side -> SUBSET {"CONNECT", "DISCONNECT"}] /\ "CONNECT" \in events'[p]
      /\ \A q \in Side : events[q] \subseteq events'[q]
  <2>1. events \in [Side -> SUBSET {"CONNECT", "DISCONNECT"}]
    BY <1>1 DEF Shape
  <2>2. CASE conn_status[p] = "OPEN" /\ events' = [events EXCEPT ![p] = @ \cup {"CONNECT"}]
    BY <2>1, <2>2
  <2>3. CASE conn_status[p] = "READY" /\ events' = events
    BY <1>1, <2>1, <2>3 DEF Life
  <2>4. QED
    BY <2>2, <2>3
<1>4. Shape'
  <2>1. kcp' \in [Side -> Block \cup {NoKcp}] /\ cid' \in [Side -> Nat \ {0}] /\ resets' \in {0, 1}
    BY <1>1 DEF Shape
  <2>2. /\ net' \in [Side -> SUBSET Message]
        /\ \A q \in Side : \A r \in net'[q] : r.cmd \in Handshake => r.conv # 0
    BY <1>1, <1>2, NetShape
  <2>3. QED
    BY <1>1, <1>2, <1>3, <2>1, <2>2 DEF Shape
<1>5. /\ kcp'[p] = NewKcp(c) /\ conn_status'[p] = "READY"
      /\ \A q \in Side : q # p => kcp'[q] = kcp[q] /\ conn_status'[q] = conn_status[q]
  BY <1>1 DEF Shape
<1>6. Life'
  BY <1>1, <1>3, <1>5 DEF Life
<1>7. ASSUME resets' = 0 PROVE resets = 0 /\ \A q \in Side : BlockStep(q)
  <2>1. resets = 0 /\ kcp[p] = NoKcp
    BY <1>1, <1>7
  <2>2. conn_status[p] = "OPEN" /\ accepted[p] = <<>> /\ delivered[p] = <<>>
    BY <1>1, <2>1 DEF Life
  <2>3. /\ NewKcp(c).una = 0 /\ NewKcp(c).queue = <<>> /\ NewKcp(c).rcv_nxt = 0
        /\ NewKcp(c).rcv_buf = {} /\ NewKcp(c).rcv_queue = <<>>
    BY DEF NewKcp
  <2>4. QED
    BY <1>5, <2>1, <2>2, <2>3 DEF BlockStep, Fresh
<1>8. \A r \in Reply(p, m) : Fits(p, r)
  BY <1>2 DEF Fits, Handshake
<1>9. Streams'
  BY <1>1, <1>2, <1>4, <1>7, <1>8, StreamsKeep
<1>10. QED
  BY <1>4, <1>6, <1>9 DEF KcpInv

(* The receive loop takes the first t of the messages v: d is what was     *)
(* handed over before.                                                     *)
Numbered(s, l) == \A i \in 1..Len(s) : s[i] = l + i
Handed(d, v, t) == d \o SubSeq(v, 1, t)
Left(v, t) == SubSeq(v, t + 1, Len(v))

LEMMA Shift ==
    ASSUME NEW d \in Nat, NEW l \in Nat, NEW i \in Nat PROVE (d + l) + (i - l) = d + i
  OBVIOUS

LEMMA Rest ==
    ASSUME NEW d \in Nat, NEW l \in Nat, NEW w \in Nat, NEW t \in 0..(l + w)
    PROVE  (d + l) + w = (d + t) + ((l + w) - t) /\ d + t <= (d + l) + w
  OBVIOUS

LEMMA AtMost ==
    ASSUME NEW a \in Nat, NEW b \in Nat, NEW c \in Nat, a <= b, b <= c
    PROVE  a <= c
  OBVIOUS

LEMMA Reading ==
    ASSUME NEW v \in Seq(Nat), NEW t \in 0..Len(v), NEW d \in Seq(Nat)
    PROVE  /\ Handed(d, v, t) \in Seq(Nat) /\ Len(Handed(d, v, t)) = Len(d) + t
           /\ Left(v, t) \in Seq(Nat) /\ Len(Left(v, t)) = Len(v) - t
           /\ Numbered(d, 0) /\ Numbered(v, Len(d)) =>
                Numbered(Handed(d, v, t), 0) /\ Numbered(Left(v, t), Len(d) + t)
<1>1. Len(v) \in Nat /\ Len(d) \in Nat /\ t \in Nat /\ 1 \in Int /\ t \in Int
  OBVIOUS
<1>2. \A i \in 1..t : v[i] \in Nat
  BY <1>1
<1>3. PICK w \in Seq(Nat) : /\ w = SubSeq(v, 1, t) /\ Len(w) = IF 1 <= t THEN t - 1 + 1 ELSE 0
                            /\ \A i \in 1..(t - 1 + 1) : w[i] = v[1 + i - 1]
  <2>1. /\ SubSeq(v, 1, t) \in Seq(Nat) /\ Len(SubSeq(v, 1, t)) = IF 1 <= t THEN t - 1 + 1 ELSE 0
        /\ \A i \in 1..(t - 1 + 1) : SubSeq(v, 1, t)[i] = v[1 + i - 1]
    BY <1>1, <1>2, SubSeqProperties
  <2>2. QED
    BY <2>1
<1>4. Len(w) = t /\ \A i \in 1..t : w[i] = v[i]
  <2>1. Len(w) = t
    BY <1>1, <1>3
  <2>2. ASSUME NEW i \in 1..t PROVE w[i] = v[i]
    <3>1. i \in 1..(t - 1 + 1) /\ 1 + i - 1 = i
      BY <1>1
    <3>2. QED
      BY <1>3, <3>1
  <2>3. QED
    BY <2>1, <2>2
<1>5. PICK e \in Seq(Nat) : /\ e = d \o w /\ Len(e) = Len(d) + Len(w)
                            /\ \A i \in 1..(Len(d) + Len(w)) :
                                 e[i] = IF i <= Len(d) THEN d[i] ELSE w[i - Len(d)]
  <2>1. /\ d \o w \in Seq(Nat) /\ Len(d \o w) = Len(d) + Len(w)
        /\ \A i \in 1..(Len(d) + Len(w)) :
             (d \o w)[i] = IF i <= Len(d) THEN d[i] ELSE w[i - Len(d)]
    BY ConcatProperties
  <2>2. QED
    BY <2>1
<1>6. PICK r \in Seq(Nat) : /\ r = SubSeq(v, t + 1, Len(v)) /\ Len(r) = Len(v) - t
                            /\ \A i \in 1..(Len(v) - t) : r[i] = v[t + i]
  BY Shorter
<1>7. ASSUME \A i \in 1..Len(d) : d[i] = i, \A i \in 1..Len(v) : v[i] = Len(d) + i
      PROVE  /\ \A i \in 1..(Len(d) + t) : e[i] = i
             /\ \A i \in 1..(Len(v) - t) : r[i] = Len(d) + t + i
  <2>1. ASSUME NEW i \in 1..(Len(d) + t) PROVE e[i] = i
    <3>1. CASE i <= Len(d)
      BY <1>1, <1>4, <1>5, <1>7, <3>1
    <3>2. CASE ~(i <= Len(d))
      <4>1. i - Len(d) \in 1..t /\ i - Len(d) \in 1..Len(v) /\ Len(d) + (i - Len(d)) = i
        BY <1>1, <3>2
      <4>2. e[i] = w[i - Len(d)]
        BY <1>4, <1>5, <3>2
      <4>3. QED
        BY <1>4, <1>7, <4>1, <4>2
    <3>3. QED
      BY <3>1, <3>2
  <2>2. ASSUME NEW i \in 1..(Len(v) - t) PROVE r[i] = Len(d) + t + i
    <3>1. t + i \in 1..Len(v) /\ Len(d) + (t + i) = Len(d) + t + i
      BY <1>1
    <3>2. QED
      BY <1>6, <1>7, <3>1
  <2>3. QED
    BY <2>1, <2>2
<1>8. e = Handed(d, v, t) /\ r = Left(v, t) /\ Len(e) = Len(d) + t
  BY <1>3, <1>4, <1>5, <1>6 DEF Handed, Left
<1>9. ASSUME Numbered(d, 0), Numbered(v, Len(d)) PROVE Numbered(e, 0) /\ Numbered(r, Len(d) + t)
  <2>1. (\A i \in 1..Len(d) : d[i] = i) /\ \A i \in 1..Len(v) : v[i] = Len(d) + i
    BY <1>1, <1>9 DEF Numbered
  <2>2. /\ \A i \in 1..(Len(d) + t) : e[i] = i
        /\ \A i \in 1..(Len(v) - t) : r[i] = Len(d) + t + i
    BY <1>7, <2>1
  <2>3. Numbered(r, Len(d) + t)
    BY <1>6, <2>2, Zenon DEF Numbered
  <2>4. \A i \in 1..(Len(d) + t) : e[i] = 0 + i
    BY <1>1, <2>2
  <2>5. Numbered(e, 0)
    BY <1>8, <2>4, Zenon DEF Numbered
  <2>6. QED
    BY <2>3, <2>5
<1>10. QED
  BY <1>6, <1>8, <1>9

(* handle_receive: n messages are acknowledged and leave the window, the   *)
(* messages new, which follow each other, go from rcv_buf to rcv_queue,    *)
(* and the user is handed the first t of what lies there.                  *)
Accepts(p, m, n, new, t, b) ==
  LET k == kcp[p]
      v == k.rcv_queue \o new
  IN
  /\ n \in 0..Len(k.queue) /\ (n # 0 => m.cmd = "ACK" /\ k.una + n <= m.sn)
  /\ new \in Seq(Nat)
  /\ \A i \in 1..Len(new) : \E x \in k.rcv_buf \cup {m} :
       /\ x \in k.rcv_buf \/ m.cmd = "PUSH"
       /\ x.sn = k.rcv_nxt + i - 1 /\ new[i] = x.user
  /\ t \in 0..Len(v)
  /\ b \in Block /\ b.conv = k.conv /\ b.una = k.una + n
  /\ b.queue = SubSeq(k.queue, n + 1, Len(k.queue))
  /\ b.rcv_nxt = k.rcv_nxt + Len(new)
  /\ \A x \in b.rcv_buf : x \in k.rcv_buf \/ (x = m /\ m.cmd = "PUSH")
  /\ b.rcv_queue = SubSeq(v, t + 1, Len(v))
  /\ kcp' = [kcp EXCEPT ![p] = b]
  /\ delivered' = [delivered EXCEPT ![p] = @ \o SubSeq(v, 1, t)]
  /\ UNCHANGED <<conn_status, cid, events, resets>>

(* The messages that move to rcv_queue, one after the other.               *)
LEMMA Moved ==
    ASSUME NEW buf \in SUBSET Message, NEW nxt \in Nat, NEW j \in Nat, InSequence(buf, nxt, j)
    PROVE  \E w \in Seq(Nat) :
             /\ w = [i \in 1..j |-> At(buf, nxt + i - 1).user] /\ Len(w) = j
             /\ \A i \in 1..j : \E x \in buf : x.sn = nxt + i - 1 /\ w[i] = x.user
<1>1. \A i \in 1..j : At(buf, nxt + i - 1) \in buf /\ At(buf, nxt + i - 1).sn = nxt + i - 1
  BY DEF InSequence, At
<1>2. \A x \in buf : x.user \in Nat
  BY DEF Message
<1> DEFINE w == [i \in 1..j |-> At(buf, nxt + i - 1).user]
<1>3. \A i \in 1..j : At(buf, nxt + i - 1).user \in Nat
  BY <1>1, <1>2
<1>4. w \in Seq(Nat) /\ Len(w) = j
  BY <1>3
<1>5. \A i \in 1..j : \E x \in buf : x.sn = nxt + i - 1 /\ w[i] = x.user
  BY <1>1
<1>6. QED
  BY <1>4, <1>5

LEMMA InputCases ==
    ASSUME KcpInv, NEW p \in Side, NEW m \in Message, handle_receive(p, m)
    PROVE  Ignore \/ (kcp[p] \in Block /\ \E n, new, t, b : Accepts(p, m, n, new, t, b))
<1> DEFINE k == kcp[p]
           fits == m.conv = k.conv
           buf == IF fits /\ m.cmd = "PUSH" THEN Stored(k, m) ELSE k.rcv_buf
           n == IF fits /\ m.cmd = "ACK" /\ m.sn > k.una
                THEN Min({m.sn - k.una, Len(k.queue)}) ELSE 0
           ready(j) == k.rcv_queue \o [i \in 1..j |-> At(buf, k.rcv_nxt + i - 1).user]
           block(j, t) == [conv |-> k.conv, una |-> k.una + n,
                           queue |-> SubSeq(k.queue, n + 1, Len(k.queue)),
                           rcv_nxt |-> k.rcv_nxt + j,
                           rcv_buf |-> {x \in buf : x.sn >= k.rcv_nxt + j},
                           rcv_queue |-> SubSeq(ready(j), t + 1, Len(ready(j))),
                           ack |-> k.ack \/ (fits /\ m.cmd = "PUSH")]
<1>1. /\ UNCHANGED <<conn_status, cid, events, resets>>
      /\ \/ UNCHANGED <<kcp, delivered>>
         \/ /\ k # NoKcp
            /\ \E j, t \in 0..MaxMsgs[Other(p)] :
                 /\ InSequence(buf, k.rcv_nxt, j) /\ t <= Len(ready(j))
                 /\ kcp' = [kcp EXCEPT ![p] = block(j, t)]
                 /\ delivered' = [delivered EXCEPT ![p] = @ \o SubSeq(ready(j), 1, t)]
  BY DEF handle_receive
<1> HIDE DEF block, ready, n, buf
<1>2. CASE UNCHANGED <<kcp, delivered>>
  BY <1>1, <1>2 DEF Ignore
<1>3. CASE k # NoKcp /\ \E j, t \in 0..MaxMsgs[Other(p)] :
             /\ InSequence(buf, k.rcv_nxt, j) /\ t <= Len(ready(j))
             /\ kcp' = [kcp EXCEPT ![p] = block(j, t)]
             /\ delivered' = [delivered EXCEPT ![p] = @ \o SubSeq(ready(j), 1, t)]
  <2>1. PICK j, t \in 0..MaxMsgs[Other(p)] :
             /\ InSequence(buf, k.rcv_nxt, j) /\ t <= Len(ready(j))
             /\ kcp' = [kcp EXCEPT ![p] = block(j, t)]
             /\ delivered' = [delivered EXCEPT ![p] = @ \o SubSeq(ready(j), 1, t)]
    BY <1>3
  <2>2. j \in Nat /\ t \in Nat
    BY <2>1, Sides, KcpAssumption
  <2>3. k \in Block
    BY <1>3 DEF KcpInv, Shape
  <2>4. /\ k.conv \in Nat \ {0} /\ k.una \in Nat /\ k.queue \in Seq(Nat) /\ Len(k.queue) \in Nat
        /\ k.rcv_nxt \in Nat /\ k.rcv_buf \subseteq Message /\ k.rcv_queue \in Seq(Nat)
        /\ k.ack \in BOOLEAN /\ m.sn \in Nat
    BY <2>3 DEF Block, Message
  <2>5. /\ buf \subseteq Message
        /\ \A x \in buf : x \in k.rcv_buf \/ (x = m /\ m.cmd = "PUSH")
    BY <2>4 DEF buf, Stored
  <2>6. n \in 0..Len(k.queue) /\ (n # 0 => m.cmd = "ACK" /\ k.una + n <= m.sn)
    <3>1. CASE fits /\ m.cmd = "ACK" /\ m.sn > k.una
      <4>1. n = Min({m.sn - k.una, Len(k.queue)}) /\ m.sn - k.una \in Nat
        BY <2>4, <3>1 DEF n
      <4>2. n \in Nat /\ n <= m.sn - k.una /\ n <= Len(k.queue)
        BY <2>4, <4>1, MinOfTwo
      <4>3. QED
        BY <2>4, <3>1, <4>2
    <3>2. CASE ~(fits /\ m.cmd = "ACK" /\ m.sn > k.una)
      BY <2>4, <3>2 DEF n
    <3>3. QED
      BY <3>1, <3>2
  <2>7. PICK new \in Seq(Nat) :
             /\ new = [i \in 1..j |-> At(buf, k.rcv_nxt + i - 1).user] /\ Len(new) = j
             /\ \A i \in 1..j : \E x \in buf : x.sn = k.rcv_nxt + i - 1 /\ new[i] = x.user
    <3>1. buf \in SUBSET Message /\ k.rcv_nxt \in Nat /\ j \in Nat /\ InSequence(buf, k.rcv_nxt, j)
      BY <2>1, <2>2, <2>4, <2>5
    <3>2. QED
      BY <3>1, Moved
  <2>8. PICK v \in Seq(Nat) : v = k.rcv_queue \o new /\ v = ready(j)
    <3>1. k.rcv_queue \o new \in Seq(Nat)
      BY <2>4, <2>7, ConcatProperties
    <3>2. QED
      BY <2>7, <3>1 DEF ready
  <2>9. t \in 0..Len(v) /\ Len(v) \in Nat
    BY <2>1, <2>2, <2>8
  <2>10. PICK g \in Seq(Nat) : g = SubSeq(v, t + 1, Len(v))
    BY <2>8, <2>9, Shorter
  <2>11. PICK q \in Seq(Nat) : q = SubSeq(k.queue, n + 1, Len(k.queue))
    BY <2>4, <2>6, Shorter
  <2>12. PICK a \in BOOLEAN : a = (k.ack \/ (fits /\ m.cmd = "PUSH"))
    BY <2>4
  <2>13. PICK s \in SUBSET Message : s = {x \in buf : x.sn >= k.rcv_nxt + j}
    BY <2>5
  <2>14. PICK u \in Nat : u = k.una + n
    BY <2>4, <2>6
  <2>15. PICK r \in Nat : r = k.rcv_nxt + j
    BY <2>2, <2>4
  <2> HIDE DEF k
  <2>c. PICK c \in Nat \ {0} : c = k.conv
    BY <2>4
  <2> DEFINE b == [conv |-> c, una |-> u, queue |-> q, rcv_nxt |-> r, rcv_buf |-> s,
                   rcv_queue |-> g, ack |-> a]
  <2>16. /\ b \in Block /\ b.conv = c /\ b.una = u /\ b.queue = q /\ b.rcv_nxt = r
         /\ b.rcv_buf = s /\ b.rcv_queue = g
    BY DEF Block
  <2>17. b = block(j, t)
    BY <2>c, <2>8, <2>10, <2>11, <2>12, <2>13, <2>14, <2>15 DEF block
  <2> HIDE DEF b
  <2>18. kcp' = [kcp EXCEPT ![p] = b]
    BY <2>1, <2>17
  <2>19. delivered' = [delivered EXCEPT ![p] = @ \o SubSeq(v, 1, t)]
    BY <2>1, <2>8
  <2>20. \A i \in 1..Len(new) : \E x \in k.rcv_buf \cup {m} :
           /\ x \in k.rcv_buf \/ m.cmd = "PUSH"
           /\ x.sn = k.rcv_nxt + i - 1 /\ new[i] = x.user
    BY <2>5, <2>7
  <2>21. /\ b.rcv_nxt = k.rcv_nxt + Len(new)
         /\ \A x \in b.rcv_buf : x \in k.rcv_buf \/ (x = m /\ m.cmd = "PUSH")
    BY <2>5, <2>7, <2>13, <2>15, <2>16
  <2>22. /\ b.conv = k.conv /\ b.una = k.una + n
         /\ b.queue = SubSeq(k.queue, n + 1, Len(k.queue)) /\ b.rcv_queue = SubSeq(v, t + 1, Len(v))
    BY <2>c, <2>10, <2>11, <2>14, <2>16
  <2>23. Accepts(p, m, n, new, t, b)
    BY <1>1, <2>6, <2>7, <2>8, <2>9, <2>18, <2>19, <2>16, <2>20, <2>21, <2>22 DEF Accepts, k
  <2>24. QED
    BY <2>3, <2>23 DEF k
<1>4. QED
  BY <1>1, <1>2, <1>3

LEMMA AcceptsStep ==
    ASSUME KcpInv, NEW p \in Side, NEW m \in net[p], Answered(p, m), Reply(p, m) = {},
           kcp[p] \in Block, NEW n, NEW new, NEW t, NEW b, Accepts(p, m, n, new, t, b)
    PROVE  KcpInv'
<1> DEFINE k == kcp[p]
           d0 == delivered[p]
           o == Other(p)
           v == k.rcv_queue \o new
<1>1. /\ n \in 0..Len(k.queue) /\ (n # 0 => m.cmd = "ACK" /\ k.una + n <= m.sn)
      /\ new \in Seq(Nat) /\ t \in 0..Len(v) /\ b \in Block
      /\ b.conv = k.conv /\ b.una = k.una + n
      /\ b.queue = SubSeq(k.queue, n + 1, Len(k.queue))
      /\ b.rcv_nxt = k.rcv_nxt + Len(new) /\ b.rcv_queue = SubSeq(v, t + 1, Len(v))
      /\ UNCHANGED <<conn_status, cid, events, resets>>
  BY DEF Accepts
<1>2. /\ Shape /\ Life /\ m \in Message /\ o \in Side /\ o # p /\ Other(o) = p /\ k \in Block
      /\ d0 \in Seq(Nat) /\ Len(d0) \in Nat /\ delivered \in [Side -> Seq(Nat)]
      /\ kcp \in [Side -> Block \cup {NoKcp}]
  BY Sides DEF KcpInv, Shape
<1>3. /\ k.conv \in Nat \ {0} /\ k.una \in Nat /\ k.queue \in Seq(Nat) /\ Len(k.queue) \in Nat
      /\ k.rcv_nxt \in Nat /\ k.rcv_queue \in Seq(Nat) /\ Len(k.rcv_queue) \in Nat
      /\ m.sn \in Nat /\ Len(new) \in Nat /\ k.rcv_buf \subseteq Message
  <2>1. m.sn \in Nat
    BY <1>2 DEF Message
  <2>2. new \in Seq(Nat)
    BY <1>1
  <2>3. /\ k.conv \in Nat \ {0} /\ k.una \in Nat /\ k.queue \in Seq(Nat)
        /\ k.rcv_nxt \in Nat /\ k.rcv_queue \in Seq(Nat) /\ k.rcv_buf \subseteq Message
    BY <1>2 DEF Block
  <2>4. QED
    BY <2>1, <2>2, <2>3
<1>4. PICK q \in Seq(Nat) : /\ q = SubSeq(k.queue, n + 1, Len(k.queue)) /\ Len(q) = Len(k.queue) - n
                            /\ \A i \in 1..(Len(k.queue) - n) : q[i] = k.queue[n + i]
  BY <1>1, <1>3, Shorter
<1>5. /\ v \in Seq(Nat) /\ Len(v) = Len(k.rcv_queue) + Len(new) /\ Len(v) \in Nat
      /\ \A i \in 1..(Len(k.rcv_queue) + Len(new)) :
           v[i] = IF i <= Len(k.rcv_queue) THEN k.rcv_queue[i] ELSE new[i - Len(k.rcv_queue)]
  <2>1. k.rcv_queue \in Seq(Nat) /\ new \in Seq(Nat)
    BY <1>1, <1>3
  <2>2. /\ v \in Seq(Nat) /\ Len(v) = Len(k.rcv_queue) + Len(new)
        /\ \A i \in 1..(Len(k.rcv_queue) + Len(new)) :
             v[i] = IF i <= Len(k.rcv_queue) THEN k.rcv_queue[i] ELSE new[i - Len(k.rcv_queue)]
    BY <2>1, ConcatProperties
  <2> HIDE DEF v
  <2>3. QED
    BY <2>2
<1>6. \A x \in b.rcv_buf : x \in k.rcv_buf \/ (x = m /\ m.cmd = "PUSH")
  BY DEF Accepts
<1>7. \A i \in 1..Len(new) : \E x \in k.rcv_buf \cup {m} :
        /\ x \in k.rcv_buf \/ m.cmd = "PUSH"
        /\ x.sn = k.rcv_nxt + i - 1 /\ new[i] = x.user
  BY DEF Accepts
<1>8. kcp' = [kcp EXCEPT ![p] = b] /\ delivered' = [delivered EXCEPT ![p] = d0 \o SubSeq(v, 1, t)]
  BY DEF Accepts
<1> HIDE DEF k, d0, o, v
<1>una. /\ Len(k.queue) \in Nat /\ n \in 0..Len(k.queue) /\ k.una \in Nat /\ b.una = k.una + n
  BY <1>1, <1>3
<1>nxt. /\ k.rcv_nxt \in Nat /\ Len(new) \in Nat /\ b.rcv_nxt = k.rcv_nxt + Len(new)
  BY <1>1, <1>3
<1>len. /\ Len(k.rcv_queue) \in Nat /\ Len(v) = Len(k.rcv_queue) + Len(new) /\ t \in 0..Len(v)
        /\ Len(d0) \in Nat
  BY <1>1, <1>2, <1>3, <1>5
<1>ack. n # 0 => m.cmd = "ACK" /\ b.una <= m.sn
  BY <1>1, Zenon
<1>nat. b.una \in Nat /\ b.rcv_nxt \in Nat /\ m.sn \in Nat
  <2>1. b.una \in Nat
    BY <1>una
  <2>2. b.rcv_nxt \in Nat
    BY <1>nxt
  <2>3. m.sn \in Nat
    BY <1>3, Zenon
  <2>4. QED
    BY <2>1, <2>2, <2>3
<1>9. PICK d \in Seq(Nat) :
        /\ d = Handed(d0, v, t) /\ Len(d) = Len(d0) + t /\ Len(b.rcv_queue) = Len(v) - t
        /\ Numbered(d0, 0) /\ Numbered(v, Len(d0)) => Numbered(d, 0) /\ Numbered(b.rcv_queue, Len(d))
  <2>1. v \in Seq(Nat) /\ t \in 0..Len(v) /\ d0 \in Seq(Nat)
    BY <1>1, <1>2, <1>5
  <2>2. b.rcv_queue = Left(v, t)
    BY <1>1 DEF Left
  <2>3. /\ Handed(d0, v, t) \in Seq(Nat) /\ Len(Handed(d0, v, t)) = Len(d0) + t
        /\ Len(Left(v, t)) = Len(v) - t
        /\ Numbered(d0, 0) /\ Numbered(v, Len(d0)) =>
             Numbered(Handed(d0, v, t), 0) /\ Numbered(Left(v, t), Len(d0) + t)
    BY <2>1, Reading, Zenon
  <2>4. QED
    BY <2>2, <2>3, Zenon
<1>10. delivered' = [delivered EXCEPT ![p] = d]
  BY <1>8, <1>9 DEF Handed
<1>12. /\ kcp'[p] = b /\ kcp'[o] = kcp[o] /\ delivered'[p] = d /\ delivered'[o] = delivered[o]
       /\ b # NoKcp /\ k # NoKcp
  BY <1>1, <1>2, <1>8, <1>10, Blocks
<1>13. /\ Grows(p, {}) /\ silence' \in [Side -> 0..Ahead] /\ accepted' = accepted
  BY DEF Answered
<1>14. Shape'
  <2>1. kcp' \in [Side -> Block \cup {NoKcp}] /\ delivered' \in [Side -> Seq(Nat)]
    BY <1>1, <1>2, <1>8, <1>10
  <2>2. /\ net' \in [Side -> SUBSET Message]
        /\ \A s \in Side : \A x \in net'[s] : x.cmd \in Handshake => x.conv # 0
    BY <1>2, <1>13, NetShape
  <2>3. QED
    BY <1>1, <1>2, <1>13, <2>1, <2>2 DEF Shape
<1>15. conn_status[p] \notin {"IDLE", "OPEN", "CLOSED"} /\ "CONNECT" \in events[p]
  BY <1>2, <1>12 DEF Life, k
<1>16. Life'
  <2>1. \A s \in Side : s = p \/ s = o
    BY <1>2, Sides DEF o
  <2>2. QED
    BY <1>1, <1>2, <1>12, <1>13, <1>15, <2>1 DEF Life
<1>17. ASSUME resets' = 0 PROVE Window(p)' /\ Sent(p)' /\ Agreed(p)' /\ Window(o)' /\ Sent(o)' /\ Agreed(o)'
  <2>1. /\ Window(p) /\ Sent(p) /\ Agreed(p) /\ Window(o) /\ Sent(o) /\ Agreed(o)
    BY <1>1, <1>2, <1>17 DEF KcpInv, Streams
  <2>2. Fits(o, m)
    BY <1>2, <2>1 DEF Sent
  <2>3. /\ k.rcv_nxt = Len(d0) + Len(k.rcv_queue) /\ k.una + Len(k.queue) = Len(accepted[p])
        /\ \A i \in 1..Len(k.rcv_queue) : k.rcv_queue[i] = Len(d0) + i
        /\ \A i \in 1..Len(k.queue) : k.queue[i] = k.una + i
        /\ \A i \in 1..Len(d0) : d0[i] = i
        /\ \A i \in 1..Len(accepted[p]) : accepted[p][i] = i
    BY <1>12, <2>1 DEF Window, k, d0
  <2>4. /\ k.rcv_nxt <= Len(accepted[o]) /\ Below(o, k.una)
        /\ \A x \in k.rcv_buf : Taken(o, x)
        /\ Len(accepted[o]) \in Nat /\ Len(accepted[p]) \in Nat
    BY <1>2, <1>12, <2>1 DEF Agreed, k, o, Shape
  <2>5. \A x \in k.rcv_buf \cup {m} : x \in k.rcv_buf \/ m.cmd = "PUSH" =>
          x.sn \in Nat /\ x.user = x.sn + 1 /\ x.sn < Len(accepted[o])
    BY <1>2, <1>3, <2>2, <2>4 DEF Fits, Taken, Message
  <2>6. ASSUME NEW i \in 1..Len(new)
        PROVE  new[i] = k.rcv_nxt + i /\ k.rcv_nxt + i <= Len(accepted[o])
    <3>1. PICK x \in k.rcv_buf \cup {m} : /\ x \in k.rcv_buf \/ m.cmd = "PUSH"
                                          /\ x.sn = k.rcv_nxt + i - 1 /\ new[i] = x.user
      BY <1>7
    <3>2. x.sn \in Nat /\ x.user = x.sn + 1 /\ x.sn < Len(accepted[o])
      BY <2>5, <3>1
    <3>3. QED
      BY <1>3, <2>4, <3>1, <3>2
  <2>7. k.rcv_nxt + Len(new) <= Len(accepted[o])
    <3>1. CASE Len(new) = 0
      BY <1>3, <2>4, <3>1
    <3>2. CASE Len(new) # 0
      <4>1. Len(new) \in 1..Len(new)
        BY <1>3, <3>2
      <4>2. QED
        BY <2>6, <4>1
    <3>3. QED
      BY <3>1, <3>2
  <2>8. ASSUME NEW i \in 1..Len(v) PROVE v[i] = Len(d0) + i
    <3>1. CASE i <= Len(k.rcv_queue)
      BY <1>3, <1>5, <2>3, <3>1
    <3>2. CASE ~(i <= Len(k.rcv_queue))
      <4>1. i - Len(k.rcv_queue) \in 1..Len(new)
        BY <1>3, <1>5, <3>2
      <4>2. v[i] = new[i - Len(k.rcv_queue)]
        BY <1>5, <3>2
      <4>3. k.rcv_nxt + (i - Len(k.rcv_queue)) = Len(d0) + i
        <5>1. k.rcv_nxt = Len(d0) + Len(k.rcv_queue)
          BY <2>3
        <5>2. Len(d0) \in Nat /\ Len(k.rcv_queue) \in Nat /\ i \in Nat
          BY <1>len
        <5>3. (Len(d0) + Len(k.rcv_queue)) + (i - Len(k.rcv_queue)) = Len(d0) + i
          BY <5>2, Shift, Zenon
        <5>4. QED
          BY <5>1, <5>3, Zenon
      <4>4. QED
        BY <2>6, <4>1, <4>2, <4>3
    <3>3. QED
      BY <3>1, <3>2
  <2>9. /\ \A i \in 1..Len(d) : d[i] = i
        /\ \A i \in 1..Len(b.rcv_queue) : b.rcv_queue[i] = Len(d) + i
    <3>1. Numbered(d0, 0) /\ Numbered(v, Len(d0))
      BY <1>len, <2>3, <2>8 DEF Numbered
    <3>2. Numbered(d, 0) /\ Numbered(b.rcv_queue, Len(d))
      BY <1>9, <3>1
    <3>3. QED
      BY <3>2 DEF Numbered
  <2>10. b.rcv_nxt = Len(d) + Len(b.rcv_queue) /\ Len(d) <= b.rcv_nxt
    <3>1. /\ k.rcv_nxt = Len(d0) + Len(k.rcv_queue) /\ Len(d) = Len(d0) + t
          /\ Len(b.rcv_queue) = Len(v) - t
      BY <1>9, <2>3
    <3>2. QED
      <4>1. /\ b.rcv_nxt = (Len(d0) + Len(k.rcv_queue)) + Len(new)
            /\ Len(b.rcv_queue) = (Len(k.rcv_queue) + Len(new)) - t
            /\ t \in 0..(Len(k.rcv_queue) + Len(new)) /\ Len(new) \in Nat
        BY <1>nxt, <1>len, <3>1
      <4>2. QED
        <5>1. /\ Len(d0) \in Nat /\ Len(k.rcv_queue) \in Nat /\ Len(new) \in Nat
              /\ t \in 0..(Len(k.rcv_queue) + Len(new)) /\ Len(d) = Len(d0) + t
          BY <1>len, <3>1, <4>1
        <5>2. /\ (Len(d0) + Len(k.rcv_queue)) + Len(new)
                   = (Len(d0) + t) + ((Len(k.rcv_queue) + Len(new)) - t)
              /\ Len(d0) + t <= (Len(d0) + Len(k.rcv_queue)) + Len(new)
          BY <5>1, Rest, Zenon
        <5>3. QED
          BY <4>1, <5>1, <5>2, Zenon
  <2>11. /\ b.una + Len(q) = Len(accepted[p]) /\ \A i \in 1..Len(q) : q[i] = b.una + i
    <3>1. b.una + Len(q) = k.una + Len(k.queue)
      <4>1. Len(q) = Len(k.queue) - n
        BY <1>4
      <4>2. QED
        BY <1>una, <4>1
    <3>2. ASSUME NEW i \in 1..Len(q) PROVE q[i] = b.una + i
      <4>1. i \in 1..(Len(k.queue) - n)
        BY <1>4
      <4>2. n + i \in 1..Len(k.queue)
        BY <1>una, <4>1, Offset
      <4>3. k.una + (n + i) = b.una + i
        BY <1>una, <4>1
      <4>4. QED
        BY <1>4, <2>3, <4>1, <4>2, <4>3
    <3>3. QED
      BY <2>3, <3>1, <3>2
  <2>12. Below(o, b.una)
    <3>1. CASE n = 0
      <4>1. b.una = k.una
        BY <1>1, <1>3, <3>1
      <4>2. QED
        BY <2>4, <4>1
    <3>2. CASE n # 0
      <4>1. Below(o, m.sn) /\ b.una <= m.sn
        BY <1>ack, <2>2, <3>2, Zenon DEF Fits
      <4>2. kcp[o] # NoKcp => kcp[o].rcv_nxt \in Nat
        BY <1>2 DEF Block
      <4>3. QED
        BY <1>nat, <4>1, <4>2 DEF Below
    <3>3. QED
      BY <3>1, <3>2
  <2>13. Window(p)'
    BY <1>1, <1>4, <1>12, <1>13, <2>3, <2>9, <2>10, <2>11 DEF Window
  <2>14. Sent(p)'
    <3>1. \A x \in net'[Other(p)] : x \in Message /\ Fits(p, x)
      BY <1>2, <1>13, <2>1, Sides DEF Sent, Grows, Shape
    <3>2. \A x \in Message : x.sn \in Nat
      BY DEF Message
    <3>3. \A x \in net'[Other(p)] : x.cmd = "ACK" => x.sn <= b.rcv_nxt
      <4>1. \A x \in net'[Other(p)] : x.cmd = "ACK" => x.sn <= k.rcv_nxt /\ x.sn \in Nat
        BY <1>12, <3>1, <3>2 DEF Fits, Below, k
      <4>2. QED
        BY <1>nxt, <4>1
    <3>4. QED
      BY <1>1, <1>12, <1>13, <1>15, <3>1, <3>3 DEF Sent, Fits, Taken, Below
  <2>15. Agreed(p)'
    <3>1. Len(d) <= Len(accepted[o]) /\ b.rcv_nxt <= Len(accepted[o])
      <4>1. b.rcv_nxt <= Len(accepted[o])
        BY <1>nxt, <2>7, Zenon
      <4>2. Len(d) \in Nat /\ b.rcv_nxt \in Nat /\ Len(accepted[o]) \in Nat
        <5>1. Len(d) \in Nat
          OBVIOUS
        <5>2. QED
          BY <1>nat, <2>4, <5>1, Zenon
      <4>3. Len(d) <= b.rcv_nxt
        BY <2>10, Zenon
      <4>4. QED
        BY <4>1, <4>2, <4>3, AtMost, Zenon
    <3>2. \A x \in b.rcv_buf : Taken(o, x)
      BY <1>6, <2>2, <2>4 DEF Fits
    <3>3. QED
      BY <1>1, <1>12, <1>13, <2>12, <3>1, <3>2 DEF Agreed, Taken, Below, o
  <2>16. Window(o)'
    BY <1>12, <1>13, <2>1 DEF Window
  <2>17. Sent(o)'
    <3>1. \A x \in net'[Other(o)] : Fits(o, x)
      BY <1>2, <1>13, <2>1 DEF Sent, Grows
    <3>2. QED
      BY <1>1, <1>12, <1>13, <3>1 DEF Sent, Fits, Taken, Below
  <2>18. Agreed(o)'
    <3>1. kcp[o] # NoKcp => kcp[o].una \in Nat /\ kcp[o].una <= k.rcv_nxt
      BY <1>2, <1>12, <2>1 DEF Agreed, Below, Block, k
    <3>2. kcp[o] # NoKcp => kcp[o].una <= b.rcv_nxt
      BY <1>nxt, <3>1
    <3>3. QED
      BY <1>1, <1>2, <1>12, <1>13, <1>15, <2>1, <3>2 DEF Agreed, Taken, Below
  <2>19. QED
    BY <2>13, <2>14, <2>15, <2>16, <2>17, <2>18
<1>18. Streams'
  BY <1>17, Sides DEF Streams, o
<1>19. QED
  BY <1>14, <1>16, <1>18 DEF KcpInv

LEMMA ReceiveStep ==
    ASSUME KcpInv, NEW p \in Side, NEW m \in net[p], NEW copy \in BOOLEAN, do_receive(p, m, copy)
    PROVE  KcpInv'
<1>1. /\ Shape /\ m \in Message /\ cid[p] \in Nat \ {0}
      /\ m.cmd = "REQUEST" => m.conv \in Nat \ {0}
  BY DEF KcpInv, Shape, Message, Handshake
<1>2. Answered(p, m) /\ Handle(p, m)
  BY <1>1, ReceiveAnswers DEF do_receive
<1>3. CASE conn_status[p] = "OPEN" /\ m.cmd = "REQUEST" /\ OpenRequest(p, m)
  BY <1>1, <1>2, <1>3, FreshStep DEF OpenRequest, Raise
<1>4. CASE conn_status[p] = "OPEN" /\ OpenResponse(p)
  BY <1>1, <1>2, <1>4, FreshStep DEF OpenResponse, Raise
<1>5. CASE conn_status[p] = "READY" /\ ReadyHandshake(p)
  BY <1>1, <1>2, <1>5, FreshStep DEF ReadyHandshake
<1>6. CASE Ignore
  BY <1>2, <1>6, IgnoreStep
<1>7. CASE conn_status[p] # "OPEN" /\ m.cmd \notin Control /\ handle_receive(p, m)
  <2>1. Reply(p, m) = {}
    BY <1>7 DEF Reply, Control
  <2>2. QED
    BY <1>1, <1>2, <1>7, <2>1, IgnoreStep, InputCases, AcceptsStep
<1>8. QED
  BY <1>2, <1>3, <1>4, <1>5, <1>6, <1>7 DEF Handle

LEMMA KcpStep ==
    ASSUME KcpInv, Next \/ UNCHANGED vars
    PROVE  KcpInv'
<1>1. CASE UNCHANGED vars
  <2>1. UNCHANGED <<conn_status, cid, kcp, silence, net, events, accepted, delivered, resets>>
    BY <1>1 DEF vars
  <2>2. Shape' /\ Life'
    BY <2>1 DEF KcpInv, Shape, Life
  <2>3. C \in Side /\ Grows(C, {})
    BY <2>1, Sides, SameGrows DEF KcpInv
  <2>4. Streams'
    BY <2>1, <2>2, <2>3, StreamsKeep DEF BlockStep
  <2>5. QED
    BY <2>2, <2>4 DEF KcpInv
<1>2. CASE Next
  BY <1>2, ConnectStep, SendStep, TimerStep, HeartbeatStep, DisconnectStep, GoodbyeStep,
     ReceiveStep, LoseStep, ReceiveErrorStep DEF Next
<1>3. QED
  BY <1>1, <1>2

----------------------------------------------------------------------------
(* KCP: the two sides keep to one conversation.                            *)

LEMMA ConversationInit ==
    ASSUME Init PROVE Conversation
<1>1. C \in Side /\ S \in Side /\ C # S
  BY Sides
<1>2. /\ cid = Cid /\ conn_status = [p \in Side |-> IF p = C THEN "IDLE" ELSE "OPEN"]
      /\ kcp = [p \in Side |-> NoKcp] /\ events = [p \in Side |-> {}] /\ net = [p \in Side |-> {}]
  BY DEF Init
<1>3. Joined
  BY <1>1, <1>2 DEF Joined
<1>4. QED
  BY <1>2, <1>3 DEF Conversation

(* What is proper stays so, since no side goes back to an earlier phase.   *)
Forward == (Begun => Begun') /\ (Leaving => Leaving')

LEMMA ProperNet ==
    ASSUME Conversation, NEW p \in Side, NEW ms, Grows(p, ms), Forward, Joined',
           \A m \in ms : Proper(Other(p), m)'
    PROVE  Conversation'
<1>1. ASSUME NEW q \in Side, NEW m \in net'[q] PROVE Proper(q, m)'
  <2>1. m \in net[q] \/ (q = Other(p) /\ m \in ms)
    BY <1>1, Sides DEF Grows
  <2>2. CASE m \in net[q]
    BY <2>2 DEF Conversation, Proper, Forward
  <2>3. QED
    BY <2>1, <2>2
<1>2. QED
  BY <1>1 DEF Conversation

LEMMA ProperMsg ==
    ASSUME Shape, NEW p \in Side, NEW cmd \in Command \ {"PUSH", "ACK"}, NEW conv \in Nat \ {0},
           net' = [net EXCEPT ![Other(p)] = Towards(Other(p), {Msg(cmd, conv)})],
           \A m \in Message : m.cmd = cmd /\ m.conv = conv => Proper(Other(p), m)'
    PROVE  \E ms : Grows(p, ms) /\ \A m \in ms : Proper(Other(p), m)'
<1> DEFINE ms == {Msg(cmd, conv)}
<1>1. Grows(p, ms)
  BY OneMessage
<1>2. Msg(cmd, conv) \in Message /\ Msg(cmd, conv).cmd = cmd /\ Msg(cmd, conv).conv = conv
  BY MsgType
<1>3. \A m \in ms : Proper(Other(p), m)'
  BY <1>2
<1> HIDE DEF ms
<1>4. QED
  BY <1>1, <1>3

LEMMA ConnectJoins ==
    ASSUME KcpInv, Conversation, connect PROVE Conversation'
<1>1. /\ C \in Side /\ S \in Side /\ C # S /\ Other(C) = S /\ Shape /\ cid[C] \in Nat \ {0}
      /\ "REQUEST" \in Command \ {"PUSH", "ACK"}
  BY Sides DEF KcpInv, Shape, Command, Control
<1>2. net' = [net EXCEPT ![Other(C)] = Towards(Other(C), {Msg("REQUEST", cid[C])})]
  BY DEF connect, Sending
<1>3. /\ conn_status[C] = "IDLE" /\ conn_status' = [conn_status EXCEPT ![C] = "OPEN"]
      /\ UNCHANGED <<cid, kcp, events>>
  BY DEF connect, data
<1>4. Forward /\ Joined'
  BY <1>1, <1>3 DEF Forward, Begun, Leaving, Joined, Conversation, Shape
<1>5. \A m \in Message : m.cmd = "REQUEST" /\ m.conv = cid[C] => Proper(Other(C), m)'
  BY <1>1 DEF Proper, Conversation, Joined, Control
<1>6. PICK ms : Grows(C, ms) /\ \A m \in ms : Proper(Other(C), m)'
  BY <1>1, <1>2, <1>5, ProperMsg
<1>7. QED
  BY <1>1, <1>4, <1>6, ProperNet

LEMMA SendJoins ==
    ASSUME KcpInv, Conversation, NEW p \in Side, send(p), ~asked' PROVE Conversation'
<1>1. /\ C \in Side /\ S \in Side /\ C # S /\ Other(C) = S /\ Other(S) = C /\ Shape /\ Life
      /\ cid[p] \in Nat \ {0} /\ (p = C \/ p = S) /\ "REQUEST" \in Command \ {"PUSH", "ACK"}
  BY Sides DEF KcpInv, Shape, Command, Control
<1>2. CASE SendData(p)
  <2>1. /\ conn_status[p] = "READY" /\ UNCHANGED <<conn_status, cid, events, net>>
        /\ kcp' = [kcp EXCEPT ![p].queue = Append(@, Len(accepted[p]) + 1)]
    BY <1>2 DEF SendData
  <2>2. kcp[p] \in Block /\ kcp[p] # NoKcp
    BY <1>1, <2>1 DEF Shape, Life
  <2>3. kcp'[p].conv = kcp[p].conv /\ \A q \in Side : q # p => kcp'[q] = kcp[q]
    BY <1>1, <2>1, <2>2 DEF Shape, Block
  <2>4. Forward /\ Joined'
    BY <2>1, <2>2, <2>3 DEF Forward, Begun, Leaving, Joined, Conversation
  <2>5. Grows(p, {})
    BY <1>1, <2>1, SameGrows
  <2>6. QED
    BY <2>4, <2>5, ProperNet
<1>3. CASE SendRequest(p)
  <2>1. /\ net' = [net EXCEPT ![Other(p)] = Towards(Other(p), {Msg("REQUEST", cid[p])})]
        /\ UNCHANGED <<conn_status, cid, kcp, events>>
        /\ p = C \/ "CONNECT" \in events[p]
    <3>1. ~(p = S /\ "CONNECT" \notin events[S])
      BY <1>3, Zenon DEF SendRequest
    <3>2. /\ net' = [net EXCEPT ![Other(p)] = Towards(Other(p), {Msg("REQUEST", cid[p])})]
          /\ UNCHANGED <<conn_status, cid, kcp, events>>
      BY <1>3 DEF SendRequest, Sending
    <3>3. QED
      BY <1>1, <3>1, <3>2
  <2>2. Forward /\ Joined'
    BY <2>1 DEF Forward, Begun, Leaving, Joined, Conversation
  <2>3. cid[p] = Cid[C] /\ (p = S => Begun')
    BY <1>1, <2>1 DEF Conversation, Joined, Begun
  <2>4. \A m \in Message : m.cmd = "REQUEST" /\ m.conv = cid[p] => Proper(Other(p), m)'
    BY <1>1, <2>3 DEF Proper, Control
  <2>5. PICK ms : Grows(p, ms) /\ \A m \in ms : Proper(Other(p), m)'
    BY <1>1, <2>1, <2>4, ProperMsg
  <2>6. QED
    BY <2>2, <2>5, ProperNet
<1>4. QED
  BY <1>2, <1>3, SendHalves

LEMMA TimerJoins ==
    ASSUME KcpInv, Conversation, NEW p \in Side, kcp_timer(p) PROVE Conversation'
<1> DEFINE k == kcp[p]
           push(i) == [cmd |-> "PUSH", conv |-> k.conv, sn |-> k.una + i - 1, user |-> k.queue[i]]
           ack == [cmd |-> "ACK", conv |-> k.conv, sn |-> k.rcv_nxt, user |-> 0]
           ms == {push(i) : i \in 1..Len(k.queue)} \cup {ack : a \in {TRUE} \cap {k.ack}}
<1>1. /\ conn_status[p] = "READY" /\ UNCHANGED <<conn_status, cid, events>>
      /\ net' = [net EXCEPT ![Other(p)] = Towards(Other(p), ms)]
      /\ kcp' = [kcp EXCEPT ![p].ack = FALSE]
  BY DEF kcp_timer, Sending, data
<1>2. /\ C \in Side /\ S \in Side /\ C # S /\ Other(C) = S /\ Other(S) = C /\ Shape
      /\ (p = C \/ p = S) /\ k \in Block /\ k # NoKcp
  BY <1>1, Sides DEF KcpInv, Shape, Life
<1>3. kcp'[p].conv = kcp[p].conv /\ \A q \in Side : q # p => kcp'[q] = kcp[q]
  BY <1>1, <1>2 DEF Shape, Block
<1>4. Forward /\ Joined'
  BY <1>1, <1>2, <1>3 DEF Forward, Begun, Leaving, Joined, Conversation
<1>5. \A m \in ms : m.cmd \in {"PUSH", "ACK"}
  OBVIOUS
<1> HIDE DEF ms
<1>6. Towards(Other(p), ms) \subseteq net[Other(p)] \cup ms
  BY DEF Towards
<1>7. /\ net'[p] \subseteq net[p] /\ net'[Other(p)] \subseteq net[Other(p)] \cup ms
  BY <1>1, <1>2, <1>6, Sides DEF Shape
<1>8. net' \in [Side -> SUBSET Message]
  BY TimerStep DEF KcpInv, Shape
<1>9. \A m \in ms : Proper(Other(p), m)'
  <2>1. p = C => Begun'
    BY <1>1, <1>4 DEF Conversation, Joined, Begun
  <2>2. QED
    BY <1>2, <1>5, <2>1 DEF Proper, Handshake
<1>10. QED
  BY <1>4, <1>7, <1>8, <1>9, ProperNet DEF Grows

LEMMA HeartbeatJoins ==
    ASSUME KcpInv, Conversation, NEW p \in Side, heartbeat(p) PROVE Conversation'
<1>1. /\ C \in Side /\ S \in Side /\ C # S /\ Shape /\ cid[p] \in Nat \ {0}
      /\ "HEARTBEAT" \in Command \ {"PUSH", "ACK"}
  BY Sides DEF KcpInv, Shape, Command, Control
<1>2. /\ cid' = cid
      /\ \/ net' = net /\ events' = [events EXCEPT ![p] = @ \cup {"DISCONNECT"}]
            /\ \/ UNCHANGED <<conn_status, kcp>>
               \/ /\ conn_status' = [conn_status EXCEPT ![p] = "CLOSED"]
                  /\ kcp' = [kcp EXCEPT ![p] = NoKcp]
         \/ /\ net' = [net EXCEPT ![Other(p)] = Towards(Other(p), {Msg("HEARTBEAT", cid[p])})]
            /\ UNCHANGED <<conn_status, kcp, events>>
  BY DEF heartbeat, data, release, Raise
<1>3. /\ "CONNECT" \in events'[S] => "CONNECT" \in events[S]
      /\ \A q \in Side : \/ kcp'[q] = kcp[q] /\ conn_status'[q] = conn_status[q]
                         \/ kcp'[q] = NoKcp /\ conn_status'[q] = "CLOSED"
  <2>1. "CONNECT" \in events'[S] => "CONNECT" \in events[S]
    <3>1. events' = events \/ events' = [events EXCEPT ![p] = @ \cup {"DISCONNECT"}]
      BY <1>2
    <3>2. events'[S] = events[S] \/ events'[S] = events[S] \cup {"DISCONNECT"}
      BY <1>1, <3>1 DEF Shape
    <3>3. QED
      BY <3>2
  <2>2. CASE UNCHANGED <<conn_status, kcp>>
    BY <2>1, <2>2
  <2>3. CASE /\ conn_status' = [conn_status EXCEPT ![p] = "CLOSED"]
             /\ kcp' = [kcp EXCEPT ![p] = NoKcp]
    BY <1>1, <2>1, <2>3 DEF Shape
  <2>4. QED
    BY <1>2, <2>2, <2>3
<1>4. Forward /\ Joined'
  BY <1>1, <1>2, <1>3 DEF Forward, Begun, Leaving, Joined, Conversation
<1>5. \A m \in Message : m.cmd = "HEARTBEAT" /\ m.conv = cid[p] => Proper(Other(p), m)'
  BY DEF Proper, Control, Handshake
<1>6. CASE net' = net
  BY <1>1, <1>4, <1>6, SameGrows, ProperNet
<1>7. CASE net' = [net EXCEPT ![Other(p)] = Towards(Other(p), {Msg("HEARTBEAT", cid[p])})]
  BY <1>1, <1>4, <1>5, <1>7, ProperMsg, ProperNet
<1>8. QED
  BY <1>2, <1>6, <1>7

LEMMA DisconnectJoins ==
    ASSUME KcpInv, Conversation, NEW p \in Side, disconnect(p) PROVE Conversation'
<1>1. /\ C \in Side /\ S \in Side /\ C # S /\ Other(C) = S /\ Other(S) = C /\ Shape
      /\ cid[p] \in Nat \ {0} /\ (p = C \/ p = S) /\ "GOODBYE" \in Command \ {"PUSH", "ACK"}
  BY Sides DEF KcpInv, Shape, Command, Control
<1>2. net' = [net EXCEPT ![Other(p)] = Towards(Other(p), {Msg("GOODBYE", cid[p])})]
  BY DEF disconnect, Sending
<1>3. /\ conn_status' = [conn_status EXCEPT ![p] = "CLOSING"]
      /\ UNCHANGED <<cid, kcp, events>>
  BY DEF disconnect, data
<1>4. Forward /\ Joined' /\ (p = C => Leaving')
  BY <1>1, <1>3 DEF Forward, Begun, Leaving, Joined, Conversation, Shape
<1>5. \A m \in Message : m.cmd = "GOODBYE" /\ m.conv = cid[p] => Proper(Other(p), m)'
  BY <1>1, <1>4 DEF Proper, Control, Handshake
<1>6. PICK ms : Grows(p, ms) /\ \A m \in ms : Proper(Other(p), m)'
  BY <1>1, <1>2, <1>5, ProperMsg
<1>7. QED
  BY <1>4, <1>6, ProperNet

LEMMA GoodbyeJoins ==
    ASSUME KcpInv, Conversation, NEW p \in Side, OnGoodbyeSent(p) PROVE Conversation'
<1>1. /\ C \in Side /\ S \in Side /\ C # S /\ Shape
  BY Sides DEF KcpInv
<1>2. /\ events' = [events EXCEPT ![p] = @ \cup {"DISCONNECT"}]
      /\ conn_status' = [conn_status EXCEPT ![p] = "CLOSED"]
      /\ kcp' = [kcp EXCEPT ![p] = NoKcp] /\ UNCHANGED <<cid, net>>
  BY DEF OnGoodbyeSent, release, Raise
<1>3. "CONNECT" \in events'[S] => "CONNECT" \in events[S]
  BY <1>1, <1>2 DEF Shape
<1>4. Forward /\ Joined'
  BY <1>1, <1>2, <1>3 DEF Forward, Begun, Leaving, Joined, Conversation, Shape
<1>5. QED
  BY <1>1, <1>2, <1>4, SameGrows, ProperNet

LEMMA LoseJoins ==
    ASSUME KcpInv, Conversation, NEW p \in Side, NEW m \in net[p], Lose(p, m) PROVE Conversation'
<1>1. Shape /\ net' = [net EXCEPT ![p] = @ \ {m}] /\ UNCHANGED <<conn_status, cid, kcp, events>>
  BY DEF KcpInv, Lose
<1>2. Grows(p, {})
  BY <1>1, Sides DEF Grows, Shape
<1>3. Forward /\ Joined'
  BY <1>1 DEF Forward, Begun, Leaving, Joined, Conversation
<1>4. QED
  BY <1>2, <1>3, ProperNet

LEMMA ReceiveErrorJoins ==
    ASSUME KcpInv, Conversation, NEW p \in Side, OnReceiveError(p) PROVE Conversation'
<1>1. Shape /\ net' = net /\ UNCHANGED <<conn_status, cid, kcp, events>>
  BY DEF KcpInv, OnReceiveError
<1>2. Forward /\ Joined'
  BY <1>1 DEF Forward, Begun, Leaving, Joined, Conversation
<1>3. QED
  BY <1>1, <1>2, SameGrows, ProperNet

(* A reply is proper: a handshake on the listener's side only follows one  *)
(* of the connector's.                                                     *)
LEMMA ReceiveJoins ==
    ASSUME KcpInv, Conversation, NEW p \in Side, NEW m \in net[p], NEW copy \in BOOLEAN,
           do_receive(p, m, copy)
    PROVE  Conversation'
<1>1. /\ C \in Side /\ S \in Side /\ C # S /\ Other(C) = S /\ Other(S) = C /\ Shape /\ Life
      /\ (p = C \/ p = S) /\ m \in Message /\ cid[p] \in Nat \ {0}
      /\ m.cmd = "REQUEST" => m.conv \in Nat \ {0}
      /\ Proper(p, m) /\ Joined /\ Answered(p, m) /\ Handle(p, m) /\ Grows(p, Reply(p, m))
  <2>1. Shape /\ Life /\ Joined /\ Proper(p, m) /\ Handle(p, m)
    BY DEF KcpInv, Conversation, do_receive
  <2>2. Answered(p, m) /\ Grows(p, Reply(p, m))
    BY <2>1, ReceiveAnswers DEF Answered
  <2>3. /\ m \in Message /\ cid[p] \in Nat \ {0}
        /\ m.cmd = "REQUEST" => m.conv \in Nat \ {0}
    BY <2>1 DEF Shape, Message, Handshake
  <2>4. QED
    BY <2>1, <2>2, <2>3, Sides
<1>2. conn_status[p] = "READY" => cid[p] = Cid[C] /\ Begun
  BY <1>1 DEF Life, Joined, Begun
<1>3. \A cmd \in Handshake, conv \in Nat \ {0} :
        Msg(cmd, conv).conv = conv /\ Msg(cmd, conv).cmd = cmd
  BY MsgType DEF Handshake, Command, Control
<1>4. ASSUME NEW c \in Nat \ {0}, c = Cid[C], init_kcp(p, c), p = C => Begun,
             events' = [events EXCEPT ![p] = @ \cup {"CONNECT"}] \/ events' = events,
             cid' = [cid EXCEPT ![p] = c] \/ (cid' = cid /\ cid[p] = c),
             conn_status[p] \in {"OPEN", "READY"}
      PROVE  Forward /\ Joined' /\ Begun'
  <2>1. /\ kcp' = [kcp EXCEPT ![p] = NewKcp(c)]
        /\ conn_status' = [conn_status EXCEPT ![p] = "READY"] /\ NewKcp(c).conv = c
    BY <1>4 DEF init_kcp, NewKcp
  <2>2. /\ conn_status'[p] = "READY" /\ kcp'[p].conv = Cid[C]
        /\ \A q \in Side : q # p => kcp'[q] = kcp[q] /\ conn_status'[q] = conn_status[q]
    BY <1>1, <1>4, <2>1 DEF Shape
  <2>3. cid'[p] = Cid[C] /\ \A q \in Side : q # p => cid'[q] = cid[q] /\ events'[q] = events[q]
    BY <1>1, <1>4 DEF Shape
  <2>4. Begun' /\ Forward
    BY <1>1, <1>4, <2>2 DEF Begun, Forward, Leaving
  <2>5. Joined'
    BY <1>1, <2>2, <2>3, <2>4 DEF Joined
  <2>6. QED
    BY <2>4, <2>5
<1>5. CASE conn_status[p] = "OPEN" /\ m.cmd = "REQUEST" /\ OpenRequest(p, m)
  <2>1. m.conv = Cid[C] /\ (p = C => Begun)
    BY <1>1, <1>5 DEF Proper, Leaving, Handshake
  <2>2. Forward /\ Joined' /\ Begun'
    BY <1>1, <1>4, <1>5, <2>1 DEF OpenRequest, Raise
  <2>3. \A r \in Reply(p, m) : r.cmd = "RESPONSE" /\ r.conv = Cid[C]
    BY <1>1, <1>3, <1>5, <2>1 DEF Reply, Handshake
  <2>4. \A r \in Reply(p, m) : Proper(Other(p), r)'
    BY <1>1, <2>2, <2>3 DEF Proper, Control
  <2>5. QED
    BY <1>1, <2>2, <2>4, ProperNet
<1>6. CASE conn_status[p] = "OPEN" /\ m.cmd = "RESPONSE" /\ OpenResponse(p)
  <2>1. p = C /\ Begun /\ cid[p] = Cid[C]
    BY <1>1, <1>6 DEF Proper, Begun, Joined
  <2>2. Forward /\ Joined' /\ Begun'
    BY <1>1, <1>4, <1>6, <2>1 DEF OpenResponse, Raise
  <2>3. Reply(p, m) = {}
    BY <1>6 DEF Reply, Control
  <2>4. QED
    BY <1>1, <2>2, <2>3, ProperNet
<1>7. CASE conn_status[p] = "READY" /\ m.cmd \in {"REQUEST", "RESPONSE"} /\ ReadyHandshake(p)
  <2>1. Forward /\ Joined' /\ Begun'
    BY <1>1, <1>2, <1>4, <1>7 DEF ReadyHandshake
  <2>2. \A r \in Reply(p, m) : r.cmd = "RESPONSE" /\ r.conv = Cid[C]
    BY <1>1, <1>2, <1>3, <1>7 DEF Reply, Handshake, Control
  <2>3. \A r \in Reply(p, m) : Proper(Other(p), r)'
    BY <1>1, <2>1, <2>2 DEF Proper, Control
  <2>4. QED
    BY <1>1, <2>1, <2>3, ProperNet
<1>8. ASSUME Ignore, m.cmd = "REQUEST" => conn_status[p] \notin {"OPEN", "READY"} PROVE Conversation'
  <2>1. Forward /\ Joined'
    BY <1>1, <1>8 DEF Ignore, Forward, Begun, Leaving, Joined
  <2>2. \A r \in Reply(p, m) : /\ r.cmd = "REQUEST" /\ r.conv = cid[p] /\ conn_status[p] = "OPEN"
                                /\ m.cmd \notin Control
    BY <1>1, <1>3, <1>8 DEF Reply, Handshake
  <2>3. ASSUME NEW r \in Reply(p, m) PROVE Proper(Other(p), r)'
    <3>1. p = S => Leaving
      BY <1>1, <2>2, <2>3 DEF Proper, Begun
    <3>2. p = C => cid[p] = Cid[C]
      BY <1>1 DEF Joined
    <3>3. QED
      BY <1>1, <2>1, <2>2, <3>1, <3>2 DEF Proper, Forward, Control
  <2>4. QED
    BY <1>1, <2>1, <2>3, ProperNet
<1>9. CASE conn_status[p] # "OPEN" /\ m.cmd \notin Control /\ handle_receive(p, m)
  <2>1. Reply(p, m) = {}
    BY <1>9 DEF Reply, Control
  <2>2. ASSUME kcp[p] \in Block, NEW n, NEW new, NEW t, NEW b, Accepts(p, m, n, new, t, b)
        PROVE  Conversation'
    <3>1. /\ UNCHANGED <<conn_status, cid, events>> /\ kcp[p] # NoKcp
          /\ kcp'[p].conv = kcp[p].conv /\ \A q \in Side : q # p => kcp'[q] = kcp[q]
      BY <1>1, <2>2, Blocks DEF Accepts, Shape
    <3>2. Forward /\ Joined'
      BY <1>1, <3>1 DEF Forward, Begun, Leaving, Joined
    <3>3. QED
      BY <1>1, <2>1, <3>2, ProperNet
  <2>3. m.cmd # "REQUEST"
    BY <1>9 DEF Control
  <2>4. QED
    BY <1>1, <1>8, <1>9, <2>2, <2>3, InputCases
<1>10. QED
  BY <1>1, <1>5, <1>6, <1>7, <1>8, <1>9 DEF Handle, Control

LEMMA AskedStays ==
    ASSUME Next \/ UNCHANGED vars, ~asked' PROVE ~asked
<1>1. CASE UNCHANGED vars
  BY <1>1, Zenon DEF vars
<1>2. CASE Next
  <2>1. ASSUME NEW p \in Side, send(p) PROVE ~asked
    BY <2>1, Zenon DEF send
  <2>2. ASSUME NEW p \in Side,
               \/ connect \/ kcp_timer(p) \/ heartbeat(p) \/ disconnect(p) \/ OnGoodbyeSent(p)
               \/ OnReceiveError(p)
               \/ \E m \in net[p] : (\E copy \in BOOLEAN : do_receive(p, m, copy)) \/ Lose(p, m)
        PROVE  asked' = asked
    BY <2>2 DEF connect, kcp_timer, heartbeat, disconnect, OnGoodbyeSent, OnReceiveError,
                do_receive, Lose, data
  <2>3. C \in Side
    BY Sides
  <2>4. QED
    BY <1>2, <2>1, <2>2, <2>3, Zenon DEF Next
<1>3. QED
  BY <1>1, <1>2

LEMMA ConversationStep ==
    ASSUME KcpInv, ~asked => Conversation, Next \/ UNCHANGED vars, ~asked'
    PROVE  Conversation'
<1>0. Conversation
  BY AskedStays
<1>1. CASE UNCHANGED vars
  BY <1>0, <1>1 DEF Conversation, Joined, Proper, Begun, Leaving, vars
<1>2. CASE Next
  BY <1>0, <1>2, ConnectJoins, SendJoins, TimerJoins, HeartbeatJoins, DisconnectJoins,
     GoodbyeJoins, ReceiveErrorJoins, ReceiveJoins, LoseJoins DEF Next
<1>3. QED
  BY <1>1, <1>2

----------------------------------------------------------------------------
(* What the invariants give.                                               *)

LEMMA KcpGives ==
    ASSUME KcpInv PROVE TypeOK /\ InOrderUntilReset
<1>1. TypeOK
  BY DEF KcpInv, Shape, Life, TypeOK
<1>2. ASSUME resets = 0, NEW p \in Side
      PROVE  /\ Len(delivered[p]) <= Len(accepted[Other(p)])
             /\ delivered[p] = SubSeq(accepted[Other(p)], 1, Len(delivered[p]))
             /\ kcp[p] # NoKcp /\ kcp[Other(p)] # NoKcp =>
                  kcp[Other(p)].una <= Len(delivered[p]) + Len(kcp[p].rcv_queue)
  <2> DEFINE a == accepted[Other(p)]
             d == delivered[p]
  <2>1. /\ Other(p) \in Side /\ Other(Other(p)) = p /\ a \in Seq(Nat) /\ d \in Seq(Nat)
        /\ Len(a) \in Nat /\ Len(d) \in Nat
    BY Sides DEF KcpInv, Shape
  <2>2. /\ Window(p) /\ Window(Other(p)) /\ Agreed(p) /\ Agreed(Other(p))
    BY <1>2, <2>1 DEF KcpInv, Streams
  <2>3. /\ \A i \in 1..Len(a) : a[i] = i
        /\ \A i \in 1..Len(d) : d[i] = i
        /\ Len(d) <= Len(a)
        /\ kcp[p] # NoKcp /\ kcp[Other(p)] # NoKcp =>
             kcp[Other(p)].una <= Len(d) + Len(kcp[p].rcv_queue)
    BY <2>1, <2>2 DEF Window, Agreed, Below
  <2> HIDE DEF a, d
  <2>4. \A i \in 1..Len(d) : a[i] \in Nat
    BY <2>1, <2>3
  <2>5. PICK t \in Seq(Nat) : /\ t = SubSeq(a, 1, Len(d))
                              /\ Len(t) = IF 1 <= Len(d) THEN Len(d) - 1 + 1 ELSE 0
                              /\ \A i \in 1..(Len(d) - 1 + 1) : t[i] = a[1 + i - 1]
    <3>1. 1 \in Int /\ Len(d) \in Int
      BY <2>1
    <3>2. /\ SubSeq(a, 1, Len(d)) \in Seq(Nat)
          /\ Len(SubSeq(a, 1, Len(d))) = IF 1 <= Len(d) THEN Len(d) - 1 + 1 ELSE 0
          /\ \A i \in 1..(Len(d) - 1 + 1) : SubSeq(a, 1, Len(d))[i] = a[1 + i - 1]
      BY <2>4, <3>1, SubSeqProperties
    <3>3. QED
      BY <3>2
  <2>6. Len(d) = Len(t)
    BY <2>1, <2>5
  <2>7. ASSUME NEW i \in 1..Len(d) PROVE d[i] = t[i]
    <3>1. i \in 1..(Len(d) - 1 + 1) /\ i \in 1..Len(a) /\ 1 + i - 1 = i
      BY <2>1, <2>3
    <3>2. QED
      BY <2>3, <2>5, <3>1
  <2>8. d = t
    BY <2>1, <2>5, <2>6, <2>7, SeqEqual
  <2>9. QED
    BY <2>3, <2>5, <2>8 DEF a, d
<1>3. QED
  BY <1>1, <1>2 DEF InOrderUntilReset

(* A step hands the user data only through a control block, and nothing    *)
(* brings a closed connection back.                                        *)
SilentStep ==
  \A p \in Side :
    /\ delivered'[p] # delivered[p] => "CONNECT" \in events[p] /\ conn_status[p] # "CLOSED"
    /\ conn_status[p] = "CLOSED" /\ known' = known => conn_status'[p] = "CLOSED"

LEMMA TimersSilent ==
    ASSUME KcpInv, NEW p \in Side,
           \/ connect \/ send(p) \/ kcp_timer(p) \/ heartbeat(p) \/ disconnect(p) \/ OnGoodbyeSent(p)
           \/ OnReceiveError(p)
           \/ \E m \in net[p] : Lose(p, m)
    PROVE  SilentStep
<1>1. delivered' = delivered
  BY DEF connect, send, kcp_timer, heartbeat, disconnect, OnGoodbyeSent, OnReceiveError, Lose, data
<1>2. conn_status \in [Side -> {"IDLE", "OPEN", "READY", "CLOSING", "CLOSED"}] /\ C \in Side
  BY Sides DEF KcpInv, Shape
<1>3. \/ conn_status' = conn_status
      \/ conn_status[C] = "IDLE" /\ conn_status' = [conn_status EXCEPT ![C] = "OPEN"]
      \/ conn_status' = [conn_status EXCEPT ![p] = "CLOSED"]
      \/ conn_status[p] # "CLOSED" /\ conn_status' = [conn_status EXCEPT ![p] = "CLOSING"]
  BY DEF connect, send, kcp_timer, heartbeat, disconnect, OnGoodbyeSent, OnReceiveError, Lose, release
<1>4. \A q \in Side : conn_status[q] = "CLOSED" => conn_status'[q] = "CLOSED"
  BY <1>2, <1>3
<1>5. QED
  BY <1>1, <1>4 DEF SilentStep

LEMMA ReceiveSilent ==
    ASSUME KcpInv, NEW p \in Side, NEW m \in net[p], NEW copy \in BOOLEAN, do_receive(p, m, copy)
    PROVE  SilentStep
<1>1. Handle(p, m) /\ m \in Message /\ Shape /\ Life
  BY DEF do_receive, KcpInv, Shape
<1>2. CASE conn_status[p] \in {"OPEN", "READY"} /\ delivered' = delivered
           /\ conn_status' = [conn_status EXCEPT ![p] = "READY"]
  BY <1>1, <1>2 DEF SilentStep, Shape
<1>3. CASE Ignore
  BY <1>1, <1>3 DEF SilentStep, Ignore
<1>4. CASE handle_receive(p, m)
  <2>1. ASSUME kcp[p] \in Block, NEW n, NEW new, NEW t, NEW b, Accepts(p, m, n, new, t, b)
        PROVE  SilentStep
    <3>1. /\ conn_status' = conn_status /\ \A q \in Side : q # p => delivered'[q] = delivered[q]
      BY <1>1, <2>1 DEF Accepts, Shape
    <3>2. "CONNECT" \in events[p] /\ conn_status[p] # "CLOSED"
      BY <1>1, <2>1, Blocks DEF Life
    <3>3. QED
      BY <3>1, <3>2 DEF SilentStep
  <2>2. QED
    BY <1>1, <1>3, <1>4, <2>1, InputCases
<1>5. QED
  BY <1>1, <1>2, <1>3, <1>4 DEF Handle, OpenRequest, OpenResponse, ReadyHandshake, init_kcp

LEMMA KcpSilent ==
    ASSUME KcpInv, Next PROVE SilentStep
  BY Sides, TimersSilent, ReceiveSilent DEF Next

----------------------------------------------------------------------------
(* The theorems.                                                           *)

(* Two ends of KcpConnection that are ready speak of the same conversation,*)
(* whatever the network loses, repeats or reorders, until broadcast() makes*)
(* the listener's side ask for a handshake before it had one.              *)
THEOREM OneConversation == Spec => []SameConversation
<1>1. Init => KcpInv /\ (~asked => Conversation)
  BY KcpInitInv, ConversationInit
<1>2. KcpInv /\ (~asked => Conversation) /\ [Next]_vars => KcpInv' /\ (~asked => Conversation)'
  BY KcpStep, ConversationStep
<1>3. KcpInv /\ (~asked => Conversation) => SameConversation
  <2>1. C \in Side /\ S \in Side
    BY Sides
  <2>2. QED
    BY <2>1 DEF KcpInv, Life, Conversation, Joined, SameConversation
<1>4. QED
  BY <1>1, <1>2, <1>3, PTL DEF Spec

LEMMA MCInvariant == MCSpec => [](KcpInv /\ UdpInv)
<1>1. MCInit => KcpInv /\ UdpInv
  BY KcpInitInv, UdpInitInv DEF MCInit
<1>2. KcpInv /\ UdpInv /\ [MCNext]_<<vars, udp, transport>> => KcpInv' /\ UdpInv'
  BY KcpStep, UdpStep DEF MCNext
<1>3. QED
  BY <1>1, <1>2, PTL DEF MCSpec

(* The user of KCP gets what his peer sent, in order and without gaps, and *)
(* what his peer takes for acknowledged was handed to him or waits in      *)
(* rcv_queue, until a handshake replaces a control block.                  *)
THEOREM DeliveredFaithfully == MCSpec => []Delivered
<1>1. KcpInv /\ UdpInv => Delivered
  BY KcpGives DEF Delivered
<1>2. QED
  BY <1>1, MCInvariant, PTL

(* A KcpConnection that was released hands over nothing and stays closed;  *)
(* the receive loop of a UdpListener that met an error does nothing more,  *)
(* also when stop() follows, and at most one connection is told of it.     *)
THEOREM EndStaysFinal == MCSpec => EndIsFinal
<1>1. KcpInv /\ UdpInv /\ [MCNext]_<<vars, udp, transport>> => [SilentStep]_vars
  BY KcpSilent DEF MCNext
<1>2. KcpInv /\ UdpInv /\ [MCNext]_<<vars, udp, transport>>
        => [loop = "ended" => /\ UNCHANGED <<loop, told, heard>>
                              /\ connections' \subseteq connections]_(U!vars)
  BY UdpEnded DEF MCNext, udp, U!vars
<1>3. KcpInv /\ UdpInv => U!OneFarewell
  BY DEF UdpInv
<1>4. QED
  BY <1>1, <1>2, <1>3, MCInvariant, PTL
     DEF MCSpec, EndIsFinal, ReleasedIsSilent, SilentStep, U!EndedForGood

=============================================================================
