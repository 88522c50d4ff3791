-------------------------------- MODULE Udp --------------------------------
(***************************************************************************)
(* UdpListener, UdpConnector and UdpConnection: connections made of        *)
(* datagrams.  The listener keeps one connection per remote address, all   *)
(* on its own socket; a connector's connection has a socket and a timer of *)
(* its own.  A completion handler is one step of the worker.               *)
(***************************************************************************)
EXTENDS Naturals, FiniteSets

CONSTANTS
  Client,      \* the connections of the connectors, by their address
  Datagram,    \* what each end may send once, in either direction
  Nobody       \* no remote_point yet

VARIABLES
  open,          \* server_socket is open
  loop,          \* the listener's receive loop: "armed" or "ended"
  remote_point,  \* address of the last datagram received
  connections,   \* addresses in the listener's map
  told,          \* [Client -> events the listener's connection was given]
  heard,         \* [Client -> datagrams the listener's connection was given]
  sock,          \* [Client -> "none", "open", "deaf" (the loop ended) or "closed"]
  silent,        \* [Client -> BOOLEAN], more than 3 s since last_msg_time
  released,      \* [Client -> BOOLEAN], EVT_RELEASE was raised
  read,          \* [Client -> datagrams handle_data was given]
  up, down       \* [Client -> datagrams under way to the listener, to it]

listener == <<open, loop, remote_point, connections, told, heard>>
client == <<sock, silent, released, read>>
vars == <<listener, client, up, down>>

Init == /\ open = TRUE /\ loop = "armed" /\ remote_point = Nobody
        /\ connections = {}
        /\ told = [e \in Client |-> {}]
        /\ heard = [e \in Client |-> {}]
        /\ sock = [e \in Client |-> "none"]
        /\ silent = [e \in Client |-> TRUE]
        /\ released = [e \in Client |-> FALSE]
        /\ read = [e \in Client |-> {}]
        /\ up = [e \in Client |-> {}]
        /\ down = [e \in Client |-> {}]

\* The user's handler, the connection and the chain of the owner all agree to
\* an event; the three are one user here.
Tell(e, evts) == told' = [told EXCEPT ![e] = @ \cup evts]

\* UdpConnector::connect and UdpConnection::connect, with the 4 s timer.
connect(e) ==
  /\ sock[e] = "none"
  /\ sock' = [sock EXCEPT ![e] = "open"]
  /\ UNCHANGED <<listener, silent, released, read, up, down>>

\* msend on a connector's connection: -1 without a socket.
send(e, d) ==
  /\ sock[e] \in {"open", "deaf"} /\ d \notin up[e] \cup heard[e]
  /\ up' = [up EXCEPT ![e] = @ \cup {d}]
  /\ UNCHANGED <<listener, client, down>>

\* broadcast(): the listener sends to every connection it has.
broadcast(d) ==
  /\ open /\ connections # {}
  /\ \A e \in connections : d \notin down[e] \cup read[e]
  /\ down' = [e \in Client |-> IF e \in connections THEN down[e] \cup {d} ELSE down[e]]
  /\ UNCHANGED <<listener, client, up>>

\* Mutant: the state of the loop is not looked at.
do_receiveLate(e, d) ==
  /\ d \in up[e]
  /\ heard' = [heard EXCEPT ![e] = @ \cup {d}]
  /\ up' = [up EXCEPT ![e] = @ \ {d}]
  /\ Tell(e, {"RECV"})
  /\ UNCHANGED <<open, loop, remote_point, connections, client, down>>

\* The listener's handler: a new address gets a connection, which is told
\* CREATE and CONNECT before its first datagram; the loop is armed again.
do_receive(e, d) ==
  /\ open /\ loop = "armed" /\ d \in up[e]
  /\ connections' = connections \cup {e}
  /\ Tell(e, IF e \in connections THEN {"RECV"} ELSE {"CREATE", "CONNECT", "RECV"})
  /\ heard' = [heard EXCEPT ![e] = @ \cup {d}]
  /\ remote_point' = e
  /\ up' = [up EXCEPT ![e] = @ \ {d}]
  /\ UNCHANGED <<open, loop, client, down>>

\* The handler with an error, or with an empty datagram of e: only the
\* connection of that address, or of the one heard last, is told, and the loop
\* ends, also when the socket is open.
OnReceiveError(e) ==
  /\ loop = "armed"
  /\ e = remote_point \/ (open /\ e \in Client /\ sock[e] \in {"open", "deaf"})
  /\ loop' = "ended" /\ remote_point' = e
  /\ IF e \in connections THEN Tell(e, {"DISCONNECT"}) ELSE UNCHANGED told
  /\ UNCHANGED <<open, connections, heard, client, up, down>>

\* UdpListener::stop().
stop == /\ open' = FALSE /\ connections' = {}
        /\ UNCHANGED <<loop, remote_point, told, heard, client, up, down>>

\* close() of a listener's connection closes the socket they all share.
ClosePassive(e) == /\ e \in connections /\ open
                   /\ open' = FALSE
                   /\ UNCHANGED <<loop, remote_point, connections, told, heard, client, up, down>>

\* close() of a connector's connection, also from UdpConnector::stop().
close(e) == /\ sock[e] \in {"open", "deaf"}
            /\ sock' = [sock EXCEPT ![e] = "closed"]
            /\ UNCHANGED <<listener, silent, released, read, up, down>>

\* The receive loop of a connector's connection.
OnReceive(e, d) ==
  /\ sock[e] = "open" /\ d \in down[e]
  /\ read' = [read EXCEPT ![e] = @ \cup {d}]
  /\ silent' = [silent EXCEPT ![e] = FALSE]
  /\ down' = [down EXCEPT ![e] = @ \ {d}]
  /\ UNCHANGED <<listener, sock, released, up>>

\* An error or an empty datagram ends that loop without an event.
OnReceiveFails(e) == /\ sock[e] = "open"
                     /\ sock' = [sock EXCEPT ![e] = "deaf"]
                     /\ UNCHANGED <<listener, silent, released, read, up, down>>

\* The 4 s timer raises EVT_RELEASE when nothing came for 3 s, again and again.
net_timer(e) ==
  /\ sock[e] # "none"
  /\ released' = [released EXCEPT ![e] = @ \/ silent[e]]
  /\ silent' = [silent EXCEPT ![e] = TRUE]
  /\ UNCHANGED <<listener, sock, read, up, down>>

Lose(e, d) ==
  /\ d \in up[e] \cup down[e]
  /\ up' = [up EXCEPT ![e] = @ \ {d}] /\ down' = [down EXCEPT ![e] = @ \ {d}]
  /\ UNCHANGED <<listener, client>>

Next == \/ stop
        \/ \E e \in Client \cup {Nobody} : OnReceiveError(e)
        \/ \E d \in Datagram : broadcast(d)
        \/ \E e \in Client : \/ connect(e) \/ close(e) \/ ClosePassive(e) \/ net_timer(e)
                             \/ OnReceiveFails(e)
                             \/ \E d \in Datagram : \/ send(e, d) \/ do_receive(e, d)
                                                    \/ OnReceive(e, d) \/ Lose(e, d)

\* The worker completes what the sockets have ready, a closed one with an error.
Fairness == /\ WF_vars(~open /\ OnReceiveError(remote_point))
            /\ \A e \in Client : WF_vars(\E d \in Datagram : do_receive(e, d))

Spec == Init /\ [][Next]_vars /\ Fairness
-----------------------------------------------------------------------------
\* An error ends the loop for good, also when stop() comes after it: no
\* connection of the listener is told or given anything any more and none is
\* added, and of all of them at most one is told why.
EndedForGood ==
  [][loop = "ended" => UNCHANGED <<loop, told, heard>> /\ connections' \subseteq connections]_vars

OneFarewell == \A e \in Client : "DISCONNECT" \in told[e] => e = remote_point /\ loop = "ended"

\* Until the loop ends, whoever sends is connected unless all is lost.
SenderIsHeard == \A e \in Client :
                   (up[e] # {}) ~> ("CONNECT" \in told[e] \/ up[e] = {} \/ loop = "ended")
=============================================================================
