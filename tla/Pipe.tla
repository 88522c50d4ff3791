-------------------------------- MODULE Pipe --------------------------------
(***************************************************************************)
(* Pipes (include/pipe): sessions that outlive their TCP connections.  A   *)
(* server KPipe and a client KPipe, each a PipeFactory, its workers and     *)
(* application threads that send; the client's PipeConnection is opened    *)
(* again by its reconnect timer and each time meets a new passive          *)
(* PipeConnection of the server, a link.  Binding a connection to a        *)
(* session is what the handshake is for.                                   *)
(*                                                                         *)
(* KPipe::start() gives the server a worker per processor, and the         *)
(* listener deals the links out to them in turn.  A worker runs one        *)
(* handler at a time; handlers of different workers that touch the         *)
(* attached session, which has no lock, interleave at the steps pc names.  *)
(*                                                                         *)
(* The client attached one session, with a name or without one.  The       *)
(* server attached a session of that name, or none.  A link carries        *)
(* messages in order, and each end sees it break in its own time.          *)
(* Heartbeats bind nothing and are left out.                               *)
(***************************************************************************)
EXTENDS Integers, Sequences, FiniteSets

CONSTANTS Workers,    \* the server's workers
          MaxLinks,   \* bound: connections the client makes
          MaxData     \* bound: messages the applications send

ASSUME ConstantsAssumption ==
    Workers \in Nat \ {0} /\ MaxLinks \in Nat /\ MaxData \in Nat

VARIABLES
    \* the client
    named,       \* its session was constructed with a pipe id
    attached,    \* attach() has registered its session
    pipe_id,     \* PipeSession::pipe_id
    ready_flag,  \* PipeSession::ready_flag
    session,     \* PipeConnection::session is set
    pipeid,      \* PipeConnection::pipeid
    bind_pipes,  \* the ids under which its session is in bind_pipes
    unbind_pipe, \* its session is in unbind_pipes, under the connection's cid
    link,        \* number of its latest connection
    end,         \* its end of that link
    closing,     \* it has posted a close()
    \* the server
    known,       \* it has a session of that name in bind_pipes
    connection,  \* the link its session was last bound to
    sready,      \* the session's ready_flag
    conns,       \* its end of each link
    sessions,    \* the session each of its PipeConnections is bound to
    unbinds,     \* the links with an entry in its unbind_pipes
    pid_index,   \* ids it has generated
    pc,          \* how far the handler of each link is in the session's business
    \* the network
    toServer, toClient,
    \* what is observed
    sent,        \* messages the applications have sent
    events,      \* EVT_CONNECT minus EVT_DISCONNECT its session has seen
    ignored,     \* links whose handshake the server left unanswered
    lost,        \* the client dropped a message that came behind an answer
    overlapped   \* a link was bound while another link's handler was at the session

client  == <<named, attached, pipe_id, ready_flag, session, pipeid, bind_pipes,
             unbind_pipe, link, end, closing>>
server  == <<known, connection, sready, conns, sessions, unbinds, pid_index, pc>>
vars    == <<client, server, toServer, toClient, sent, events, ignored, lost, overlapped>>

Links == 1..MaxLinks

(* Ids: none, the name, and the n-th generated one.                        *)
Empty == 0
Name  == 1
generate_id == pid_index + 2

ShakeHand(id) == [type |-> "SHAKE_HAND", id |-> id, early |-> FALSE]
Data(early)   == [type |-> "DATA", id |-> Empty, early |-> early]

Post(q, k, m) == [q EXCEPT ![k] = Append(@, m)]
Pop(q, k)     == [q EXCEPT ![k] = Tail(@)]
Incoming(q, k, t) == q[k] # <<>> /\ Head(q[k]).type = t

Init ==
    /\ named \in BOOLEAN /\ known \in BOOLEAN
    /\ attached = named
    /\ pipe_id = IF named THEN Name ELSE Empty
    /\ pipeid = pipe_id
    /\ bind_pipes = IF named THEN {Name} ELSE {}
    /\ ready_flag = FALSE /\ session = FALSE /\ unbind_pipe = FALSE
    /\ link = 0 /\ end = "down" /\ closing = FALSE
    /\ connection = 0 /\ sready = FALSE
    /\ conns = [k \in Links |-> "none"] /\ sessions = [k \in Links |-> "none"]
    /\ unbinds = {} /\ pid_index = 0 /\ pc = [k \in Links |-> "idle"]
    /\ toServer = [k \in Links |-> <<>>] /\ toClient = [k \in Links |-> <<>>]
    /\ sent = 0 /\ events = 0 /\ ignored = {} /\ lost = FALSE /\ overlapped = FALSE

----------------------------------------------------------------------------
(* The client.                                                             *)

(* PipeSession::is_ready(); a connection is connected while it is open.    *)
client_is_ready == ready_flag /\ end = "open"

(* attach(host, port) registers the session it has made for a connection   *)
(* after it has started that connection.                                   *)
Register ==
    /\ ~attached /\ link > 0
    /\ attached' = TRUE /\ unbind_pipe' = TRUE
    /\ UNCHANGED <<named, pipe_id, ready_flag, session, pipeid, bind_pipes, link, end,
                   closing, server, toServer, toClient, sent, events, ignored, lost, overlapped>>

(* connect() succeeds, at first or from the reconnect timer: EVT_CONNECT.  *)
Connect ==
    /\ end # "open" /\ link < MaxLinks
    /\ link' = link + 1 /\ end' = "open"
    /\ conns' = [conns EXCEPT ![link + 1] = "open"]
    /\ toServer' = Post(toServer, link + 1, ShakeHand(pipeid))
    /\ UNCHANGED <<named, attached, pipe_id, ready_flag, session, pipeid, bind_pipes,
                   unbind_pipe, closing, known, connection, sready, sessions, unbinds,
                   pid_index, pc, toClient, sent, events, ignored, lost, overlapped>>

(* EVT_DISCONNECT: the session is told, if there is one, and unbound.      *)
ClientUnbound ==
    /\ ready_flag' = (ready_flag /\ ~session)
    /\ unbind_pipe' = FALSE

(* The client's end breaks.  A connection that will be opened again leaves *)
(* its socket as it is, and may go on reading from it until connect().     *)
ClientDown ==
    /\ end = "open"
    /\ end' \in {"lingering", "down"}
    /\ ClientUnbound
    /\ UNCHANGED <<named, attached, pipe_id, session, pipeid, bind_pipes, link, closing,
                   server, toServer, toClient, sent, events, ignored, lost, overlapped>>

(* The lambda of a close() that process_client_handshake() has called.     *)
OnClientClose ==
    /\ closing
    /\ closing' = FALSE /\ end' = "down"
    /\ ClientUnbound
    /\ UNCHANGED <<named, attached, pipe_id, session, pipeid, bind_pipes, link,
                   server, toServer, toClient, sent, events, ignored, lost, overlapped>>

Receives(t) == end # "down" /\ Incoming(toClient, link, t)

(* PipeSession::bind() of the client's session.                            *)
bind == session' = TRUE /\ ready_flag' = TRUE /\ pipeid' = pipe_id

(* process_client_handshake() of an answer with an id.                     *)
ClientBind(id) ==
    /\ id \in bind_pipes
    /\ IF client_is_ready THEN UNCHANGED <<session, ready_flag, pipeid>> ELSE bind
    /\ UNCHANGED <<pipe_id, bind_pipes, unbind_pipe, closing>>

ClientRebind(id) ==
    /\ id \notin bind_pipes /\ unbind_pipe
    /\ bind
    /\ pipe_id' = IF pipe_id = Empty THEN id ELSE pipe_id
    /\ bind_pipes' = bind_pipes \cup {id}
    /\ unbind_pipe' = FALSE
    /\ UNCHANGED closing

ClientReject(id) ==
    /\ id \notin bind_pipes /\ ~unbind_pipe
    /\ closing' = TRUE
    /\ UNCHANGED <<pipe_id, ready_flag, session, pipeid, bind_pipes, unbind_pipe>>

OnAnswer ==
    /\ Receives("SHAKE_HAND")
    /\ LET id == Head(toClient[link]).id IN
          /\ id # Empty
          /\ ClientBind(id) \/ ClientRebind(id) \/ ClientReject(id)
    /\ toClient' = Pop(toClient, link)
    /\ UNCHANGED <<named, attached, link, end, server, toServer, sent, events, ignored, lost, overlapped>>

(* The server's challenge: the handshake is sent again.                    *)
OnChallenge ==
    /\ Receives("SHAKE_HAND") /\ Head(toClient[link]).id = Empty
    /\ toClient' = Pop(toClient, link)
    /\ toServer' = IF end = "open" THEN Post(toServer, link, ShakeHand(pipeid)) ELSE toServer
    /\ UNCHANGED <<client, server, sent, events, ignored, lost, overlapped>>

(* A message: the client drops it when it has no session.                  *)
OnClientData ==
    /\ Receives("DATA")
    /\ toClient' = Pop(toClient, link)
    /\ lost' = (lost \/ (~session /\ ~Head(toClient[link]).early))
    /\ UNCHANGED <<client, server, toServer, sent, events, ignored, overlapped>>

ClientSend ==
    /\ client_is_ready /\ sent < MaxData
    /\ sent' = sent + 1
    /\ toServer' = Post(toServer, link, Data(FALSE))
    /\ UNCHANGED <<client, server, toClient, events, ignored, lost, overlapped>>

----------------------------------------------------------------------------
(* The server.                                                             *)

Open(k) == k \in Links /\ conns[k] \in {"open", "closing"}

is_ready == sready /\ Open(connection)

(* A worker with no handler under way takes the next message of a link.    *)
Worker(k) == k % Workers
Free(k) == \A j \in Links : Worker(j) = Worker(k) => pc[j] = "idle"

ServerReceives(k, t) == Free(k) /\ Open(k) /\ Incoming(toServer, k, t)

At(k, step) == pc' = [pc EXCEPT ![k] = step]

(* Mutant: a session that is ready is bound again.                         *)
OnHandshakeMutant(k) ==
    /\ ServerReceives(k, "SHAKE_HAND") /\ Head(toServer[k]).id = Name /\ known
    /\ At(k, "checked")
    /\ toServer' = Pop(toServer, k)
    /\ UNCHANGED <<client, known, connection, sready, conns, sessions, unbinds, pid_index,
                   toClient, sent, events, ignored, lost, overlapped>>

(* process_server_handshake() of a name, up to the look at is_ready().     *)
OnHandshake(k) ==
    /\ ServerReceives(k, "SHAKE_HAND") /\ Head(toServer[k]).id = Name /\ known
    /\ \/ /\ is_ready
          /\ ignored' = IF sessions[k] = "none" THEN ignored \cup {k} ELSE ignored
          /\ UNCHANGED pc
       \/ /\ ~is_ready
          /\ At(k, "checked")
          /\ UNCHANGED ignored
    /\ toServer' = Pop(toServer, k)
    /\ UNCHANGED <<client, known, connection, sready, conns, sessions, unbinds, pid_index,
                   toClient, sent, events, lost, overlapped>>

(* Another link's handler is between its look at the session and its bind, *)
(* or between the end of its connection and its unbind().                  *)
Competes(k) == \/ pc[k] = "checked"
               \/ (pc[k] \in {"down", "told"} /\ sessions[k] = "pipe")

(* PipeSession::bind().  Its four assignments are one step: only a handler *)
(* that competes can tell, since until the last of them the session of a   *)
(* link that does not is not ready, and what it sends after is early.      *)
Bind(k) ==
    /\ pc[k] = "checked"
    /\ connection' = k /\ sready' = TRUE
    /\ sessions' = [sessions EXCEPT ![k] = "pipe"]
    /\ At(k, "bound")
    /\ overlapped' = (overlapped \/ \E j \in Links \ {k} : Competes(j))
    /\ UNCHANGED <<client, known, conns, unbinds, pid_index, toServer, toClient, sent, events,
                   ignored, lost>>

(* Mutant: the session is told, the client is not.                         *)
ServerAnswerMutant(k) ==
    /\ pc[k] = "bound"
    /\ events' = events + 1
    /\ At(k, "idle")
    /\ UNCHANGED <<client, known, connection, sready, conns, sessions, unbinds, pid_index,
                   toServer, toClient, sent, ignored, lost, overlapped>>

(* The answer, and EVT_CONNECT for the session.                            *)
ServerAnswer(k) ==
    /\ pc[k] = "bound"
    /\ toClient' = Post(toClient, k, ShakeHand(Name))
    /\ events' = events + 1
    /\ At(k, "idle")
    /\ UNCHANGED <<client, known, connection, sready, conns, sessions, unbinds, pid_index,
                   toServer, sent, ignored, lost, overlapped>>

(* A name nobody attached: the connection is closed.                       *)
OnUnknown(k) ==
    /\ ServerReceives(k, "SHAKE_HAND")
    /\ Head(toServer[k]).id # Empty /\ ~(Head(toServer[k]).id = Name /\ known)
    /\ conns' = [conns EXCEPT ![k] = "closing"]
    /\ toServer' = Pop(toServer, k)
    /\ UNCHANGED <<client, known, connection, sready, sessions, unbinds, pid_index, pc,
                   toClient, sent, events, ignored, lost, overlapped>>

(* A handshake without a name: the connection gets a session of its own    *)
(* and the client an id.  pid_index++ is not atomic: a worker may get the  *)
(* id of an earlier handshake of another one.                              *)
OnUnnamed(k) ==
    /\ ServerReceives(k, "SHAKE_HAND") /\ Head(toServer[k]).id = Empty
    /\ sessions' = [sessions EXCEPT ![k] = "own"]
    /\ unbinds' = unbinds \cup {k}
    /\ pid_index' = pid_index + 1
    /\ toServer' = Pop(toServer, k)
    /\ \E id \in IF Workers = 1 THEN {generate_id} ELSE (Name + 1)..generate_id :
          toClient' = Post(toClient, k, ShakeHand(id))
    /\ UNCHANGED <<client, known, connection, sready, conns, pc, sent, events,
                   ignored, lost, overlapped>>

(* A message: without a session the client is challenged.                  *)
OnServerData(k) ==
    /\ ServerReceives(k, "DATA")
    /\ toServer' = Pop(toServer, k)
    /\ toClient' = IF sessions[k] = "none" THEN Post(toClient, k, ShakeHand(Empty))
                                           ELSE toClient
    /\ UNCHANGED <<client, server, sent, events, ignored, lost, overlapped>>

(* The server's end breaks, or the lambda of its close() runs: the status  *)
(* is no longer OPEN, and EVT_DISCONNECT follows.                          *)
ServerDown(k) ==
    /\ Free(k) /\ Open(k)
    /\ conns' = [conns EXCEPT ![k] = "gone"]
    /\ At(k, "down")
    /\ UNCHANGED <<client, known, connection, sready, sessions, unbinds, pid_index,
                   toServer, toClient, sent, events, ignored, lost, overlapped>>

(* Mutant: the session is not told.                                        *)
ServerToldMutant(k) ==
    /\ pc[k] = "down"
    /\ At(k, "told")
    /\ UNCHANGED <<client, known, connection, sready, conns, sessions, unbinds, pid_index,
                   toServer, toClient, sent, events, ignored, lost, overlapped>>

(* EVT_DISCONNECT: first the session is told.                              *)
ServerTold(k) ==
    /\ pc[k] = "down"
    /\ events' = IF sessions[k] = "pipe" THEN events - 1 ELSE events
    /\ At(k, "told")
    /\ UNCHANGED <<client, known, connection, sready, conns, sessions, unbinds, pid_index,
                   toServer, toClient, sent, ignored, lost, overlapped>>

(* Mutant: EVT_DISCONNECT ends without remove_unbind_pipe().               *)
ServerUnbindMutant(k) ==
    /\ pc[k] = "told"
    /\ sready' = (sready /\ sessions[k] # "pipe")
    /\ At(k, "idle")
    /\ UNCHANGED <<client, known, connection, conns, sessions, unbinds, pid_index,
                   toServer, toClient, sent, events, ignored, lost, overlapped>>

(* Then it is unbound, whatever connection it has by now.                  *)
ServerUnbind(k) ==
    /\ pc[k] = "told"
    /\ sready' = (sready /\ sessions[k] # "pipe")
    /\ unbinds' = unbinds \ {k}
    /\ At(k, "idle")
    /\ UNCHANGED <<client, known, connection, conns, sessions, pid_index,
                   toServer, toClient, sent, events, ignored, lost, overlapped>>

(* send() of an application thread.                                        *)
ServerSend ==
    /\ is_ready /\ sent < MaxData
    /\ sent' = sent + 1
    /\ toClient' = Post(toClient, connection, Data(pc[connection] = "bound"))
    /\ UNCHANGED <<client, server, toServer, events, ignored, lost, overlapped>>

Client == OnAnswer \/ OnChallenge \/ OnClientData \/ OnClientClose
Server(k) == OnHandshake(k) \/ OnUnknown(k) \/ OnUnnamed(k) \/ OnServerData(k)
Handler(k) == Bind(k) \/ ServerAnswer(k) \/ ServerTold(k) \/ ServerUnbind(k)

Next == \/ Client \/ Register \/ Connect \/ ClientDown \/ ClientSend
        \/ ServerSend
        \/ \E k \in Links : Server(k) \/ Handler(k) \/ ServerDown(k)

Spec == Init /\ [][Next]_vars

(* All workers run what has arrived, in order, finish what they have begun *)
(* and notice at an end that the other end has left.  Nobody is obliged to *)
(* connect or to send.                                                     *)
Left(k) == link # k \/ end # "open" \/ conns[k] = "closing"
PipeFairness ==
    /\ WF_vars(Client)
    /\ WF_vars(ClientDown /\ link > 0 /\ conns[link] = "gone")
    /\ \A k \in Links :
          WF_vars(Server(k) \/ Handler(k)) /\ WF_vars(ServerDown(k) /\ Left(k))

----------------------------------------------------------------------------
(* Properties.                                                             *)

Message == [type : {"SHAKE_HAND", "DATA"}, id : Nat, early : BOOLEAN]

TypeOK ==
    /\ named \in BOOLEAN /\ attached \in BOOLEAN /\ known \in BOOLEAN
    /\ pipe_id \in Nat /\ pipeid \in Nat /\ bind_pipes \subseteq Nat
    /\ ready_flag \in BOOLEAN /\ session \in BOOLEAN /\ unbind_pipe \in BOOLEAN
    /\ link \in 0..MaxLinks /\ end \in {"open", "lingering", "down"}
    /\ closing \in BOOLEAN
    /\ connection \in 0..MaxLinks /\ sready \in BOOLEAN
    /\ conns \in [Links -> {"none", "open", "closing", "gone"}]
    /\ sessions \in [Links -> {"none", "pipe", "own"}]
    /\ unbinds \subseteq Links /\ pid_index \in Nat
    /\ pc \in [Links -> {"idle", "checked", "bound", "down", "told"}]
    /\ toServer \in [Links -> Seq(Message)] /\ toClient \in [Links -> Seq(Message)]
    /\ sent \in Nat /\ events \in Int /\ ignored \subseteq Links
    /\ lost \in BOOLEAN /\ overlapped \in BOOLEAN

Bound(k) == Open(k) /\ sessions[k] = "pipe"

(* The server's session is bound to at most one open connection, and while *)
(* there is one it is ready with that one: the break of an old connection, *)
(* seen late, never unbinds the session from its new one.  This needs a    *)
(* lock that PipeSession does not have: it holds until a worker binds the  *)
(* session while another one is about to bind or to unbind it.             *)
BoundToOne == ~overlapped => \A k \in Links : Bound(k) => sready /\ connection = k

(* Between its EVT_CONNECT and its EVT_DISCONNECT for link k.              *)
Connected(k) == /\ sessions[k] = "pipe"
                /\ (Open(k) /\ pc[k] # "bound") \/ pc[k] = "down"

(* The session sees EVT_CONNECT and EVT_DISCONNECT in turn, and between    *)
(* them it has a connection or is about to be told of its end, until two   *)
(* workers overlap in the same way.                                        *)
EventsInTurn ==
    ~overlapped => events = IF \E k \in Links : Connected(k) THEN 1 ELSE 0

(* Sessions made for unnamed clients leave with their connections.         *)
UnbindsAreOpen == \A k \in unbinds : Open(k) \/ pc[k] \in {"down", "told"}

(* README.md, "Thread mode": "it is safety to create a lua engine in your  *)
(* session, all net events will be called in the same thread".  No two     *)
(* workers are about to call handle_event() of the attached session.       *)
SessionIsSerial ==
    \A j, k \in Links :
        /\ sessions[j] = "pipe" /\ pc[j] \in {"bound", "down"}
        /\ sessions[k] = "pipe" /\ pc[k] \in {"bound", "down"}
        => j = k

(* A message the server's session accepted after its answer is never       *)
(* dropped by the client for want of a session.                            *)
AnswerComesFirst == ~lost

(* A client that has connected to a session by name becomes ready, unless  *)
(* an end of the link breaks or the server still had the session bound to  *)
(* an older link when the handshake came: that handshake stays unanswered. *)
HandshakeAnswered ==
    \A k \in Links :
        (named /\ known /\ link = k /\ end = "open")
            ~> (client_is_ready \/ link # k \/ end # "open" \/ ~Open(k) \/ k \in ignored)
=============================================================================
