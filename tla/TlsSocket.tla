----------------------------- MODULE TlsSocket -----------------------------
(***************************************************************************)
(* TlsSocket (src/include/tcp/asio/tls_socket.hpp) in the place of         *)
(* TcpSocket.  Sending, reading, close() and do_close() are the code of    *)
(* TcpSocket again and keep their actions; what differs is how a           *)
(* connection comes up.  init_read() starts a handshake unless one has     *)
(* succeeded before, and the handshake's handler tells the connection and  *)
(* starts the read, but leaves socket_status as it is: only a reconnect,   *)
(* which finds ssl_shakehand set, ever opens the socket for msend().       *)
(***************************************************************************)
EXTENDS TcpSocket

VARIABLES ssl_shakehand,   \* TlsSocket::ssl_shakehand
          shaking,         \* an async_handshake is outstanding
          crashed          \* a handler has used the connection after its reset
tlsVars == <<ssl_shakehand, shaking, crashed>>

TlsInit == ssl_shakehand = FALSE /\ shaking = FALSE /\ crashed = FALSE

(* Mutant: reading starts without the handshake.                           *)
TlsInitReadMutant(q) == init_read(q) /\ UNCHANGED shaking
(* init_read(), of the client's connect handler and of the listener.       *)
TlsInitRead(q) ==
    IF connection /\ ~ssl_shakehand
    THEN /\ shaking' = TRUE /\ ready' = q
         /\ UNCHANGED <<lifeVars, opVars>>
    ELSE init_read(q) /\ UNCHANGED shaking

OnTlsInit ==
    /\ Running("INIT") /\ TlsInitRead(Tail(ready))
    /\ UNCHANGED <<appVars, bufVars, cfgVars, wire, dataPhase, ssl_shakehand, crashed>>

OnTlsConnect ==
    /\ Running("CONNECT")
    /\ IF ok /\ sock_is_open
       THEN TlsInitRead(Tail(ready))
       ELSE /\ CloseSock(Tail(ready), writes) /\ socket_status' = "CLOSED"
            /\ UNCHANGED <<connection, phase, discs, shaking>>
    /\ UNCHANGED <<appVars, bufVars, cfgVars, wire, dataPhase, ssl_shakehand, crashed>>

(* The handshake ends: with success only on a connected socket.            *)
ShakeReady ==
    /\ shaking /\ shaking' = FALSE
    /\ \E success \in {s \in BOOLEAN : s => tcp_sock = "connected"} :
           ready' = Append(ready, H("SHAKE", success))
    /\ UNCHANGED <<appVars, opVars, bufVars, lifeVars, cfgVars, wire, dataPhase, ssl_shakehand,
                   crashed>>

(* Its handler: EVT_CONNECT and the first read.  A failure only closes the *)
(* socket.  A connection that close() has reset meanwhile is a null        *)
(* pointer.                                                                *)
OnShake ==
    /\ Running("SHAKE")
    /\ IF ok /\ connection
       THEN /\ ssl_shakehand' = TRUE /\ phase' = "up"
            /\ reads' = do_read(1) /\ ready' = Tail(ready)
            /\ UNCHANGED <<socket_status, connection, discs, tcp_sock, writes, connecting, crashed>>
       ELSE IF ok
       THEN /\ ssl_shakehand' = TRUE /\ crashed' = TRUE /\ ready' = Tail(ready)
            /\ UNCHANGED <<lifeVars, opVars>>
       ELSE CloseSock(Tail(ready), writes) /\ UNCHANGED <<lifeVars, ssl_shakehand, crashed>>
    /\ UNCHANGED <<appVars, bufVars, cfgVars, wire, dataPhase, shaking>>

(* close() by the user, who knows the connection since init().             *)
TlsClose ==
    /\ closes < MaxCloses /\ closes' = closes + 1
    /\ ~Running("INIT")
    /\ ready' = IF socket_status \in {"CLOSING", "CLOSED"}
                THEN ready ELSE Append(ready, H("CLOSE", TRUE))
    /\ UNCHANGED <<appVars, opVars, bufVars, lifeVars, passive_mode, reconn_flag, connects, torn,
                   wire, dataPhase, tlsVars>>

(* The handlers that TlsSocket repeats from TcpSocket.                     *)
TlsRead  == OnRead \/ OnReadError
TlsWrite == OnSend \/ OnWrite \/ OnWriteError
TlsTimer == OnTimerConnect \/ OnTimerIdle
TlsWorker == ~crashed /\ \/ OnTlsInit \/ OnTlsConnect \/ OnShake
                         \/ (TlsRead \/ TlsWrite \/ OnClose \/ TlsTimer) /\ UNCHANGED tlsVars

TlsSend == \E t \in Senders : Msend(t)
TlsNext ==
    \/ TlsWorker
    \/ ~crashed /\ \/ ShakeReady \/ TlsClose
                   \/ (Kernel \/ PeerDown \/ TlsSend) /\ UNCHANGED tlsVars
=============================================================================
