----------------------------- MODULE TcpSocket -----------------------------
(***************************************************************************)
(* One connection of knet: a TcpConnection, its TcpSocket, the io_context  *)
(* of the KNetWorker that runs its handlers, and the application threads   *)
(* that send on it and close it (include/tcp/asio/tcp_socket.hpp and       *)
(* tcp_connection.hpp).                                                    *)
(*                                                                         *)
(* The worker runs the handlers posted to the io_context one at a time, in *)
(* FIFO order: one action per handler, the whole handler.  Application     *)
(* threads run concurrently with it, and msend() is several steps.  What a *)
(* caller sends in one call is one unit; units are numbered in the order   *)
(* in which they are appended to send_buffer.                              *)
(***************************************************************************)
EXTENDS Naturals, Sequences, FiniteSets

CONSTANTS Senders,      \* threads that call msend()
          SyncSenders,  \* threads that call sync_msend()
          NoThread,     \* value of write_mutex when nobody holds it
          Reconnect,    \* the application may have called enable_reconnect()
          MayForce,     \* the application may call close(true)
          MaxUnits,     \* bound: units appended
          MaxConnects,  \* bound: calls of connect()
          MaxCloses     \* bound: calls of close()

Threads == Senders \cup SyncSenders

ASSUME ConstantsAssumption ==
    /\ Senders \cap SyncSenders = {} /\ IsFiniteSet(Threads)
    /\ NoThread \notin Threads
    /\ Reconnect \in BOOLEAN
    /\ MayForce \in BOOLEAN
    /\ MaxUnits \in Nat
    /\ MaxConnects \in Nat \ {0}
    /\ MaxCloses \in Nat

VARIABLES
    socket_status,  \* TcpSocket::socket_status
    connection,     \* TcpSocket::connection is not null
    passive_mode,   \* TcpConnection::passive_mode
    reconn_flag,    \* TcpConnection::reconn_flag; reconn_timer is alive with it
    send_buffer,    \* units appended by senders
    cache_buffer,   \* units of the write in progress
    is_writting,    \* TcpSocket::is_writting
    write_mutex,    \* its holder
    pc,             \* where each thread is in msend() or sync_msend()
    snapshot,       \* send_buffer as a thread read it when it began to append
    tcp_sock,       \* the kernel's socket
    reads,          \* async_read_some operations waiting in the reactor
    writes,         \* what is left of each async_write waiting in the reactor
    connecting,     \* async_connect operations waiting in the reactor
    ready,          \* handlers in the io_context, in the order they will run
    wire,           \* units the current tcp_sock has taken
    accepted,       \* number of units appended so far
    connects,       \* calls of connect() so far
    closes,         \* calls of close() so far
    torn,           \* history: a synchronous write failed half-way
    phase,          \* last of the events CONNECT, DISCONNECT, RELEASE seen
    dataPhase,      \* phase when handle_data was last called
    discs           \* number of EVT_DISCONNECT seen

appVars  == <<pc, snapshot, accepted, write_mutex>>
opVars   == <<tcp_sock, reads, writes, connecting>>
bufVars  == <<send_buffer, cache_buffer, is_writting>>
lifeVars == <<socket_status, connection, phase, discs>>
cfgVars  == <<passive_mode, reconn_flag, connects, closes, torn>>

vars == <<appVars, opVars, bufVars, lifeVars, cfgVars, ready, wire, dataPhase>>

Status == {"INIT", "CONNECTING", "OPEN", "CLOSING", "RECONNECT", "CLOSED"}
Phase  == {"created", "up", "down", "released"}
(* SHAKE is the handler of TlsSocket's handshake.                          *)
Handler == [k : {"INIT", "SEND", "CLOSE", "READ", "WRITE", "CONNECT", "TIMER", "SHAKE"},
            ok : BOOLEAN, rem : Seq(Nat)]

H(k, ok)  == [k |-> k, ok |-> ok, rem |-> <<>>]
HW(ok, r) == [k |-> "WRITE", ok |-> ok, rem |-> r]

----------------------------------------------------------------------------
(* Initial states: a passive connection whose init_conn() was just posted  *)
(* by the listener, or an active one on which add_connection() has called  *)
(* connect().                                                              *)

Init ==
    /\ \/ /\ passive_mode = TRUE
          /\ socket_status = "INIT"
          /\ tcp_sock = "connected"
          /\ connecting = 0
          /\ ready = <<H("INIT", TRUE)>>
          /\ reconn_flag = FALSE
       \/ /\ passive_mode = FALSE
          /\ socket_status = "CONNECTING"
          /\ tcp_sock = "opening"
          /\ connecting = 1
          /\ ready = <<>>
          /\ reconn_flag \in {FALSE, Reconnect}
    /\ connection = TRUE
    /\ send_buffer = <<>> /\ cache_buffer = <<>> /\ is_writting = FALSE
    /\ write_mutex = NoThread
    /\ pc = [t \in Threads |-> "idle"]
    /\ snapshot = [t \in Threads |-> <<>>]
    /\ reads = 0 /\ writes = <<>>
    /\ wire = <<>> /\ accepted = 0
    /\ connects = 1 /\ closes = 0 /\ torn = FALSE
    /\ phase = "created" /\ dataPhase = "up" /\ discs = 0

----------------------------------------------------------------------------
(* Pieces of handlers.                                                     *)

sock_is_open == tcp_sock # "closed"
is_open      == sock_is_open /\ socket_status = "OPEN"

need_reconnect == reconn_flag /\ ~passive_mode

(* tcp_sock.close() completes every waiting operation with an error.       *)
Aborted(r, w, c) == [i \in 1..r |-> H("READ", FALSE)]
                    \o [i \in 1..Len(w) |-> HW(FALSE, w[i])]
                    \o [i \in 1..c |-> H("CONNECT", FALSE)]

CloseSock(q, w) ==
    /\ tcp_sock' = "closed"
    /\ reads' = 0 /\ writes' = <<>> /\ connecting' = 0
    /\ ready' = q \o Aborted(reads, w, connecting)

Prefix(s, n) == SubSeq(s, 1, n)

Rest(s, n) == SubSeq(s, n + 1, Len(s))

(* async_write() of s, or its continuation after a partial write: asio     *)
(* tries a non-blocking send first unless a write is already waiting, and  *)
(* leaves the rest to the reactor.  The results are the possible values of *)
(* wire, writes and the handlers posted after q.                           *)
Result(n, s, ws, h) == [wire |-> wire \o Prefix(s, n), writes |-> ws, q |-> h]

StartWrite(s, q) ==
    IF tcp_sock = "closed"
    THEN {Result(0, s, writes, Append(q, HW(FALSE, s)))}
    ELSE {Result(0, s, Append(writes, s), q)}
         \cup (IF tcp_sock = "opening" \/ writes # <<>> THEN {}
               ELSE {Result(n, s, writes, Append(q, HW(TRUE, Rest(s, n)))) : n \in 1..Len(s)})
         \cup (IF tcp_sock # "down" \/ writes # <<>> THEN {}
               ELSE {Result(0, s, writes, Append(q, HW(FALSE, s)))})

(* do_async_write(), called with cache_buffer = cache.                     *)
Swapped(cache)  == IF cache = <<>> THEN send_buffer ELSE cache
do_async_write(cache, q) ==
    IF Swapped(cache) = <<>>
    THEN {[wire |-> wire, writes |-> writes, q |-> q]}
    ELSE StartWrite(Swapped(cache), q)
TakeSendBuffer(cache) ==
    /\ write_mutex = NoThread
    /\ cache_buffer' = Swapped(cache)
    /\ send_buffer' = IF cache = <<>> THEN <<>> ELSE send_buffer
    /\ is_writting' = (Swapped(cache) # <<>>)

(* release() raises EVT_RELEASE and connection.reset() follows it.         *)
(* Mutant: the connection is not reset.                                    *)
ReleasedMutant == UNCHANGED connection /\ phase' = "released"
Released == connection' = FALSE /\ phase' = "released"

(* do_read() starts one more read when the socket is open.                 *)
do_read(r) == IF sock_is_open THEN reads + r ELSE reads

(* Mutant: do_close() lets a connection that is not to be reconnected go   *)
(* without EVT_DISCONNECT.                                                 *)
do_closeMutant(q, r) ==
    /\ socket_status' = "CLOSED"
    /\ CloseSock(q, writes)
    /\ send_buffer' = <<>>
    /\ Released
    /\ UNCHANGED discs

(* do_close(), called with the handlers q still to run; the handler calls  *)
(* do_read() r times after it.                                             *)
do_close(q, r) ==
    IF socket_status \in {"CLOSING", "CLOSED"}
    THEN /\ ready' = q
         /\ reads' = do_read(r)
         /\ UNCHANGED <<lifeVars, send_buffer, tcp_sock, writes, connecting>>
    ELSE IF ~connection
    THEN /\ socket_status' = "CLOSED"
         /\ CloseSock(q, writes)
         /\ UNCHANGED <<connection, phase, discs, send_buffer>>
    ELSE /\ send_buffer' = <<>>
         /\ discs' = IF socket_status = "RECONNECT" THEN discs ELSE discs + 1
         /\ IF need_reconnect
            THEN /\ socket_status' = "RECONNECT"
                 /\ phase' = "down"
                 /\ ready' = q
                 /\ reads' = do_read(r)
                 /\ UNCHANGED <<connection, tcp_sock, writes, connecting>>
            ELSE /\ socket_status' = "CLOSED"
                 /\ CloseSock(q, writes)
                 /\ Released

(* init_read(), called with the handlers q still to run.                   *)
init_read(q) ==
    /\ ready' = q
    /\ IF connection
       THEN /\ socket_status' = "OPEN"
            /\ phase' = "up"
            /\ reads' = do_read(1)
       ELSE UNCHANGED <<socket_status, phase, reads>>
    /\ UNCHANGED <<connection, discs, tcp_sock, writes, connecting>>

(* connect(): the old socket is closed and a new one starts to connect.    *)
connect(q) ==
    /\ socket_status' = "CONNECTING"
    /\ tcp_sock' = "opening"
    /\ reads' = 0 /\ writes' = <<>> /\ connecting' = 1
    /\ ready' = q \o Aborted(reads, writes, connecting)
    /\ wire' = <<>>
    /\ connects' = connects + 1

----------------------------------------------------------------------------
(* Handlers, run by the worker.                                            *)

Running(k) == ready # <<>> /\ Head(ready).k = k
ok  == Head(ready).ok
rem == Head(ready).rem

(* init_conn() of the listener, posted to the worker.                      *)
OnInit ==
    /\ Running("INIT")
    /\ init_read(Tail(ready))
    /\ UNCHANGED <<appVars, bufVars, cfgVars, wire, dataPhase>>

(* Completion of async_connect.  asio reports an error when the socket was *)
(* closed meanwhile.                                                       *)
OnConnect ==
    /\ Running("CONNECT")
    /\ IF ok /\ sock_is_open
       THEN init_read(Tail(ready))
       ELSE /\ CloseSock(Tail(ready), writes)
            /\ socket_status' = "CLOSED"
            /\ UNCHANGED <<connection, phase, discs>>
    /\ UNCHANGED <<appVars, bufVars, cfgVars, wire, dataPhase>>

(* Completion of async_read_some with data: process_data() hands complete  *)
(* packages to the connection, then do_read() starts the next read.  A     *)
(* package larger than the buffer closes the connection before do_read(),  *)
(* a full buffer closes it inside do_read().                               *)
OnRead ==
    /\ Running("READ") /\ ok
    /\ \E delivers \in {d \in BOOLEAN : d => connection} :
           dataPhase' = IF delivers THEN phase ELSE dataPhase
    /\ \/ /\ ready' = Tail(ready)
          /\ reads' = do_read(1)
          /\ UNCHANGED <<lifeVars, bufVars, tcp_sock, writes, connecting>>
       \/ /\ connection
          /\ \E r \in {0, 1} : do_close(Tail(ready), r)
          /\ cache_buffer' = IF socket_status \in {"CLOSING", "CLOSED"}
                             THEN cache_buffer ELSE <<>>
          /\ UNCHANGED is_writting
    /\ UNCHANGED <<appVars, cfgVars, wire>>

OnReadError ==
    /\ Running("READ") /\ ~ok
    /\ do_close(Tail(ready), 0)
    /\ cache_buffer' = <<>>
    /\ UNCHANGED <<appVars, cfgVars, is_writting, wire, dataPhase>>

(* Mutant: is_writting is not looked at.                                   *)
OnSendMutant ==
    /\ Running("SEND")
    /\ TakeSendBuffer(cache_buffer)
    /\ \E x \in do_async_write(cache_buffer, Tail(ready)) :
           wire' = x.wire /\ writes' = x.writes /\ ready' = x.q
    /\ UNCHANGED <<appVars, lifeVars, cfgVars, tcp_sock, reads, connecting, dataPhase>>

(* The lambda posted by do_send().                                         *)
OnSend ==
    /\ Running("SEND")
    /\ IF is_writting
       THEN /\ ready' = Tail(ready)
            /\ UNCHANGED <<bufVars, writes, wire>>
       ELSE /\ TakeSendBuffer(cache_buffer)
            /\ \E x \in do_async_write(cache_buffer, Tail(ready)) :
                   wire' = x.wire /\ writes' = x.writes /\ ready' = x.q
    /\ UNCHANGED <<appVars, lifeVars, cfgVars, tcp_sock, reads, connecting, dataPhase>>

(* Mutant: a completed write does not look for more to write.              *)
OnWriteMutant ==
    /\ Running("WRITE") /\ ok
    /\ IF rem # <<>>
       THEN /\ \E x \in StartWrite(rem, Tail(ready)) :
                   wire' = x.wire /\ writes' = x.writes /\ ready' = x.q
            /\ UNCHANGED bufVars
       ELSE /\ cache_buffer' = <<>> /\ is_writting' = FALSE
            /\ ready' = Tail(ready)
            /\ UNCHANGED <<send_buffer, writes, wire>>
    /\ UNCHANGED <<appVars, lifeVars, cfgVars, tcp_sock, reads, connecting, dataPhase>>

(* Completion of async_write: asio continues a partial write; when all is  *)
(* written the next buffer follows.                                        *)
OnWrite ==
    /\ Running("WRITE") /\ ok
    /\ IF rem # <<>>
       THEN /\ \E x \in StartWrite(rem, Tail(ready)) :
                   wire' = x.wire /\ writes' = x.writes /\ ready' = x.q
            /\ UNCHANGED bufVars
       ELSE /\ TakeSendBuffer(<<>>)
            /\ \E x \in do_async_write(<<>>, Tail(ready)) :
                   wire' = x.wire /\ writes' = x.writes /\ ready' = x.q
    /\ UNCHANGED <<appVars, lifeVars, cfgVars, tcp_sock, reads, connecting, dataPhase>>

OnWriteError ==
    /\ Running("WRITE") /\ ~ok
    /\ do_close(Tail(ready), 0)
    /\ cache_buffer' = <<>>
    /\ UNCHANGED <<appVars, cfgVars, is_writting, wire, dataPhase>>

(* Mutant: the lambda returns early.                                       *)
OnCloseMutant ==
    /\ Running("CLOSE")
    /\ ready' = Tail(ready)
    /\ UNCHANGED <<appVars, opVars, bufVars, lifeVars, cfgVars, wire, dataPhase>>

(* The lambda posted by close().                                           *)
OnClose ==
    /\ Running("CLOSE")
    /\ IF connection /\ send_buffer # <<>>
       THEN /\ TakeSendBuffer(cache_buffer)
            /\ \E x \in do_async_write(cache_buffer, Tail(ready)) :
                   wire' = x.wire /\ CloseSock(x.q, x.writes)
       ELSE CloseSock(Tail(ready), writes) /\ UNCHANGED <<bufVars, wire>>
    /\ IF connection
       THEN /\ discs' = discs + 1
            /\ IF need_reconnect
               THEN socket_status' = "RECONNECT" /\ phase' = "down" /\ UNCHANGED connection
               ELSE socket_status' = "CLOSED" /\ Released
       ELSE socket_status' = "CLOSED" /\ UNCHANGED <<connection, phase, discs>>
    /\ UNCHANGED <<appVars, cfgVars, dataPhase>>

(* The reconnect timer of enable_reconnect(); a stopped timer does         *)
(* nothing, and connect() returns early when the address does not resolve. *)
(* Mutant: only a broken connection is opened again, not a failed one.     *)
OnTimerConnectMutant ==
    /\ Running("TIMER")
    /\ reconn_flag /\ socket_status = "RECONNECT"
    /\ connect(Tail(ready))
    /\ UNCHANGED <<appVars, bufVars, connection, phase, discs,
                   passive_mode, reconn_flag, closes, torn, dataPhase>>

OnTimerConnect ==
    /\ Running("TIMER")
    /\ reconn_flag /\ ~is_open /\ socket_status # "CONNECTING"
    /\ connect(Tail(ready))
    /\ UNCHANGED <<appVars, bufVars, connection, phase, discs,
                   passive_mode, reconn_flag, closes, torn, dataPhase>>

OnTimerIdle ==
    /\ Running("TIMER")
    /\ ready' = Tail(ready)
    /\ UNCHANGED <<appVars, opVars, bufVars, lifeVars, cfgVars, wire, dataPhase>>

Worker == \/ OnInit \/ OnConnect \/ OnRead \/ OnReadError \/ OnSend
          \/ OnWrite \/ OnWriteError \/ OnClose \/ OnTimerConnect \/ OnTimerIdle

----------------------------------------------------------------------------
(* The kernel and asio's reactor.                                          *)

ReadReady ==
    /\ reads > 0 /\ tcp_sock \in {"connected", "down"}
    /\ reads' = reads - 1
    /\ ready' = Append(ready, H("READ", tcp_sock = "connected"))
    /\ UNCHANGED <<appVars, bufVars, lifeVars, cfgVars, tcp_sock, writes,
                   connecting, wire, dataPhase>>

WriteReady ==
    /\ writes # <<>> /\ tcp_sock \in {"connected", "down"}
    /\ writes' = Tail(writes)
    /\ \/ \E n \in 1..Len(Head(writes)) :
             /\ wire' = wire \o Prefix(Head(writes), n)
             /\ ready' = Append(ready, HW(TRUE, Rest(Head(writes), n)))
       \/ /\ tcp_sock = "down"
          /\ ready' = Append(ready, HW(FALSE, Head(writes)))
          /\ UNCHANGED wire
    /\ UNCHANGED <<appVars, bufVars, lifeVars, cfgVars, tcp_sock, reads,
                   connecting, dataPhase>>

ConnectReady ==
    /\ connecting > 0 /\ tcp_sock = "opening"
    /\ connecting' = connecting - 1
    /\ \E success \in BOOLEAN :
           /\ tcp_sock' = IF success THEN "connected" ELSE "down"
           /\ ready' = Append(ready, H("CONNECT", success))
    /\ UNCHANGED <<appVars, bufVars, lifeVars, cfgVars, reads, writes, wire, dataPhase>>

(* The peer closes or resets the connection.                               *)
PeerDown ==
    /\ tcp_sock = "connected"
    /\ tcp_sock' = "down"
    /\ UNCHANGED <<appVars, bufVars, lifeVars, cfgVars, reads, writes,
                   connecting, ready, wire, dataPhase>>

(* The reconnect timer expires; handle_timeout() arms it again after the   *)
(* handler has run.                                                        *)
TimerReady ==
    /\ reconn_flag /\ connects < MaxConnects
    /\ \A i \in DOMAIN ready : ready[i].k # "TIMER"
    /\ ready' = Append(ready, H("TIMER", TRUE))
    /\ UNCHANGED <<appVars, opVars, bufVars, lifeVars, cfgVars, wire, dataPhase>>

Kernel == ReadReady \/ WriteReady \/ ConnectReady \/ TimerReady

----------------------------------------------------------------------------
(* Application threads.                                                    *)

Goto(t, from, to) == pc[t] = from /\ pc' = [pc EXCEPT ![t] = to]

(* std::string::append is a read of the string and a write of it: the      *)
(* append of a locked msend() can still meet the unlocked clear of         *)
(* do_close() or of mpush_sync().                                          *)
Begun == {t \in Threads : pc[t] \in {"checked", "pushing", "appending"}}
BeginAppend(t) == snapshot' = [snapshot EXCEPT ![t] = send_buffer]
EndAppend(t) ==
    /\ accepted' = accepted + 1
    /\ send_buffer' = Append(snapshot[t], accepted + 1)
    /\ snapshot' = [snapshot EXCEPT ![t] = <<>>]

MsendCheck(t) ==
    /\ is_open /\ accepted + Cardinality(Begun) < MaxUnits
    /\ Goto(t, "idle", "checked")
    /\ UNCHANGED <<snapshot, accepted, write_mutex, opVars, bufVars, lifeVars,
                   cfgVars, ready, wire, dataPhase>>

MsendLock(t) ==
    /\ write_mutex = NoThread
    /\ write_mutex' = t
    /\ Goto(t, "checked", "pushing")
    /\ BeginAppend(t)
    /\ UNCHANGED <<accepted, opVars, bufVars, lifeVars, cfgVars, ready, wire, dataPhase>>

MsendPush(t) ==
    /\ Goto(t, "pushing", "pushed")
    /\ EndAppend(t)
    /\ write_mutex' = NoThread
    /\ UNCHANGED <<opVars, cache_buffer, is_writting, lifeVars, cfgVars, ready, wire, dataPhase>>

MsendPost(t) ==
    /\ Goto(t, "pushed", "idle")
    /\ ready' = Append(ready, H("SEND", TRUE))
    /\ UNCHANGED <<snapshot, accepted, write_mutex, opVars, bufVars, lifeVars,
                   cfgVars, wire, dataPhase>>

(* TcpConnection::sync_msend() calls mpush_sync(): append without the      *)
(* mutex, a blocking write of send_buffer, and its clear; when the write   *)
(* throws, the buffer stays as it is, also the part that has gone out.     *)
SyncBegin(t) ==
    /\ accepted + Cardinality(Begun) < MaxUnits
    /\ socket_status # "INIT"
    /\ Goto(t, "idle", "appending")
    /\ BeginAppend(t)
    /\ UNCHANGED <<accepted, write_mutex, opVars, bufVars, lifeVars, cfgVars,
                   ready, wire, dataPhase>>

SyncAppend(t) ==
    /\ Goto(t, "appending", "writing")
    /\ EndAppend(t)
    /\ UNCHANGED <<write_mutex, opVars, cache_buffer, is_writting, lifeVars,
                   cfgVars, ready, wire, dataPhase>>

(* Mutant: the buffer is cleared although the write failed.                *)
SyncWriteMutant(t) ==
    /\ tcp_sock \in {"closed", "down"}
    /\ Goto(t, "writing", "clearing")
    /\ UNCHANGED <<snapshot, accepted, write_mutex, opVars, bufVars, lifeVars,
                   cfgVars, ready, wire, dataPhase>>

SyncWrite(t) ==
    /\ \/ /\ tcp_sock \in {"connected", "down"}
          /\ Goto(t, "writing", "clearing")
          /\ wire' = wire \o send_buffer
          /\ UNCHANGED torn
       \/ /\ tcp_sock \in {"closed", "down"}
          /\ Goto(t, "writing", "idle")
          /\ UNCHANGED <<wire, torn>>
       \/ /\ tcp_sock = "down"
          /\ Goto(t, "writing", "idle")
          /\ \E n \in 1..Len(send_buffer) : wire' = wire \o Prefix(send_buffer, n)
          /\ torn' = TRUE
    /\ UNCHANGED <<snapshot, accepted, write_mutex, opVars, bufVars, lifeVars,
                   passive_mode, reconn_flag, connects, closes, ready, dataPhase>>

SyncClear(t) ==
    /\ Goto(t, "clearing", "idle")
    /\ send_buffer' = <<>>
    /\ UNCHANGED <<snapshot, accepted, write_mutex, opVars, cache_buffer, is_writting,
                   lifeVars, cfgVars, ready, wire, dataPhase>>

(* TcpConnection::close(force), from any thread.                           *)
Close(force) ==
    /\ closes < MaxCloses
    /\ socket_status # "INIT"
    /\ force => MayForce
    /\ closes' = closes + 1
    /\ reconn_flag' = (reconn_flag /\ ~force)
    /\ ready' = IF socket_status \in {"CLOSING", "CLOSED"}
                THEN ready ELSE Append(ready, H("CLOSE", TRUE))
    /\ UNCHANGED <<appVars, opVars, bufVars, lifeVars, passive_mode, connects, torn,
                   wire, dataPhase>>

Msend(t) == MsendCheck(t) \/ MsendLock(t) \/ MsendPush(t) \/ MsendPost(t)
SyncMsend(t) == SyncBegin(t) \/ SyncAppend(t) \/ SyncWrite(t) \/ SyncClear(t)

Next == \/ Worker
        \/ Kernel
        \/ PeerDown
        \/ \E t \in Senders : Msend(t)
        \/ \E t \in SyncSenders : SyncMsend(t)
        \/ \E force \in BOOLEAN : Close(force)

Spec == Init /\ [][Next]_vars

----------------------------------------------------------------------------
(* Properties.                                                             *)

TypeOK ==
    /\ socket_status \in Status
    /\ connection \in BOOLEAN /\ passive_mode \in BOOLEAN /\ reconn_flag \in BOOLEAN
    /\ send_buffer \in Seq(Nat) /\ cache_buffer \in Seq(Nat)
    /\ is_writting \in BOOLEAN
    /\ write_mutex \in Threads \cup {NoThread}
    /\ pc \in [Threads -> {"idle", "checked", "pushing", "pushed",
                           "appending", "writing", "clearing"}]
    /\ snapshot \in [Threads -> Seq(Nat)]
    /\ tcp_sock \in {"closed", "opening", "connected", "down"}
    /\ reads \in Nat /\ writes \in Seq(Seq(Nat)) /\ connecting \in Nat
    /\ ready \in Seq(Handler)
    /\ wire \in Seq(Nat)
    /\ accepted \in Nat /\ connects \in Nat /\ closes \in Nat /\ torn \in BOOLEAN
    /\ phase \in Phase /\ dataPhase \in Phase /\ discs \in Nat

Queued(k) == {i \in DOMAIN ready : ready[i].k = k}

(* A unit left in send_buffer always has somebody who will write it: an    *)
(* async_write that waits in the reactor or whose completion is posted     *)
(* (the completion takes the buffer), a posted do_send() lambda, or a      *)
(* sender that is about to post one.                                       *)
NoStrandedData ==
    connection /\ send_buffer # <<>> =>
        \/ writes # <<>> \/ Queued("WRITE") # {}
        \/ Queued("SEND") # {}
        \/ \E t \in Senders : pc[t] = "pushed"

(* is_writting says exactly whether an async_write is outstanding, and     *)
(* there is never more than one: two would interleave their units.         *)
OneWriter ==
    connection => Len(writes) + Cardinality(Queued("WRITE")) = IF is_writting THEN 1 ELSE 0

(* An open connection without reconnect has exactly one read outstanding:  *)
(* none and it would never see its peer close, two and packages would be   *)
(* split.                                                                  *)
OneReader ==
    socket_status = "OPEN" /\ ~reconn_flag => reads + Cardinality(Queued("READ")) = 1

(* What is left of the write in progress.                                  *)
Inflight == IF writes # <<>> THEN Head(writes)
            ELSE IF Queued("WRITE") # {} THEN ready[CHOOSE i \in Queued("WRITE") : TRUE].rem
            ELSE <<>>

(* While a connection lives, the units on the wire, in the write in        *)
(* progress and in send_buffer are together all the accepted units in      *)
(* order: no unit is lost, repeated or reordered on its way through the    *)
(* two buffers.                                                            *)
StreamIntact ==
    connection => wire \o Inflight \o send_buffer = [i \in 1..accepted |-> i]

(* On one socket's wire no unit is repeated or overtaken.  Without         *)
(* reconnect none is missing either; with it do_close() drops what waits   *)
(* in send_buffer and leaves the socket open for the units that follow.    *)
WireInOrder ==
    \A i \in DOMAIN wire : /\ i < Len(wire) => wire[i] < wire[i + 1]
                           /\ ~reconn_flag => wire[i] = i

(* No accepted unit disappears while its connection is open.               *)
Units(s) == {s[i] : i \in DOMAIN s}
NothingLost ==
    socket_status = "OPEN" =>
        1..accepted \subseteq Units(wire) \cup Units(Inflight) \cup Units(send_buffer)

(* handle_data is only called between EVT_CONNECT and EVT_DISCONNECT.      *)
DataOnlyWhileUp == dataPhase = "up"

(* A connection is released exactly when the socket drops it, and its user *)
(* saw EVT_DISCONNECT before EVT_RELEASE.                                  *)
ReleasedProperly ==
    /\ connection <=> phase # "released"
    /\ phase = "released" => discs > 0
    /\ ~Reconnect \/ passive_mode => discs = IF phase = "released" THEN 1 ELSE 0

(* After EVT_RELEASE no event, no data and no unit on the wire follows,    *)
(* whatever completions, posted lambdas and threads are still around.      *)
ReleasedIsFinal ==
    [][phase = "released" =>
         UNCHANGED <<phase, discs, dataPhase, wire, connection, tcp_sock>>]_vars

(* A connection that is up when close() was called ends in EVT_RELEASE.    *)
CloseReleases == (phase = "up" /\ closes > 0) ~> (phase = "released")

Promise == INSTANCE ConnectionSpec
=============================================================================
