# A TLA+ model of knet

knet (`src/`) is a header-only C++ network library on top of asio. Users write
sessions: subclasses of a connection class with handlers for events, packages
and data. A listener or a connector creates them, a worker runs them, and any
thread may send on them or close them.

This directory models the parts of knet in which the order of things matters,
checks them with TLC on small instances, and proves the most important safety
properties with TLAPS for every value of the constants.

Contents: [inventory](#inventory), [modules and code](#modules-and-code),
[runs](#runs), [fairness](#fairness), [proofs](#proofs),
[findings](#findings), [what is not modelled](#what-is-not-modelled),
[plan](#plan).

## Inventory

Paths are relative to `src/include`.

| component | state it keeps | operations | talks to |
|---|---|---|---|
| `KNetWorker` (`knet_worker.hpp`) | an `io_context`, its threads, timers, a user-event queue | `start`, `stop`, `post`, timers | runs everybody's handlers |
| `TcpSocket` (`tcp/asio/tcp_socket.hpp`) | `socket_status`, the asio socket, `send_buffer`, `cache_buffer`, `is_writting`, `read_buffer`, `read_buffer_pos`, a reference to its connection | `connect`, `init_read`, `msend`, `mpush_sync`, `do_async_write`, `do_read`, `process_data`, `close`, `do_close` | worker (posts), asio, its connection (events, packages, data) |
| `TcpConnection` (`tcp/asio/tcp_connection.hpp`) | `tcp_socket`, `passive_mode`, `reconn_flag`, the reconnect timer, its list of timers | `msend`, `sync_msend`, `close(force)`, `enable_reconnect`, `release`, `process_event` | socket, worker's timers, handlers of the session and of the factory |
| `TcpListener`, `TcpConnector` (`tcp/asio/`) | workers, an acceptor, the next worker | accept loop, `add_connection`, `stop` | create connections and post `init_conn` |
| `Timer` (`utils/timer.hpp`) | `timer_nodes`: `alive`, `skip`, `loop` and a `steady_timer` each | `start_timer`, `restart_timer`, `stop_timer`, `reset_interval`, `clear`, `handle_timeout` | any thread calls it, the worker runs it |
| `LoopBuffer` (`utils/loop_buffer.hpp`) | a ring of bytes, `head`, `tail`, `write_mutex`, a condition variable | `push`, `pop`, `read`, `commit`, `wait`, `notify` | producers and one consumer on different threads |
| Pipe (`pipe/`) | per factory `bind_pipes` and `unbind_pipes`, per session `pipe_id`, `ready_flag`, `connection`, per connection `pipeid`, `session` | handshake, `bind`, `unbind`, `send`, `attach` | a session outlives its TCP connections |
| `TlsSocket` (`tcp/asio/tls_socket.hpp`) | `TcpSocket`'s, and `ssl_shakehand` | the same, and a handshake in front of reading | as `TcpSocket` |
| ikcp (`kcp/ikcp.c`) | per end two queues and two windows of segments, the list of acks, the peer's window | `ikcp_send`, `ikcp_recv`, `ikcp_input`, `ikcp_update` | its KcpConnection |
| KCP wrapper (`kcp/*.hpp`) | `conn_status`, `cid`, the control block, the time of the last message; the listener's map | handshake, heartbeat, `send`, `disconnect`, `release` | ikcp, a UDP socket, timers |
| UDP (`udp/`) | one socket and a map of connections, or one socket each | receive loop, `broadcast`, `close`, idle timer | asio |
| HTTP parser and URLs (`http/http_parser.hpp`, `http/http_url.hpp`) | parser state, flags, lengths, marks into the buffer; the parts of a URL | `http_parser_execute`, `http_parser_parse_url`, `HttpUrl` | callbacks of the decoder |
| WebSocket (`websocket/`) | `is_websocket`, `m_status` | upgrade, frames | TcpConnection, HTTP parser |

What is hard in this code, and what it would mean for it to be right:

* **Sending.** Application threads append to `send_buffer` under a mutex and
  post a lambda; the worker swaps it with `cache_buffer` and has one
  `async_write` outstanding, which may be partial and may fail, and whose
  completion decides whether there is more to do. Right means: one write at a
  time, no unit lost, repeated or reordered, no unit left behind that nobody
  will write, and nothing kept for ever on an open connection.
* **Closing.** `close()` only posts; read errors, write errors, failed connects
  and a second `close()` all end in the same clean-up, while completions of
  cancelled operations are still queued. Right means: EVT_DISCONNECT once and
  before EVT_RELEASE, nothing afterwards, no data outside the connection's
  life, and `close()` always gets there.
* **Reconnecting.** A timer opens the same connection again on the same
  `TcpSocket` object. Right means: nothing of the old socket survives in
  the new one.
* **Framing.** A TCP read ends anywhere; `process_data()` loops over
  `handle_package()` on a fixed buffer. Right means: whole messages, in order,
  none kept back, and a connection closed only for a message that cannot fit.
* **Timers.** `handle_timeout()` reads and writes fields that other threads
  change. Right means: stop stops, an alive looping timer keeps its wait, one
  wait only.
* **The ring.** 32-bit counters wrap while producer and consumer copy. Right
  means: it is a bounded FIFO queue.
* **Pipes.** The two ends of a broken link notice it at different times, and
  the client is back before the server knows; the old and the new connection
  of a session belong to different workers, and the session has no lock. Right
  means: a session is bound to one open connection, an old one's disconnect does
  not unbind a new one, and the answer to a handshake is in front of the data.

* **Serving.** Accept loop, accept threads, several workers, `stop()` and the
  peer each act on their own. Right means: whoever connects is served and
  released, and nothing runs after `stop()`.
* **Datagrams.** Everything may be lost, repeated and reordered, and a late
  handshake replaces a control block. Right means: two ready ends are in one
  conversation, data is whole and in order until such a reset, and a peer that
  has gone is noticed.
* **Parsing.** A buffer ends anywhere, lengths come as digits. Right means: the
  same callbacks as for an uncut stream, and no message out of a wrong length.

`PROJECT.json` lists these and other hazards, each at its line, with the
property that would catch it going wrong or the reason there is none.

## Modules and code

| module | models | source |
|---|---|---|
| `TcpSocket` | one connection: TcpConnection, TcpSocket, its worker, asio and the peer, application threads | `tcp_socket.hpp`, `tcp_connection.hpp`, `init_conn` of `tcp_listener.hpp` |
| `TlsSocket` | the same with a handshake; extends `TcpSocket` | `tls_socket.hpp` |
| `ConnectionSpec` | what such a connection promises, without buffers or threads; `TcpSocket` implements it | |
| `TcpFraming` | `do_read`, `process_data`, `handle_package` byte by byte | `tcp_socket.hpp`, `pipe_connection.hpp` |
| `KNetWorker` | workers and their queues | `knet_worker.hpp` |
| `TcpListener`, `TcpConnector` | accept, workers, release, `stop()`; extend `KNetWorker` | `tcp_listener.hpp`, `tcp_connector.hpp` |
| `ClientServer` | both together with the kernel between them | |
| `Timer` | `Timer` | `timer.hpp` |
| `LoopBuffer` | the ring | `loop_buffer.hpp` |
| `ByteQueue` | a bounded FIFO; `LoopBuffer` implements it | |
| `Pipe` | the pipe handshake between a client and a server | `pipe/*.hpp` |
| `Ikcp` | two control blocks and a network | `ikcp.c` |
| `FifoChannel` | a reliable channel; `Ikcp` implements it | |
| `KcpSession` | two KcpConnections, the listener's map and a network | `kcp/*.hpp` |
| `Udp` | a UDP listener, connectors and a network | `udp/*.hpp` |
| `HttpParser` | `http_parser_execute` | `http_parser.hpp` |
| `HttpParserUrl`, `HttpUrl`, `Urls` | the two URL parsers, the builder, and texts to try them on | `http_parser.hpp`, `http_url.hpp` |
| `WebSocket` | the server's upgrade | `wsock_connection.hpp`, `wsock_factory.hpp` |
| `MC...` | instances for TLC | |
| `TcpStreamProofs`, `TcpFramingProofs`, `UtilsProofs`, `PipeProofs`, `ServerProofs`, `IkcpProofs`, `DatagramProofs`, `HttpProofs` | theorems | |

`PROJECT.json` maps every definition to its lines. Variables and operators keep
the names of the code (`is_writting` included). In front of some definitions
stands a mutated form of it, marked "Mutant", which no specification uses: it is
what a plausible bug would look like, and the property it is meant for must fail
with it in place.

### TcpSocket

`ready` is the queue of the `io_context`; the worker runs one handler at a time
and a handler is one action: `OnInit`, `OnConnect`, `OnRead`, `OnReadError`,
`OnSend`, `OnWrite`, `OnWriteError`, `OnClose`, `OnTimerConnect`, `OnTimerIdle`. Each includes
everything the handler calls (`do_close` with its events and the close of the
socket, `do_async_write` with the swap). asio and the kernel are `ReadReady`,
`WriteReady`, `ConnectReady`, `TimerReady` and `PeerDown`; closing the socket
turns every waiting operation into a queued completion with an error. A write
may be taken in part, in which case its continuation is queued, and a write on
a broken socket may succeed or fail.

Application threads take several steps: `MsendCheck` (`is_open()`), `MsendLock`,
`MsendPush`, `MsendPost`; `SyncBegin`, `SyncAppend`, `SyncWrite`, `SyncClear`.
Appending to `send_buffer` is two steps, a snapshot and a write-back, because
`do_close()` and `mpush_sync()` change the same `std::string` without the
mutex: a data race whose outcomes include the loss of either side's change.
`close()` may be called at any time once the application has the connection.

Data: a unit is what one call of `msend()` sends, numbered in the order of
appending. Messages a session sends from inside a handler are covered by the
application threads, which may act between any two handlers. An asynchronous
connect has one endpoint. "down" stands for FIN and RST alike. The blocking
write of `mpush_sync()` is one step; it may throw after any part of the buffer
went out, and the history variable `torn` records that one did after a part had
gone. At most one timer handler is queued.
Counters that would make the model infinite are bounded in the guards:
`MaxUnits`, `MaxConnects`, `MaxCloses`.

### TcpFraming

A byte is its position in the peer's stream, so that `memmove`, stale contents
of `read_buffer` and cuts in the wrong place show. A length field that lies
wholly in the buffer has the length of its message; one that is partly stale
may have the values in `Garbage`, any of the `LengthWord` (2^32) values the field can
hold. `Int32` is the conversion of the README's sum to `int32_t`. `style` chooses between the two
`handle_package()` of the repository, that of `PipeConnection` and that of the
sample session in `README.md`; they differ in what they return for a message
that has not arrived completely. The history variable `guessed` records that
the loop went by a length that had not arrived: the exception of
`OneWholeMessage` and `NothingKeptBack` for the README's session, and what
`framing_readme` shows. Actions: `Receive` (a read of any size),
`Deliver` and `Oversize` (one turn of the loop), `Finish` (the `memmove` and
the next read).

### Timer

`waits` counts the `async_wait` operations of a node's `steady_timer` and `due`
the expired ones whose handler is queued: these can no longer be cancelled.
Cancelled waits complete with an error that `handle_timeout()` ignores and just
disappear. `handle_timeout()` is three steps (the check of `alive`, the call of
the handler, the new wait) when `otherThread` holds; else calls come between
handlers or from inside the timer's own handler. `cancel()` followed by
`expires_after()` is one step.

### LoopBuffer

`Word` is the number of values of the counters, $2^{32}$ in the code and any
multiple of the buffer size here. `push` is the check, the copy and the
publication of `tail`; the consumer's `read` hands out a slice and `commit`
gives it back. `mutex` and `users` choose between a real mutex with several
producers and `NonMutex` with one. The atomics are sequentially consistent, as
in the code. `clear()` has no caller, and `mpush()` takes the non-recursive
`write_mutex` twice, so that it is used with `NonMutex` only, where it is a
sequence of pushes: neither has an action.

### Pipe

One client session, with or without a name, one server with or without a
session of that name. The client's connection is opened again after a break, and
every time the server sees a new connection, a link with FIFO channels in both
directions. Both ends notice a break on their own (`ClientDown`, `ServerDown`),
and a client connection that will reconnect may go on reading from its old
socket ("lingering") because `do_close()` leaves it open.

`KPipe::start()` gives the listener its default of one worker per processor, and
links are dealt out to the workers in turn, so the handlers of two links run at
the same time. `pc[k]` is the step at which link `k`'s handler stands: `checked`
between the look at `is_ready()` and `bind()`, `bound` between `bind()` and the
answer (`OnHandshake`, `Bind`, `ServerAnswer`; application threads can send in
between, and such messages are marked `early`), `down` between the end of
SOCKET_OPEN and the session's EVT_DISCONNECT, `told` between that and `unbind()`
(`ServerDown`, `ServerTold`, `ServerUnbind`). `overlapped` records that a link
was bound while the handler of another one was `checked`, or `down` or `told`
with the same session. From then on the code promises nothing: an old link's
`unbind()` may cut the new one, or two links may both think they have the
session. `BoundToOne` and `EventsInTurn` speak of the time before, and
`pipe_threads` shows the overlap. `pid_index++` is not atomic either, which is
why an unnamed client may get an id that another one has.

`Register` is the last line
of `attach(host, port)`, which may come long after the connection has been started. EVT_CONNECT
and the sending of the handshake are part of `Connect`. Heartbeats change no
binding and are left out.

### TlsSocket

`TlsSocket` repeats the code of `TcpSocket`, and the module repeats none of it:
it extends `TcpSocket`, takes its handlers for reading, writing, closing and
the timer, and replaces the way up. `init_read()` starts a handshake
(`shaking`), whose handler tells the connection and reads; `socket_status`
stays as it is, so that `msend()` is refused until a reconnect finds
`ssl_shakehand` set. A handler that finds its connection reset is the state
`crashed`, in which nothing more happens.

### KNetWorker, TcpListener, TcpConnector, ClientServer

A worker is a queue of tasks and a thread that takes them one by one; `Stop`
leaves the queue and ends the thread. A connection is seen from outside: at the
server it is accepted, up, ended, released (or refused), at the client
connecting, up, failed, ended, released. What happens inside it is `TcpSocket`.
The asynchronous accept loop is `do_accept`, `Completes` (the kernel),
`OnAccept` and `OnAcceptError`; an accept thread is `Choose`, `Advance` and
`SyncAccept`, because `worker_index++` is a read and a write. `stop()` of
either side takes several steps. A second `start()` is not modelled.

### Ikcp

Time is abstract: `ikcp_update(p, late, due)` flushes with any set of segments
whose retransmission time has come and with the probe timer expired or not.
`Word`, `FrgMod` and `WndMod` are the widths of sequence numbers, fragment
counts and windows. knet calls `ikcp_nodelay(kcp, 1, 10, 1, 1)`, which
switches the congestion window off: `cwnd` and `ssthresh` have no effect and are
left out, as are stream mode, `dead_link` (set, never read) and the functions
knet does not call. A fragment's payload is the message and its place.
`RecvBuf` is the reader's buffer: a message that does not fit stays in front of
`rcv_queue` (-3) and blocks all that follow. Reading is never forced, since
`KcpConnection` reads when a datagram comes that is no ack and may leave
messages behind; `AllArrive` therefore promises that messages get as far as a
reader can take them.

The network may hold a datagram back as long as it likes, and `ikcp.c` has only
`sn` to tell an old segment from a new one. A session is therefore
assumed to use at most half of the sequence numbers (`SessionAssumption`: with
2^32 numbers and windows of 128, sixteen million messages of the largest size).
Without it a copy of a segment that is 2^32 fragments old would be taken for a
new one. The session may start at any number, so wrapping is not excluded.

### KcpSession

Each end has `conn_status`, `cid`, a control block and the silence since
the last message; `net` holds datagrams as sets, so that order is never kept.
A control block is reduced to its conversation and to what it has sent,
received (`rcv_buf` ahead of its turn, `rcv_queue` what nobody has read) and
seen acknowledged. `do_receive` is the whole handler: map, time,
control message, ikcp. The receive loop of `handle_receive` does not run after
an ack and stops at a length; lengths are left out, so it may stop after any number
of messages (`read`), and acknowledged messages may stay behind. `receiving` is
lost with the first error or empty datagram. `last_msg_time` of the connector's
side is never set before the first datagram, so that side begins with
any silence, one that lies in the future (`Ahead`) included.
Three history variables name what the properties except: `resets` that
a handshake has replaced a control block, `asked` that a `broadcast()` made the
listener's side ask for a handshake before it had one (the requests cross with two
cids), `dropped` that a handshake datagram was lost, after which nothing but
the user's next `send()` asks again. `RestartListener` is a fault that only
`kcp_restart` includes.

### Udp

The listener's loop (`do_receive`, `OnReceiveError`), which ends at the first
error or empty datagram, whether the socket is open or not; its connections by
address, `broadcast` and `stop`, which always empties the map; the shared socket,
which `close()` of any of the listener's connections closes. A connector's
connection has a loop of its own, which ends in the same way (`sock` is then
"deaf": it sends and is never given anything), and the idle timer.

### HttpParser, HttpParserUrl, HttpUrl

The parser is the transition function `Turn` (one turn of the loop, `Execute` its
`switch`) over classes of characters (a word
that the code matches letter by letter is a first letter and a rest, so that
matching can be cut and can fail). `Feed` reads one of them, `EndBuffer` ends the
buffer, at any place, and `Eof` the stream. `on_headers_complete` may return any
of its four answers. History variables read the same text line by line
(`whole`, `line`, `said`, `body`), and the properties compare the two readings.
`MaxU` is `ULLONG_MAX`, small. A run of bytes that is matched with
`parser->index` is one or two lumps, and no buffer ends inside a lump; of the
callbacks only `on_headers_complete` may fail, and nobody calls
`http_parser_pause()`: all other callbacks that `http_decoder.hpp` registers
return 0, and nothing in the library pauses a parser.

The URL code is functions over sequences of character classes, an escape being
one class. Numbers have the code's width as a constant: `FieldWord` is the 2^16
at which `off` and `len` of a field wrap, `UintWord` the 2^32 at which `is_uint()`
does. `encode` shifts a `char` that may be negative and then reads in front of
its table of digits; what it writes for such a byte is any of `HighEscapes`.

### WebSocket

Of a request its length, its second byte and where its two headers end are
kept. A package is cut by `handle_package()` and parsed as a whole request.

## Runs

| run | question | bounds, and why they are enough |
|---|---|---|
| `tcp` | a connection in five usages: two senders (`StreamKept`, `NothingStranded`, `SendReachesWire`, `ImplementsConnectionSpec`), two closes (`ReleasedProperly`, `ReleasedIsFinal`, `CloseReleases`), `sync_msend()` with failing writes, reconnect (`ComesBack`), TLS (`UpIsRead`) | three units fill both buffers and the write in progress at once; two closes queue two lambdas; the third connect follows the break of a reopened socket; with `close()` two units, and with reconnect three only on the first socket, are enough for a gap and keep the run short |
| `server` | two connections over an accept loop, over two accept threads, and a stop of either side: `ListenerSound`, `PeersAreServed`, `BothEndsEnd`, `StopIsFinal` | two connections use two workers; one error of either kind; the scenes keep faults apart |
| `utils` | a ring of four cells, counters of 8 values, two producers, nine bytes (`RingIntact`, `ImplementsByteQueue`), and two timers with three calls (`StopStops`, `AliveIsArmed`, `KeepsTicking`), each by itself | counters wrap, a push of five never fits; a stop, a restart and a reset meet one timeout |
| `pipe` | two workers, two links, two messages (`BoundToOne`, `EventsInTurn`, `UnbindsAreOpen`, `AnswerComesFirst`, `HandshakeAnswered`), and, by itself, the framing of three messages of 3 to 7 bytes, buffer of 6, header of 3 with a length of 2, words of 16 values (`OneWholeMessage`, `NothingKeptBack`, `OnlyOversizeCloses`, `AllDelivered`) | a reconnect before and after the server has noticed the break, with the two links on one worker or on two; exact fit and one too many both occur, the first message leaves stale bytes for the second; the stale lengths give, with the header added, a length of 1, one in the middle, negative ones, and 7, too long |
| `ikcp` | two messages of two, three and five fragments (two fit the reader's buffer, three do not, five are refused), receive window four, sequence numbers mod 24 from 23, one loss or repetition: `WindowSound`, `ImplementsChannel`, `AllArrive` | numbers wrap in the first message, the window shuts and the announcement that opens it can be lost |
| `datagram` | two KCP ends while they open and end, and again with two messages, with one fault and two datagrams per direction; a UDP listener with two clients: `SameConversation`, `Delivered`, `OpeningEnds`, `PeerNoticed`, `EndIsFinal` | handshakes cross, are repeated and arrive after READY; two messages can overtake each other and be left in `rcv_queue`; a fault is enough for each exception, and more only repeat it |
| `http` | ten start lines, twelve header lines and five chunk lines in all combinations up to 24 header characters, and about 1.4 million URL texts and parser states: `CallbacksFaithful`, `MessageAsSaid`, `NothingAfterClose`, `UrlRoundTrip`, `UrlParsersAgree` | every state of the parser is entered, `max_header_size` and `MaxU` are exceeded, URLs are shorter than, as long as and longer than `FieldWord` = 9, ports reach `UintWord` = 100 |
| `tcp_close_dup`, `kcp_restart`, `ws_upgrade`, `pipe_threads`, `framing_readme` | expected violations, see [findings](#findings) | |

`MCTcp`, `MCServer`, `MCDatagram` and `MCHttp` choose one of several usages in
the initial state, and the usage never changes. Conjuncts of their next-state
relations over primed variables only leave actions out that are not part of the
usage. Deadlock is not checked (but in `ikcp`): a connection that is released, a
stream that is delivered and an application that makes no more calls are the
normal ends of these systems. "What waits for ever" is stated by the liveness
properties instead.

`HandshakeAnswered` has an exception that deserves a reader's attention: a client that
reconnects before the server has seen the old link break is *not* answered
(`pipe_factory.hpp:121`), and nothing retries. No document promises otherwise,
so this is a hazard and not a finding.

## Fairness

* The worker runs what is ready (weak fairness of `Worker`); asio's queue is
  first in, first out.
* The kernel completes what it can: reads of a broken socket, writes as long as
  the peer reads, connects, timers. Weak fairness of each.
* A thread that is inside `msend()` returns. The lock needs strong fairness,
  since `write_mutex` is taken and released by others in between.
* A reconnect timer that fires again and again succeeds in resolving its
  address at some time (strong fairness of `OnTimerConnect`). Its success or failure
  to *connect* stays open.
* `Timer`: expiry of each timer, and no timeout is passed over for ever.
* `Pipe`: all workers handle what has arrived and finish the handler they have
  begun, and an end that the other end has left notices it. Nobody has to
  connect, send or break.
* `server`: every worker that lives takes its next task, every accept thread
  goes on while there is something to accept, the kernel completes an accept
  when a connection waits and answers every connect and close. No accept error
  has to happen, and nobody has to stop.
* `Ikcp`: `ikcp_update` is called from a timer for ever and with all timers expired now
  and then, and the oldest datagram arrives unless it
  is lost; losses are bounded, the retransmissions are not. Nobody has to read.
* `KcpSession`: heartbeat timers fire and handshakes that are not lost arrive.
* `Udp`: the receive loop takes what has arrived, and a closed socket completes
  its last receive with an error.

No fairness is assumed of application calls, of `close()`, of breaks
or of the peer's going away.

## Proofs

TLAPS checks these for every number of threads, units, connects, closes,
timers, calls, messages, sizes, workers, datagrams, faults and links that the
assumptions of the modules allow. The assumptions name what the code fixes:
sets of threads, producers and senders are finite and disjoint; the range of the ring's
counters is a multiple of its size; the
connector's worker is not one of the listener's; cids are not 0; `rcv_wnd` fits
the fields that carry windows and fragment counts, and a KCP session uses at most half
of the sequence numbers; `ULLONG_MAX` is more than 1. The texts that peers of the
HTTP parser send are arbitrary.

| theorem | states | argument |
|---|---|---|
| `TcpStreamProofs!TypeCorrect` | `TypeOK` | inductive as it stands; the work is in the results of `StartWrite` and of `CloseSock` |
| `ReleasedProperlyAlways` | `ReleasedProperly` | not inductive: a second `OnClose` or a late completion must be known to find no connection, and a reconnect must be known impossible. `ReleaseInv` adds when `reconn_flag` and the status RECONNECT can occur and that a released connection has a closed socket |
| `ReleasedIsFinalAlways` | `ReleasedIsFinal` | every action, in a released state of `ReleaseInv`, leaves events, data and wire alone |
| `StreamIsFaithful` | `StreamKept`, with at most one synchronous sender | `Flow`, `Buffers`, `SyncFlow`, `Ordered`, see below |
| `OpenIsRead` | `UpIsRead` | `Chain` and `Shaken`, see below |
| `NothingIsStranded` | `NothingStranded` | `Attended`: whoever has units has `is_writting`, a lambda or a sender about to post, in every usage; and `Writing`: without reconnect `is_writting` means that a write waits or that its completion is queued |
| `ImplementsConnection` | `ImplementsConnectionSpec` | step simulation: `Chain` and `Unsent` order the phases, `Flow` gives the units of a transmission, `Bounded` counts the threads that are about to append |
| `TcpFramingProofs!WholeMessagesAlways`, `NothingKeptBackAlways`, `OnlyOversizeClosesAlways` | `OneWholeMessage`, `NothingKeptBack`, `OnlyOversizeCloses` | `FrameInv`: unless the loop guessed, `Framed`, with `Aligned` (`read_buffer` holds the consecutive bytes from the start of the next message, up to `arrived`) and `Counted` (what was delivered and what is buffered add up) |
| `UtilsProofs!TimerTypeCorrect`, `StopStopsAlways`, `AliveIsArmedAlways` | `TimerTypeOK`, `StopStops`, `AliveIsArmed` | `StopInv`: a stopped timer is dead, at most one `handle_timeout()` is past the check, and on one thread none is |
| `RingIsIntact` | `RingIntact` | `RingInv`, see below |
| `RingRefinesQueue` | `ImplementsByteQueue` | with the same invariant, moving `tail` is a `Put` of the whole push and moving `head` a `Take` |
| `PipeProofs!PipeTypeCorrect` | `TypeOK` | with `HasLink`, that a client that reads has a link |
| `BoundToOneAlways`, `EventsInTurnAlways`, `UnbindsAreOpenAlways` | `BoundToOne`, `EventsInTurn`, `UnbindsAreOpen` | `BindInv`: `ShapeInv`, where a handler can stand given its connection, always; and `CalmInv` until two workers overlap: one link holds the session from its bind to its unbind, and a handler that has found it not ready finds it unbound. With `Fresh` for links not yet made and `NameInv`: only a client with a name is ever bound to the attached session, so a challenge cannot replace its session |
| `OneWorkerIsSerial` | `~overlapped`, with one worker | one worker is inside one handler at a time |
| `AnswerComesFirstAlways` | `AnswerComesFirst` | `AnswerInv`: while the client has no session, every link that was answered still carries its answer in front of all messages that are not early |
| `ServerProofs!ListenerIsSound`, `StoppedStaysQuiet` | `ListenerSound`, `StopIsFinal` | `ServerInv`, see below |
| `IkcpProofs!WindowSoundTheorem` | `WindowSound` | `Sound`, see below; `NothingLost` is its part `Covered`, and `NeverWedged` needs the boundaries of the messages |
| `KcpIsChannel` | `ImplementsChannel` | step simulation with the same invariant: a successful `ikcp_send` is `Accept`, a successful `ikcp_recv` is `Hand`, everything else stutters |
| `DatagramProofs!OneConversation` | `SameConversation` | `KcpInv` and `~asked => Conversation`, see below |
| `DeliveredFaithfully`, `EndStaysFinal` | `Delivered`, `EndIsFinal` | `KcpInv` and `UdpInv` |
| `HttpProofs!CallbacksFaithfulAlways` | `CallbacksFaithful` | `Inv`, see below |

**TcpStreamProofs.** `Moves` is the next-state relation of `MCTcp` with the
common steps of TCP and TLS taken together; lemma `Cases` shows that every step
is one of them. The invariant `StreamInv` has these parts.

* `Used`: what a usage rules out (no CLOSE handler before a `close()`, no
  reconnect flag but in two usages, idle threads).
* `Chain`: without reconnect, the life of a connection is one chain. Exactly
  one of INIT, CONNECT, SHAKE and READ is queued or outstanding, and the phase
  says which; this is what keeps a completion of a cancelled operation from
  starting a second read. It is why `UpIsRead` holds.
* `Unsent`, `Shaken`: before the connection is open (over TLS, before a
  handshake has succeeded) nothing was accepted, queued or written.
* `Buffers`: `send_buffer`, and what a thread in `msend()` is about to write
  back to it, are the last units accepted.
* `Flow`: there are a number *l* and a rest *r* such that the wire holds nothing
  after *l*, *r* is what is left of the only write and follows *l*, and
  `send_buffer` comes after *r*. Without reconnect the three leave no gap. The rest
  may be in the reactor, or in a queued completion, or nowhere, and the write
  error that leaves `is_writting` set on a connection to be reopened is the
  exception that makes `Flow` inductive.
* `SyncFlow`, `Ordered`: the same for the synchronous sender, whose
  `send_buffer` is on the wire and not yet cleared at one place. `Written` says
  that the wire has all units up to a number, each once unless a write was torn, and
  `Buffered` that the buffer has the rest. Two such
  senders do lose units, so that the theorem assumes one (`Single`).

The proof corrected the model's claim: `WireInOrder` used to say that a
socket's wire has no gap whenever nobody has called `close()`. With reconnect that is
wrong, and the case needs three units: `do_close()` empties `send_buffer` and leaves the socket
open, the write in progress goes on, and a thread that had passed `is_open()`
appends a unit that follows behind the gap. `WireInOrder` now asks for an
increasing wire in general and for one without gaps when there is no reconnect.

**UtilsProofs.** The counters of the ring are taken modulo `Word`, so `head` and `tail`
alone do not tell how much was ever pushed. `Counters` ties them to the history
(`head` is what was taken modulo `Word`, `tail` what was accepted), `Stored` says
where each unread byte lies, `Room`, `CopyDone` and `Active` describe a push that has
begun (which cells it owns, how many it has copied), `Exclusive` the mutex,
`Reader`, `Seen` and `Waited` the stale values that the consumer and a waiting
producer hold.

**ServerProofs.** `Shape` is the types, `Queued` says which handlers a worker
can be given (accept handlers are on the listen worker alone, those of the
client's connections on the client's), `Loop` that the accept loop is one token
(a pending accept, a queued completion, or given up), and `Quiet` follows
`stop()` phase by phase: at its end no worker is alive that could run what is
still queued.

**IkcpProofs.** No variable says how many fragments were ever sent, and the
numbers wrap, so the windows alone are not inductive. `Sound` says that there are
a first number *b*, for each direction the log *F* of all fragments ever accepted,
and the places *E* where messages end in it, such that `IInv(b, F, E)` holds.
Every number is then read as its distance from *b* (`At`). The parts are:

* `LogOK`, `BoundOK`: *F* is the messages of `sent`, cut by `Fragments`, each of
  fewer than `rcv_wnd` pieces;
* `ReadOK`: what `ikcp_recv` has returned is the first of these messages, whole;
* `SenderOK`: `snd_queue` is the end of *F* that has no number yet, and `snd_buf` holds
  fragments of *F* under their right numbers;
* `ReceiverOK`: `rcv_queue` continues what was read up to `rcv_nxt` (`QueueOK`),
  `rcv_buf` lies in the window, in order, without repetition (`BufferOK`), and
  `acklist` names only what has arrived (`AcksOK`);
* `Covered`: each number from `rcv_nxt` to `snd_nxt` is in `snd_buf` or in
  `rcv_buf`, which is what a premature or misdirected ack would break;
* `NetOK`: of each segment on its way, its `una` is not beyond the `rcv_nxt` of its
  sender, its data is that of *F*, and its ack is of something its sender has.

A segment may arrive at any later time, or twice, so that all it says must stay
true: `Grows` lists what only ever grows in a control block, and every operation
is shown to respect it. Counts are ordered (read, `rcv_nxt`, `snd_nxt`, length of
*F*), and `SessionAssumption` then makes `Diff`, the signed difference of two
numbers, the true distance. The loops of `ikcp_input` and `ikcp_flush` are recursive
functions over lengths (`Input`, `Pushes`); what they do is shown with
`SetInduction`, which is derived from the well-foundedness of the naturals.

**DatagramProofs.** `Conversation` says which conversation numbers may be in the
network: everything is the connector's cid once the listener's side has begun, and
what is not can only reach a connector that is leaving. `KcpInv` has `Life`
(which events have been raised in which status) and `Streams`: as long as
no control block was replaced, the windows of the two ends, `rcv_buf`,
`rcv_queue`, the segments under way and what was handed over are cuts of one
sequence, and an acknowledgement counts no more than its sender has received
(`Below`: a side that was released has nothing to be compared with, and
one that is not yet ready has acknowledged nothing). `UdpInv` only says who was told
of the end. Once S has asked by itself two ends can part for good, and so they can after a
restart of the listener (finding 2).

**HttpProofs.** What a turn does to the marks and to the observers is a list of
effects, applied by `Heard`, a recursive function over the length of the list;
that one more effect is one more `Apply` is shown with `SetInduction`. `Inv` is
about the parser between two characters and has five parts: `IsParser` (its
shape and types), `Basic` (all pieces added up so far, no callback out of
order), `LastOK` (which callback can have come last, by state), `View` (which
element has begun, by state: none, one that is marked, or a body of an earlier
buffer, which alone is not marked again on entry) and `NumbersOK` (what the
assertions need of flags, lengths, `nread` and the state of the header, and that
`F_TRAILING` is not set before the headers are complete: lines of the head and of
the trailer are read in the same states, and only this flag tells whether
`headers_complete` is still to come). Each arm of the `switch` has a lemma (`...Post`)
from a parser that is well so far to one that is well after the character;
`ExecutePost` and `TurnPost` put them together. The proof led to a correction of
the model: `ChunkSize` and `HeaderValueByte` were `CASE` expressions with
arms that overlap, where TLA+ leaves the choice open and TLC takes the first; they now
decide in the order of the code.

Only model-checked:

* all liveness properties (`SendReachesWire`, `CloseReleases`, `ComesBack`,
  `AllDelivered`, `PeersAreServed`, `BothEndsEnd`, `KeepsTicking`,
  `HandshakeAnswered`, `AllArrive`, `OpeningEnds`, `PeerNoticed`): liveness under fairness is
  beyond the proof system;
* `MessageAsSaid`, `UrlRoundTrip`, `UrlParsersAgree`, `NothingAfterClose`: they compare
  the code with a second reading of the text, made with folds over lines and
  URLs; what a fold computes for every text is induction over data.

## Findings

1. **`close()` can send units twice** (`tcp_socket.hpp:424`, run `tcp_close_dup`).
   The "last write" starts a second `async_write` of the same `cache_buffer`
   while the first is outstanding; the buffered units it was meant for are lost.
2. **A restarted KCP listener and its old client never talk again**
   (`kcp_connection.hpp:418`, run `kcp_restart`). The request for the lost cid
   is answered, but neither side ever takes the other's cid over, since its own
   is never 0: both are ready, with different conversations, and the heartbeats
   keep the link up.
3. **The WebSocket server refuses correct requests** (`wsock_connection.hpp:245`,
   run `ws_upgrade`). `handle_package()` takes the `E` of `GET` for a frame
   length, and the factory answers 404 or 400 to the first 71 bytes.
4. **A pipe session is called on two threads** (`pipe_factory.hpp:128`, run
   `pipe_threads`). "all net events will be called in the same thread"
   (README.md:132) holds for a connection; the old and the new connection of one
   session are on different workers and bind, unbind and report to it without a
   lock.
5. **The README's session gets slices that are no messages**
   (`tcp_socket.hpp:391`, run `framing_readme`). `process_data()` passes the
   length of the buffer and not what is left of it, so the sample
   `handle_package()` reads a length that has not arrived and returns it as an
   `int32_t`: a false package, or one too long, which closes the connection.

Three more are known to the model and kept out of the properties' way; they are
hazards in `PROJECT.json`. A write error leaves `is_writting` set, so that a
connection that reconnects never writes again (`tcp_socket.hpp:367`):
`SendReachesWire` and
`NothingStranded` are stated without reconnect. Units that are accepted while a
broken connection waits for its reconnect go out on the old socket, behind
those that `do_close()` has dropped (`tcp_socket.hpp:463`): `WireInOrder` allows a gap there. `msend()` and `sync_msend()` on
one connection lose data (`tcp_socket.hpp:253`): the "sync" usage has no
`msend()` thread.

What the properties of the URLs leave out because it does not hold or is not
defined: escapes in user info; the default port of https; the all-zero IPv6
address, which `normalize_IPv6` writes as ":"; a path, query or fragment with a
decoded byte of 0x80 or more (`http_url.hpp:421`), where `UrlRoundTrip` says only
that the other parts are still the same; a URL of 2^16 characters or more, which
fits the 80 KB of a header and whose field offsets wrap (`http_parser.hpp:3103`),
where `UrlParsersAgree` says only that the fields lie in the text; a literal that is
no IPv6 address, which `parse_url()` gives to `normalize_IPv6` unchecked, whose
arrays of 10 and 8 it can leave (`http_url.hpp:226`). A port of 2^32 + 1 passes
`is_port()`; since `HttpUrl` keeps the text of the port, the two properties
hold for it.

## What is not modelled

* `start()` of a listener after `stop()` or after a failed bind, and several
  threads on one `io_context` (the library starts one per worker).
* `msend()` of the KCP wrapper through its `LoopBuffer`; multicast over UDP;
  `KcpListener::stop()`, which only closes the socket.
* Unlocked access to one KCP connection: `send()` calls `ikcp_send` on the
  caller's thread while the worker runs timers and handlers. In the model each is one step.
* Steps that dereference a null pointer: `release()` resets `kcp_sock`, and the
  handler of a receive that had already completed calls `do_receive()`, which
  uses it (`kcp_connection.hpp:459`); `close()` inside `handle_data()` of a UDP
  connection resets `udp_socket` before `do_receive()` (`udp_connection.hpp:326`).
  In the model a completion and its handler are one step, and a handler ends
  before the user closes.
* WebSocket frames, the client's side of the upgrade, and the TLS copy of it:
  `wsock_protocol.hpp` keeps no state between packages, and most of it is bytes.
* HTTP connections, requests, responses and routing: every buffer is parsed by
  itself, and the rest is formatting.
* URLs of `utils/knet_url.hpp`, logging, the singleton: no protocol state.
* With reconnect, `OneReader` and `DataOnlyWhileUp` do not hold (the old
  socket keeps its read); nothing in the repository says they should, so they
  are checked without reconnect only.
* `sync_send` and `sync_sendv`, which write straight to the socket; socket options and addresses.
* Memory orders weaker than sequential consistency.

## Plan

1. `NothingAfterClose` of `HttpParser` stated on `parser.flags` alone, without the
   second reading of the headers, so that `Inv` of `HttpProofs` can carry it.
2. Which units a connection with reconnect may lose: `WireInOrder` allows gaps
   there, and a sharper statement would say that only units dropped by `do_close()` are missing.
