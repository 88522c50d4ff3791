----------------------------- MODULE TcpFraming -----------------------------
(***************************************************************************)
(* How a TcpSocket cuts the bytes it receives into packages: do_read(),    *)
(* the completion of its async_read_some, and process_data() with its loop *)
(* over the connection's handle_package() (include/tcp/asio/               *)
(* tcp_socket.hpp).  The connection is not one that reconnects.            *)
(*                                                                         *)
(* The peer sends N messages, each a header of HeadSize bytes, of which    *)
(* the first LengthSize hold the length of the body, and the body.  A byte *)
(* is known by its position in the peer's stream, 1, 2, 3 ...; 0 is a byte *)
(* of read_buffer that was never written.                                  *)
(***************************************************************************)
EXTENDS Integers, Sequences

CONSTANTS kReadBufferSize,  \* bytes read_buffer takes
          HeadSize,         \* size of the header
          LengthSize,       \* size of its first field, the length of the body
          LengthWord,       \* values of that field, 2^32
          MaxLength,        \* bound: longest message of the peer, with header
          N,                \* bound: messages the peer sends
          Garbage           \* values a field made of other bytes may have

ASSUME FramingAssumption ==
    /\ kReadBufferSize \in Nat /\ HeadSize \in Nat \ {0}
    /\ HeadSize <= kReadBufferSize
    /\ LengthSize \in 1..HeadSize
    /\ MaxLength \in Nat /\ N \in Nat
    /\ LengthWord \in Nat /\ 2 * kReadBufferSize < LengthWord /\ 2 * MaxLength < LengthWord
    /\ Garbage \subseteq 0..(LengthWord - 1)

VARIABLES
    style,            \* which handle_package() the session has
    start,            \* message m is the bytes start[m] + 1 .. start[m + 1]
    arrived,          \* bytes read from the socket so far
    read_buffer,      \* TcpSocket::read_buffer
    read_buffer_pos,  \* TcpSocket::read_buffer_pos
    readPos,          \* the local variable of process_data()
    where,            \* where the worker is
    slices,           \* number of calls of handle_data
    slice,            \* the bytes of the last of them
    guessed           \* history: the loop used a length that had not arrived

stream == <<start, arrived>>
user == <<slices, slice>>
framingVars == <<style, stream, read_buffer, read_buffer_pos, readPos, where, user, guessed>>

BufferCells == 0..(kReadBufferSize - 1)
Length(m) == start[m + 1] - start[m]

Streams == {s \in [1..(N + 1) -> 0..(N * MaxLength)] :
              /\ s[1] = 0
              /\ \A m \in 1..N : s[m + 1] - s[m] \in HeadSize..MaxLength
              /\ \A m, k \in 1..(N + 1) : m < k => s[m] < s[k]}

FramingInit ==
  /\ style \in {"readme", "pipe"}
  /\ start \in Streams
  /\ arrived = 0
  /\ read_buffer = [c \in BufferCells |-> 0]
  /\ read_buffer_pos = 0 /\ readPos = 0
  /\ where = "reading"
  /\ slices = 0 /\ slice = <<>>
  /\ guessed = FALSE

(* The values the length field of a header at position p of read_buffer    *)
(* may have: that of message m when all the bytes of m's field are there,  *)
(* else anything.                                                          *)
HeaderOf(p, m) ==
    \A j \in 0..(LengthSize - 1) : p + j \in BufferCells /\ read_buffer[p + j] = start[m] + j + 1
Shown(p) ==
    IF \E m \in 1..N : HeaderOf(p, m)
    THEN {Length(m) - HeadSize : m \in {k \in 1..N : HeaderOf(p, k)}}
    ELSE Garbage

(* The conversion of a sum of unsigned numbers to int32_t.                 *)
Int32(x) == LET y == x % LengthWord IN IF 2 * y >= LengthWord THEN y - LengthWord ELSE y

(* handle_package(), of the session in README.md and of PipeConnection:    *)
(* both get len, the second also returns 0 for a package longer than len.  *)
handle_package(p, len) ==
    IF len < HeadSize THEN {0}
    ELSE IF style = "readme" THEN {Int32(l + HeadSize) : l \in Shown(p)}
    ELSE {IF l + HeadSize > len THEN 0 ELSE l + HeadSize : l \in Shown(p)}

(* Mutant: the read overwrites what is left of the last package.           *)
ReceiveMutant(n) ==
    /\ where = "reading"
    /\ n <= start[N + 1] - arrived
    /\ arrived' = arrived + n
    /\ read_buffer' = [c \in BufferCells |-> IF c < n THEN arrived + c + 1 ELSE read_buffer[c]]
    /\ read_buffer_pos' = read_buffer_pos + n
    /\ readPos' = 0 /\ where' = "process"
    /\ UNCHANGED <<style, start, user, guessed>>

(* async_read_some completes with n bytes and calls process_data(n).       *)
Receive(n) ==
    /\ where = "reading"
    /\ n <= start[N + 1] - arrived
    /\ arrived' = arrived + n
    /\ read_buffer' = [c \in BufferCells |->
                          IF read_buffer_pos <= c /\ c < read_buffer_pos + n
                          THEN arrived + (c - read_buffer_pos) + 1 ELSE read_buffer[c]]
    /\ read_buffer_pos' = read_buffer_pos + n
    /\ readPos' = 0 /\ where' = "process"
    /\ UNCHANGED <<style, start, user, guessed>>

InLoop == where \in {"process", "full"} /\ readPos < read_buffer_pos

(* process_data() passes read_buffer_pos as the length, not what is left   *)
(* after readPos: handle_package() then reads a length that has not come.  *)
Guesses == InLoop /\ read_buffer_pos >= HeadSize /\ read_buffer_pos - readPos < LengthSize

Takes(pkgLen) == pkgLen > 0 /\ pkgLen <= read_buffer_pos - readPos

(* One turn of the loop of process_data(): a whole package.                *)
Deliver ==
    /\ InLoop
    /\ \E pkgLen \in handle_package(readPos, read_buffer_pos) :
          /\ Takes(pkgLen)
          /\ slices' = slices + 1
          /\ slice' = [k \in 1..pkgLen |-> IF readPos + k - 1 \in BufferCells
                                           THEN read_buffer[readPos + k - 1] ELSE 0]
          /\ readPos' = readPos + pkgLen
    /\ guessed' = (guessed \/ Guesses)
    /\ UNCHANGED <<style, stream, read_buffer, read_buffer_pos, where>>

do_close == read_buffer_pos' = 0 /\ readPos' = 0 /\ where' = "closed"

TooLong(pkgLen) == pkgLen > kReadBufferSize

(* A package that can never fit closes the connection.                     *)
Oversize ==
    /\ InLoop
    /\ \E pkgLen \in handle_package(readPos, read_buffer_pos) :
          ~Takes(pkgLen) /\ TooLong(pkgLen)
    /\ do_close
    /\ guessed' = (guessed \/ Guesses)
    /\ UNCHANGED <<style, stream, read_buffer, user>>

(* Mutant: the loop ends after one package.                                *)
LoopEndsMutant == where \in {"process", "full"} /\ (readPos = read_buffer_pos \/ readPos > 0)
LoopEnds ==
    /\ where \in {"process", "full"}
    /\ \/ readPos = read_buffer_pos
       \/ \E pkgLen \in handle_package(readPos, read_buffer_pos) :
             ~Takes(pkgLen) /\ ~TooLong(pkgLen)

(* Mutant: what is left is not moved.                                      *)
MovedMutant(c) == read_buffer[c]
Moved(c) == IF c < read_buffer_pos - readPos THEN read_buffer[c + readPos] ELSE read_buffer[c]

(* The loop ends, the rest is moved to the front of the buffer and         *)
(* do_read() starts the next read; a full buffer is processed once more    *)
(* and then closes the connection.                                         *)
Finish ==
    /\ LoopEnds
    /\ read_buffer' = [c \in BufferCells |-> Moved(c)]
    /\ LET pos == read_buffer_pos - readPos IN
       IF pos < kReadBufferSize
       THEN /\ where' = IF where = "full" THEN "stalled" ELSE "reading"
            /\ read_buffer_pos' = pos /\ readPos' = 0
       ELSE IF where = "process"
       THEN /\ where' = "full"
            /\ read_buffer_pos' = pos /\ readPos' = 0
       ELSE do_close
    /\ guessed' = (guessed \/ Guesses)
    /\ UNCHANGED <<style, stream, user>>

FramingNext ==
  \/ \E n \in 1..(kReadBufferSize - read_buffer_pos) : Receive(n)
  \/ Deliver \/ Oversize \/ Finish

FramingSpec == FramingInit /\ [][FramingNext]_framingVars

----------------------------------------------------------------------------
(* Properties.                                                             *)

FramingTypeOK ==
    /\ style \in {"readme", "pipe"}
    /\ start \in Streams
    /\ arrived \in Nat /\ slices \in Nat
    /\ read_buffer \in [BufferCells -> Nat]
    /\ read_buffer_pos \in 0..kReadBufferSize
    /\ readPos \in 0..read_buffer_pos
    /\ where \in {"reading", "process", "full", "stalled", "closed"}
    /\ slice \in Seq(Nat)
    /\ guessed \in BOOLEAN

(* The lengths the loop went by had arrived, or did not matter: the        *)
(* handle_package() of PipeConnection compares them with len.              *)
Informed == style = "pipe" \/ ~guessed

(* The last call of handle_data got one whole message, the next in order.  *)
WholeMessage ==
    slices > 0 =>
        /\ slices <= N
        /\ slice = [k \in 1..Length(slices) |-> start[slices] + k]

(* read_buffer holds exactly the beginning of one message.                 *)
Rest ==
    where = "reading" =>
        /\ arrived = start[slices + 1] + read_buffer_pos
        /\ slices < N => read_buffer_pos < Length(slices + 1)

(* Every call of handle_data gets one whole message of the peer, in order, *)
(* however the bytes were divided into reads: with PipeConnection's        *)
(* handle_package(), and with that of README.md as long as the loop never  *)
(* went by a length of which a byte was missing.                           *)
OneWholeMessage == Informed => WholeMessage

(* While the socket waits for more bytes, read_buffer holds exactly the    *)
(* beginning of one message: no complete one is kept back.  The same       *)
(* exception.                                                              *)
NothingKeptBack == Informed => Rest

(* The session of README.md: its handle_data gets "one whole message,      *)
(* divided by handle_package" (README.md).  False: what is left of the     *)
(* buffer after a message may be less than the length field of the next,   *)
(* and process_data() gives the whole read_buffer_pos as its length.       *)
SampleSessionWhole == style = "readme" => WholeMessage

(* Only a message longer than read_buffer closes the connection: "packet   *)
(* size exceed the limit, so we close it" (tcp_socket.hpp).                *)
ClosedForItsSize == where = "closed" => slices < N /\ Length(slices + 1) > kReadBufferSize

(* The framing of PipeConnection closes a connection for nothing else,     *)
(* whatever is left in read_buffer behind the bytes that have arrived.     *)
OnlyOversizeCloses == style = "pipe" => ClosedForItsSize

(* With PipeConnection's handle_package(), every message in front of the   *)
(* first one that is too long is delivered.                                *)
AllDelivered ==
    style = "pipe" =>
        <>(slices = N \/ (slices < N /\ Length(slices + 1) > kReadBufferSize /\ where = "closed"))
=============================================================================
