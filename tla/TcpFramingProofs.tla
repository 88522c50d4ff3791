-------------------------- MODULE TcpFramingProofs --------------------------
(***************************************************************************)
(* For every size of read_buffer, of the header and of its length field,   *)
(* every stream of the peer, every division of it into reads and every     *)
(* value a half-received length may have: as long as the loop does not go  *)
(* by such a length, handle_data gets whole messages, in order, and        *)
(* nothing complete is kept back; the handle_package() of PipeConnection   *)
(* never lets it, and closes a connection only for a message that cannot   *)
(* fit.                                                                    *)
(***************************************************************************)
EXTENDS TcpFraming, SequenceTheorems, TLAPS

LEMMA FunctionIsSeq ==
  ASSUME NEW S, NEW n \in Nat, NEW f \in [1..n -> S]
  PROVE  f \in Seq(S)
  BY SeqDef, Zenon

(* A remainder and a sum that did not wrap.                                *)
LEMMA DivMod ==
  ASSUME NEW a \in Int, NEW n \in Nat \ {0}
  PROVE  \E d \in Int, t \in 0..(n - 1) : n * d \in Int /\ a = n * d + t /\ t = a % n
<1>1. a \div n \in Int /\ a % n \in 0..(n - 1) /\ a = n * (a \div n) + (a % n)
  OBVIOUS
<1>2. n * (a \div n) \in Int
  BY <1>1
<1>3. QED
  BY <1>1, <1>2

LEMMA Multiples ==
  ASSUME NEW n \in Nat \ {0}, NEW d \in Int, n * d < n, n * d > 0 - n
  PROVE  n * d = 0
<1>1. d >= 1 => n * d >= n
  OBVIOUS
<1>2. d <= 0 - 1 => n * d <= 0 - n
  OBVIOUS
<1>3. d = 0 => n * d = 0
  OBVIOUS
<1>4. QED
  BY <1>1, <1>2, <1>3

LEMMA ModSmall ==
  ASSUME NEW n \in Nat \ {0}, NEW a \in 0..(n - 1)
  PROVE  a % n = a
<1>1. PICK d \in Int, t \in 0..(n - 1) : n * d \in Int /\ a = n * d + t /\ t = a % n
  BY DivMod
<1>2. n * d < n /\ n * d > 0 - n
  BY <1>1
<1>3. n * d = 0
  BY <1>2, Multiples
<1>4. QED
  BY <1>1, <1>3

LEMMA Int32Small ==
  ASSUME NEW x \in Nat, 2 * x < LengthWord
  PROVE  Int32(x) = x
<1>1. x % LengthWord = x
  BY FramingAssumption, ModSmall
<1>2. QED
  BY <1>1, FramingAssumption DEF Int32

(* The strengthening: the unprocessed part of read_buffer is the           *)
(* beginning of the next message, and it starts at readPos.                *)
Aligned ==
    where # "closed" =>
        /\ arrived = start[slices + 1] + (read_buffer_pos - readPos)
        /\ \A c \in BufferCells : readPos <= c /\ c < read_buffer_pos =>
              read_buffer[c] = start[slices + 1] + (c - readPos) + 1

Counted ==
    /\ slices \in 0..N
    /\ arrived <= start[N + 1]

Framed ==
    /\ FramingTypeOK
    /\ Counted
    /\ Aligned
    /\ WholeMessage
    /\ Rest
    /\ OnlyOversizeCloses

LEMMA FrameInit == FramingInit => Framed
<1> SUFFICES ASSUME FramingInit PROVE Framed
  OBVIOUS
<1> USE FramingAssumption DEF FramingInit
<1>1. start \in [1..(N + 1) -> 0..(N * MaxLength)] /\ start[1] = 0
  BY DEF Streams
<1>2. start[N + 1] >= 0
  BY <1>1
<1>3. N > 0 => Length(1) > 0
  BY DEF Streams, Length
<1>4. FramingTypeOK
  <2>1. guessed \in BOOLEAN
    BY Zenon
  <2>2. QED
    BY <2>1 DEF FramingTypeOK, BufferCells
<1>5. QED
  BY <1>1, <1>2, <1>3, <1>4
     DEF Framed, Counted, Aligned, WholeMessage, Rest,
         OnlyOversizeCloses, ClosedForItsSize

(* What process_data() learns from handle_package() in one turn of its     *)
(* loop: a package it takes is the next message, one it waits for is       *)
(* longer than what is there.                                              *)
LEMMA NextLength ==
  ASSUME Framed, InLoop, style = "pipe" \/ ~Guesses,
         NEW pkgLen \in handle_package(readPos, read_buffer_pos)
  PROVE  /\ pkgLen \in Nat
         /\ slices < N
         /\ Takes(pkgLen) => pkgLen = Length(slices + 1)
         /\ ~Takes(pkgLen) /\ ~TooLong(pkgLen) => Length(slices + 1) > read_buffer_pos - readPos
         /\ style = "pipe" => ~TooLong(pkgLen)
<1> USE FramingAssumption
<1> DEFINE m == slices + 1
           left == read_buffer_pos - readPos
<1>1. /\ start \in [1..(N + 1) -> Nat]
      /\ \A j, k \in 1..(N + 1) : j < k => start[j] < start[k]
      /\ \A j \in 1..N : Length(j) \in HeadSize..MaxLength
  <2>1. start \in Streams
    BY DEF Framed, FramingTypeOK
  <2>2. start \in [1..(N + 1) -> 0..(N * MaxLength)]
    BY <2>1 DEF Streams
  <2>3. start \in [1..(N + 1) -> Nat]
    BY <2>2
  <2>4. \A j \in 1..N : start[j + 1] - start[j] \in HeadSize..MaxLength
    BY <2>1 DEF Streams
  <2>5. \A j \in 1..N : Length(j) \in HeadSize..MaxLength
    BY <2>4 DEF Length
  <2>6. QED
    BY <2>1, <2>3, <2>5 DEF Streams
<1>2. /\ slices \in 0..N /\ arrived \in Nat /\ arrived <= start[N + 1]
      /\ readPos \in Nat /\ read_buffer_pos \in Nat
      /\ readPos < read_buffer_pos /\ read_buffer_pos <= kReadBufferSize
      /\ where # "closed" /\ style \in {"readme", "pipe"}
  BY DEF Framed, FramingTypeOK, Counted, InLoop
<1>3. /\ arrived = start[m] + left
      /\ \A c \in BufferCells : readPos <= c /\ c < read_buffer_pos =>
            read_buffer[c] = start[m] + (c - readPos) + 1
  BY <1>2 DEF Framed, Aligned
<1>4. m \in 1..N
  <2>1. m # N + 1
    BY <1>1, <1>2, <1>3
  <2>2. QED
    BY <1>2, <2>1
<1>5. ASSUME NEW k \in 1..N, HeaderOf(readPos, k)
      PROVE  k = m
  <2>1. readPos \in BufferCells /\ read_buffer[readPos] = start[k] + 1
    <3>1. 0 \in 0..(LengthSize - 1)
      OBVIOUS
    <3>2. readPos + 0 \in BufferCells /\ read_buffer[readPos + 0] = start[k] + 0 + 1
      BY <1>5, <3>1 DEF HeaderOf
    <3>3. QED
      BY <3>2, <1>1, <1>2
  <2>2. read_buffer[readPos] = start[m] + 1
    BY <2>1, <1>1, <1>2, <1>3, <1>4
  <2>3. start[k] = start[m]
    BY <2>1, <2>2, <1>1, <1>4
  <2>4. k \in 1..(N + 1) /\ m \in 1..(N + 1) /\ k \in Int /\ m \in Int /\ start[m] \in Int
    BY <1>1, <1>4
  <2>5. ~(k < m) /\ ~(m < k)
    BY <2>3, <2>4, <1>1
  <2>6. QED
    BY <2>4, <2>5
<1>6. ASSUME NEW l \in Shown(readPos)
      PROVE  /\ l \in Nat
             /\ left >= LengthSize => l + HeadSize = Length(m)
  <2>1. CASE \E k \in 1..N : HeaderOf(readPos, k)
    <3>1. PICK k \in 1..N : HeaderOf(readPos, k) /\ l = Length(k) - HeadSize
      BY <1>6, <2>1 DEF Shown
    <3>2. QED
      BY <3>1, <1>5, <1>1, <1>4
  <2>2. CASE ~(\E k \in 1..N : HeaderOf(readPos, k))
    <3>1. l \in Garbage
      BY <1>6, <2>2 DEF Shown
    <3>2. ~(left >= LengthSize)
      <4>1. SUFFICES ASSUME left >= LengthSize PROVE HeaderOf(readPos, m)
        BY <2>2, <1>4
      <4>2. SUFFICES ASSUME NEW j \in 0..(LengthSize - 1)
                     PROVE  readPos + j \in BufferCells /\ read_buffer[readPos + j] = start[m] + j + 1
        BY DEF HeaderOf
      <4>3. readPos + j \in BufferCells /\ readPos <= readPos + j /\ readPos + j < read_buffer_pos
        BY <4>1, <1>2 DEF BufferCells
      <4>4. read_buffer[readPos + j] = start[m] + ((readPos + j) - readPos) + 1
        BY <4>3, <1>3
      <4>5. QED
        BY <4>3, <4>4, <1>2, <1>1, <1>4
    <3>3. QED
      BY <3>1, <3>2
  <2>3. QED
    BY <2>1, <2>2
<1>7. Length(m) \in Nat /\ Length(m) >= HeadSize /\ Length(m) <= MaxLength /\ left \in Nat
  BY <1>1, <1>2, <1>4
<1>8. CASE read_buffer_pos < HeadSize
  <2>1. pkgLen = 0
    BY <1>8 DEF handle_package
  <2>2. QED
    BY <2>1, <1>2, <1>4, <1>7, <1>8 DEF Takes, TooLong
<1>9. CASE read_buffer_pos >= HeadSize /\ style = "readme"
  <2>1. PICK l \in Shown(readPos) : pkgLen = Int32(l + HeadSize)
    BY <1>9, <1>2 DEF handle_package
  <2>2. left >= LengthSize
    BY <1>2, <1>9 DEF Guesses
  <2>3. l + HeadSize = Length(m)
    BY <1>6, <2>2
  <2>4. pkgLen = Length(m)
    BY <2>1, <2>3, <1>7, Int32Small
  <2>5. QED
    BY <2>4, <1>2, <1>4, <1>7, <1>9 DEF Takes, TooLong
<1>10. CASE read_buffer_pos >= HeadSize /\ style = "pipe"
  <2>1. PICK l \in Shown(readPos) : pkgLen = IF l + HeadSize > read_buffer_pos THEN 0 ELSE l + HeadSize
    BY <1>10, <1>2 DEF handle_package
  <2>2. l \in Nat /\ (left >= LengthSize => l + HeadSize = Length(m))
    BY <1>6
  <2>3. QED
    BY <2>1, <2>2, <1>2, <1>4, <1>7, <1>10 DEF Takes, TooLong
<1>11. QED
  BY <1>2, <1>8, <1>9, <1>10

(* The types of what the steps below compute with.                         *)
Types ==
    /\ start \in [1..(N + 1) -> Nat]
    /\ slices \in 0..N /\ slices + 1 \in 1..(N + 1)
    /\ arrived \in Nat
    /\ read_buffer \in [BufferCells -> Nat]
    /\ read_buffer_pos \in 0..kReadBufferSize /\ readPos \in 0..read_buffer_pos
    /\ \A m \in 1..N : Length(m) \in Nat /\ Length(m) > 0
                       /\ start[m + 1] = start[m] + Length(m)

LEMMA FrameTypes == ASSUME Framed PROVE Types
<1> USE FramingAssumption
<1>1. start \in Streams
  BY DEF Framed, FramingTypeOK
<1>2. start \in [1..(N + 1) -> 0..(N * MaxLength)]
  BY <1>1 DEF Streams
<1>3. start \in [1..(N + 1) -> Nat]
  BY <1>2
<1>4. \A m \in 1..N : start[m + 1] - start[m] \in HeadSize..MaxLength
  BY <1>1 DEF Streams
<1>5. \A m \in 1..N : Length(m) \in Nat /\ Length(m) > 0 /\ start[m + 1] = start[m] + Length(m)
  BY <1>3, <1>4 DEF Length
<1>6. QED
  BY <1>3, <1>5 DEF Framed, FramingTypeOK, Counted, Types

LEMMA ReceiveKeeps ==
  ASSUME Framed, FramingTypeOK', NEW n \in 1..(kReadBufferSize - read_buffer_pos), Receive(n)
  PROVE  Framed'
<1>0. Types
  BY FrameTypes
<1> USE FramingAssumption, <1>0 DEF Types
<1>1. /\ style' = style /\ start' = start /\ slices' = slices /\ slice' = slice
      /\ arrived' = arrived + n /\ arrived' <= start[N + 1]
      /\ read_buffer_pos' = read_buffer_pos + n /\ readPos' = 0 /\ where' = "process"
      /\ where = "reading" /\ arrived' \in Nat
  BY DEF Receive, user
<1>2. arrived = start[slices + 1] + read_buffer_pos
  BY <1>1 DEF Framed, Rest
<1>3. readPos = 0
  BY <1>1, <1>2 DEF Framed, Aligned
<1>5. Counted'
  BY <1>1 DEF Framed, Counted
<1>6. Aligned'
  <2>1. ASSUME NEW c \in BufferCells, 0 <= c, c < read_buffer_pos + n
        PROVE  read_buffer'[c] = start[slices + 1] + (c - 0) + 1
    <3>1. CASE c < read_buffer_pos
      <4>1. read_buffer[c] = start[slices + 1] + (c - readPos) + 1
        BY <1>1, <1>3, <3>1, <2>1 DEF Framed, Aligned
      <4>2. read_buffer'[c] = read_buffer[c]
        BY <3>1 DEF Receive, BufferCells
      <4>3. QED
        BY <4>1, <4>2, <1>3
    <3>2. CASE c >= read_buffer_pos
      <4>1. read_buffer'[c] = arrived + (c - read_buffer_pos) + 1
        BY <3>2, <2>1 DEF Receive, BufferCells
      <4>2. QED
        BY <4>1, <1>2 DEF BufferCells
    <3>3. QED
      BY <3>1, <3>2 DEF BufferCells
  <2>2. QED
    BY <1>1, <1>2, <2>1 DEF Aligned, BufferCells
<1>7. WholeMessage' /\ Rest' /\ OnlyOversizeCloses'
  BY <1>1 DEF Framed, WholeMessage, Rest,
              OnlyOversizeCloses, ClosedForItsSize, Length
<1>8. QED
  BY <1>5, <1>6, <1>7 DEF Framed

LEMMA DeliverKeeps ==
  ASSUME Framed, FramingTypeOK', Deliver, style = "pipe" \/ ~Guesses
  PROVE  Framed'
<1>0. Types
  BY FrameTypes
<1> USE FramingAssumption, <1>0 DEF Types
<1>1. PICK pkgLen \in handle_package(readPos, read_buffer_pos) :
         /\ Takes(pkgLen)
         /\ slices' = slices + 1
         /\ slice' = [k \in 1..pkgLen |-> IF readPos + k - 1 \in BufferCells
                                          THEN read_buffer[readPos + k - 1] ELSE 0]
         /\ readPos' = readPos + pkgLen
  BY DEF Deliver
<1>2. /\ InLoop
      /\ style' = style /\ start' = start /\ arrived' = arrived
      /\ where' = where /\ where \in {"process", "full"}
      /\ read_buffer' = read_buffer /\ read_buffer_pos' = read_buffer_pos
  BY DEF Deliver, InLoop, stream
<1>3. /\ slices < N /\ pkgLen = Length(slices + 1) /\ pkgLen \in Nat
      /\ pkgLen <= read_buffer_pos - readPos
  BY <1>1, <1>2, NextLength DEF Takes
<1>4. start[(slices + 1) + 1] = start[slices + 1] + pkgLen
  BY <1>3
<1>5. \A c \in BufferCells : readPos <= c /\ c < read_buffer_pos =>
         read_buffer[c] = start[slices + 1] + (c - readPos) + 1
  BY <1>2 DEF Framed, Aligned
<1>6. ASSUME NEW k \in 1..pkgLen
      PROVE  slice'[k] = start[slices + 1] + k
  <2>1. readPos + k - 1 \in BufferCells /\ readPos <= readPos + k - 1 /\ readPos + k - 1 < read_buffer_pos
    BY <1>3 DEF BufferCells
  <2>2. slice'[k] = read_buffer[readPos + k - 1]
    BY <1>1, <2>1
  <2>3. read_buffer[readPos + k - 1] = start[slices + 1] + ((readPos + k - 1) - readPos) + 1
    BY <2>1, <1>5
  <2>4. QED
    BY <2>2, <2>3, <1>3
<1>7. slice' = [k \in 1..pkgLen |-> start[slices + 1] + k]
  BY <1>1, <1>6
<1>9. Counted'
  BY <1>1, <1>2, <1>3 DEF Framed, Counted
<1>10. Aligned'
  <2>1. arrived = start[slices + 1] + (read_buffer_pos - readPos)
    BY <1>2 DEF Framed, Aligned
  <2>2. arrived = start[(slices + 1) + 1] + (read_buffer_pos - (readPos + pkgLen))
    BY <2>1, <1>4, <1>3
  <2>3. ASSUME NEW c \in BufferCells, readPos + pkgLen <= c, c < read_buffer_pos
        PROVE  read_buffer[c] = start[(slices + 1) + 1] + (c - (readPos + pkgLen)) + 1
    <3>1. c \in Nat /\ readPos <= c
      BY <2>3, <1>3 DEF BufferCells
    <3>2. read_buffer[c] = start[slices + 1] + (c - readPos) + 1
      BY <2>3, <3>1, <1>5
    <3>3. start[slices + 1] \in Nat
      BY <1>3
    <3>4. QED
      BY <3>1, <3>2, <3>3, <1>3, <1>4
  <2>4. QED
    BY <1>1, <1>2, <2>2, <2>3 DEF Aligned
<1>11. WholeMessage'
  <2>1. Length(slices)' = pkgLen /\ start'[slices'] = start[slices + 1]
    BY <1>2, <1>3, <1>4, <1>1 DEF Length
  <2>2. slice' = [k \in 1..(Length(slices)') |-> start'[slices'] + k]
    BY <1>7, <2>1
  <2>3. slices' <= N
    BY <1>1, <1>3
  <2>4. QED
    BY <2>2, <2>3 DEF WholeMessage
<1>12. Rest' /\ OnlyOversizeCloses'
  BY <1>2 DEF Rest, OnlyOversizeCloses, ClosedForItsSize
<1>13. QED
  BY <1>9, <1>10, <1>11, <1>12 DEF Framed

LEMMA OversizeKeeps ==
  ASSUME Framed, FramingTypeOK', Oversize, style = "pipe" \/ ~Guesses
  PROVE  Framed'
<1>0. Types
  BY FrameTypes
<1> USE FramingAssumption, <1>0 DEF Types
<1>1. PICK pkgLen \in handle_package(readPos, read_buffer_pos) :
         ~Takes(pkgLen) /\ TooLong(pkgLen)
  BY DEF Oversize
<1>2. /\ InLoop /\ where' = "closed" /\ readPos' = 0 /\ read_buffer_pos' = 0
      /\ style' = style /\ start' = start /\ arrived' = arrived /\ read_buffer' = read_buffer
      /\ slices' = slices /\ slice' = slice
  BY DEF Oversize, do_close, stream, user
<1>3. style # "pipe"
  BY <1>1, <1>2, NextLength
<1>5. Counted' /\ Aligned' /\ WholeMessage' /\ Rest'
  BY <1>2 DEF Framed, Counted, Aligned, WholeMessage, Rest, Length
<1>6. OnlyOversizeCloses'
  BY <1>2, <1>3 DEF OnlyOversizeCloses
<1>7. QED
  BY <1>5, <1>6 DEF Framed

LEMMA FinishKeeps ==
  ASSUME Framed, FramingTypeOK', Finish, style = "pipe" \/ ~Guesses
  PROVE  Framed'
<1>0. Types
  BY FrameTypes
<1> USE FramingAssumption, <1>0 DEF Types
<1> DEFINE pos == read_buffer_pos - readPos
<1>1. /\ where \in {"process", "full"}
      /\ style' = style /\ start' = start /\ arrived' = arrived
      /\ slices' = slices /\ slice' = slice
      /\ read_buffer' = [c \in BufferCells |-> Moved(c)]
  BY DEF Finish, LoopEnds, stream, user
<1>2. slices < N => Length(slices + 1) > pos
  <2>1. CASE readPos = read_buffer_pos
    BY <2>1
  <2>2. CASE readPos # read_buffer_pos
    <3>1. PICK pkgLen \in handle_package(readPos, read_buffer_pos) :
             ~Takes(pkgLen) /\ ~TooLong(pkgLen)
      BY <2>2 DEF Finish, LoopEnds
    <3>2. InLoop
      BY <1>1, <2>2 DEF InLoop
    <3>3. QED
      BY <3>1, <3>2, NextLength
  <2>3. QED
    BY <2>1, <2>2
<1>3. /\ arrived = start[slices + 1] + pos
      /\ \A c \in BufferCells : readPos <= c /\ c < read_buffer_pos =>
            read_buffer[c] = start[slices + 1] + (c - readPos) + 1
  BY <1>1 DEF Framed, Aligned
<1>5. Counted' /\ WholeMessage'
  BY <1>1 DEF Framed, Counted, WholeMessage, Length
<1>6. CASE read_buffer_pos' = pos /\ readPos' = 0 /\ where' \in {"reading", "stalled", "full"}
  <2>2. ASSUME NEW c \in BufferCells, 0 <= c, c < pos
        PROVE  read_buffer'[c] = start[slices + 1] + (c - 0) + 1
    <3>1. c + readPos \in BufferCells /\ readPos <= c + readPos /\ c + readPos < read_buffer_pos
      BY <2>2 DEF BufferCells
    <3>2. read_buffer[c + readPos] = start[slices + 1] + ((c + readPos) - readPos) + 1
      BY <3>1, <1>3
    <3>3. read_buffer'[c] = read_buffer[c + readPos]
      BY <1>1, <2>2 DEF Moved
    <3>4. QED
      BY <3>2, <3>3 DEF BufferCells
  <2>3. Aligned'
    BY <1>1, <1>3, <1>6, <2>2 DEF Aligned
  <2>4. Rest' /\ OnlyOversizeCloses'
    BY <1>1, <1>2, <1>3, <1>6 DEF Rest, OnlyOversizeCloses, ClosedForItsSize, Length
  <2>5. QED
    BY <1>5, <2>3, <2>4 DEF Framed
<1>7. CASE do_close /\ pos >= kReadBufferSize
  <2>1. where' = "closed" /\ read_buffer_pos' = 0 /\ readPos' = 0
    BY <1>7 DEF do_close
  <2>3. Aligned' /\ Rest'
    BY <2>1 DEF Aligned, Rest
  <2>4. slices < N
    <3>1. arrived > start[slices + 1]
      BY <1>3, <1>7
    <3>2. slices # N
      BY <3>1 DEF Framed, Counted
    <3>3. QED
      BY <3>2
  <2>5. OnlyOversizeCloses'
    BY <1>1, <1>2, <1>7, <2>4 DEF OnlyOversizeCloses, ClosedForItsSize, Length
  <2>6. QED
    BY <1>5, <2>3, <2>5 DEF Framed
<1>8. QED
  BY <1>6, <1>7 DEF Finish

----------------------------------------------------------------------------
(* The types, whatever the loop went by.                                   *)

LEMMA PackageIsInt ==
  ASSUME FramingTypeOK, NEW pkgLen \in handle_package(readPos, read_buffer_pos)
  PROVE  pkgLen \in Int
<1> USE FramingAssumption
<1>1. \A m \in 1..N : Length(m) \in Int
  BY DEF FramingTypeOK, Streams, Length
<1>2. \A l \in Shown(readPos) : l \in Int
  <2>1. SUFFICES ASSUME NEW l \in Shown(readPos) PROVE l \in Int
    OBVIOUS
  <2>2. l \in Garbage \/ \E m \in 1..N : l = Length(m) - HeadSize
    BY <2>1 DEF Shown
  <2>3. l \in Garbage => l \in Int
    OBVIOUS
  <2>4. ASSUME NEW m \in 1..N, l = Length(m) - HeadSize PROVE l \in Int
    BY <2>4, <1>1
  <2>5. QED
    BY <2>2, <2>3, <2>4
<1>3. \A x \in Int : Int32(x) \in Int
  BY DEF Int32
<1>4. QED
  BY <1>2, <1>3 DEF handle_package

LEMMA ReceiveTypes ==
  ASSUME FramingTypeOK, NEW n \in 1..(kReadBufferSize - read_buffer_pos), Receive(n)
  PROVE  FramingTypeOK'
<1>1. read_buffer' \in [BufferCells -> Nat]
  BY DEF Receive, BufferCells, FramingTypeOK
<1>2. guessed' \in BOOLEAN
  BY DEF Receive, FramingTypeOK
<1>3. arrived' \in Nat /\ read_buffer_pos' \in 0..kReadBufferSize /\ readPos' \in 0..read_buffer_pos'
  BY FramingAssumption DEF Receive, FramingTypeOK
<1>4. style' = style /\ start' = start /\ slices' = slices /\ slice' = slice /\ where' = "process"
  BY DEF Receive, user
<1>5. QED
  BY <1>1, <1>2, <1>3, <1>4 DEF FramingTypeOK

LEMMA DeliverTypes ==
  ASSUME FramingTypeOK, Deliver
  PROVE  FramingTypeOK'
<1> USE FramingAssumption
<1>1. PICK pkgLen \in handle_package(readPos, read_buffer_pos) :
         /\ Takes(pkgLen)
         /\ slices' = slices + 1
         /\ slice' = [k \in 1..pkgLen |-> IF readPos + k - 1 \in BufferCells
                                          THEN read_buffer[readPos + k - 1] ELSE 0]
         /\ readPos' = readPos + pkgLen
  BY DEF Deliver
<1>2. pkgLen \in Nat
  BY <1>1, PackageIsInt DEF Takes
<1>3. slice' \in [1..pkgLen -> Nat]
  <2>1. \A k \in 1..pkgLen : (IF readPos + k - 1 \in BufferCells
                              THEN read_buffer[readPos + k - 1] ELSE 0) \in Nat
    BY DEF FramingTypeOK
  <2>2. QED
    BY <2>1, <1>1, Zenon
<1>4. slice' \in Seq(Nat)
  BY <1>2, <1>3, FunctionIsSeq
<1>5. guessed' \in BOOLEAN
  BY Zenon DEF Deliver
<1>6. /\ style' = style /\ start' = start /\ arrived' = arrived /\ where' = where
      /\ read_buffer' = read_buffer /\ read_buffer_pos' = read_buffer_pos
  BY DEF Deliver, stream
<1>7. slices' \in Nat /\ readPos' \in 0..read_buffer_pos
  BY <1>1, <1>2 DEF FramingTypeOK, Takes
<1>8. QED
  BY <1>4, <1>5, <1>6, <1>7 DEF FramingTypeOK

LEMMA OversizeTypes ==
  ASSUME FramingTypeOK, Oversize
  PROVE  FramingTypeOK'
<1>1. guessed' \in BOOLEAN
  BY Zenon DEF Oversize
<1>2. /\ where' = "closed" /\ readPos' = 0 /\ read_buffer_pos' = 0
      /\ style' = style /\ start' = start /\ arrived' = arrived /\ read_buffer' = read_buffer
      /\ slices' = slices /\ slice' = slice
  BY DEF Oversize, do_close, stream, user
<1>3. QED
  BY <1>1, <1>2, FramingAssumption DEF FramingTypeOK

LEMMA FinishTypes ==
  ASSUME FramingTypeOK, Finish
  PROVE  FramingTypeOK'
<1> USE FramingAssumption
<1>1. guessed' \in BOOLEAN
  BY Zenon DEF Finish
<1>2. /\ style' = style /\ start' = start /\ arrived' = arrived
      /\ slices' = slices /\ slice' = slice
      /\ read_buffer' = [c \in BufferCells |-> Moved(c)]
  BY DEF Finish, stream, user
<1>3. \A c \in BufferCells : Moved(c) \in Nat
  BY DEF Moved, BufferCells, FramingTypeOK
<1>4. read_buffer' \in [BufferCells -> Nat]
  BY <1>2, <1>3
<1>5. /\ where' \in {"reading", "stalled", "full", "closed"}
      /\ readPos' = 0 /\ read_buffer_pos' \in {0, read_buffer_pos - readPos}
  BY DEF Finish, do_close
<1>6. readPos' \in 0..read_buffer_pos' /\ read_buffer_pos' \in 0..kReadBufferSize
  BY <1>5 DEF FramingTypeOK
<1>7. QED
  BY <1>1, <1>2, <1>4, <1>5, <1>6 DEF FramingTypeOK

----------------------------------------------------------------------------
(* The invariant.                                                          *)

FrameInv == FramingTypeOK /\ (Informed => Framed)

LEMMA FrameInvInit == FramingInit => FrameInv
  BY FrameInit DEF FrameInv, Framed

(* A step of the loop after which the session is informed was taken by an  *)
(* informed session that did not guess.                                    *)
LEMMA StaysInformed ==
  ASSUME guessed' = (guessed \/ Guesses), style' = style, Informed'
  PROVE  Informed /\ (style = "pipe" \/ ~Guesses)
  BY Zenon DEF Informed

LEMMA FrameStep == FrameInv /\ [FramingNext]_framingVars => FrameInv'
<1> SUFFICES ASSUME FrameInv, [FramingNext]_framingVars PROVE FrameInv'
  OBVIOUS
<1>0. FramingTypeOK /\ (Informed => Framed)
  BY DEF FrameInv
<1>1. CASE \E n \in 1..(kReadBufferSize - read_buffer_pos) : Receive(n)
  <2>1. PICK n \in 1..(kReadBufferSize - read_buffer_pos) : Receive(n)
    BY <1>1
  <2>2. FramingTypeOK'
    BY <1>0, <2>1, ReceiveTypes
  <2>3. guessed' = guessed /\ style' = style
    BY <2>1 DEF Receive
  <2>4. Informed' => Informed
    BY <2>3, Zenon DEF Informed
  <2>5. Informed' => Framed'
    BY <1>0, <2>1, <2>2, <2>4, ReceiveKeeps
  <2>6. QED
    BY <2>2, <2>5 DEF FrameInv
<1>2. CASE Deliver
  <2>1. FramingTypeOK'
    BY <1>0, <1>2, DeliverTypes
  <2>2. guessed' = (guessed \/ Guesses) /\ style' = style
    BY <1>2, Zenon DEF Deliver
  <2>3. Informed' => Framed'
    BY <1>0, <1>2, <2>1, <2>2, StaysInformed, DeliverKeeps
  <2>4. QED
    BY <2>1, <2>3 DEF FrameInv
<1>3. CASE Oversize
  <2>1. FramingTypeOK'
    BY <1>0, <1>3, OversizeTypes
  <2>2. guessed' = (guessed \/ Guesses) /\ style' = style
    BY <1>3, Zenon DEF Oversize
  <2>3. Informed' => Framed'
    BY <1>0, <1>3, <2>1, <2>2, StaysInformed, OversizeKeeps
  <2>4. QED
    BY <2>1, <2>3 DEF FrameInv
<1>4. CASE Finish
  <2>1. FramingTypeOK'
    BY <1>0, <1>4, FinishTypes
  <2>2. guessed' = (guessed \/ Guesses) /\ style' = style
    BY <1>4, Zenon DEF Finish
  <2>3. Informed' => Framed'
    BY <1>0, <1>4, <2>1, <2>2, StaysInformed, FinishKeeps
  <2>4. QED
    BY <2>1, <2>3 DEF FrameInv
<1>5. CASE UNCHANGED framingVars
  <2>1. FramingTypeOK' /\ (Informed' => Informed)
    BY <1>0, <1>5 DEF framingVars, stream, user, FramingTypeOK, Informed, Streams, BufferCells
  <2>2. Framed => Framed'
    BY <1>5, <2>1 DEF framingVars, stream, user, Framed, Counted, Aligned, WholeMessage, Rest,
              OnlyOversizeCloses, ClosedForItsSize, Length, BufferCells
  <2>3. QED
    BY <1>0, <2>1, <2>2 DEF FrameInv
<1>6. QED
  BY <1>1, <1>2, <1>3, <1>4, <1>5 DEF FramingNext

(* The strengthening holds in every reachable state.                       *)
THEOREM FramingInvariant == FramingSpec => []FrameInv
<1>1. QED
  BY FrameInvInit, FrameStep, PTL DEF FramingSpec

(* process_data() hands handle_data whole messages, in order, for every    *)
(* buffer size, every division of the stream into reads and every stale    *)
(* length, as long as it did not go by one: PipeConnection never does.     *)
THEOREM WholeMessagesAlways == FramingSpec => []OneWholeMessage
<1>1. FrameInv => OneWholeMessage
  BY DEF FrameInv, Framed, OneWholeMessage
<1>2. QED
  BY <1>1, FramingInvariant, PTL

(* The socket never waits for more bytes with a complete message already   *)
(* in read_buffer, with the same exception.                                *)
THEOREM NothingKeptBackAlways == FramingSpec => []NothingKeptBack
<1>1. FrameInv => NothingKeptBack
  BY DEF FrameInv, Framed, NothingKeptBack
<1>2. QED
  BY <1>1, FramingInvariant, PTL

(* With the handle_package() of PipeConnection a connection is closed only *)
(* for a message longer than read_buffer.                                  *)
THEOREM OnlyOversizeClosesAlways == FramingSpec => []OnlyOversizeCloses
<1>1. FrameInv => OnlyOversizeCloses
  BY DEF FrameInv, Framed, Informed, OnlyOversizeCloses
<1>2. QED
  BY <1>1, FramingInvariant, PTL
=============================================================================
