-------------------------- MODULE TcpStreamProofs --------------------------
(***************************************************************************)
(* Theorems about TcpSocket, for every set of threads and every bound; and *)
(* about TcpSocket and TlsSocket in the usages of MCTcp, for any number of *)
(* threads, units, connects and closes: what is sent reaches the wire in   *)
(* order, nothing is stranded, an open connection is read, and one that    *)
(* nobody closes implements ConnectionSpec.                                *)
(***************************************************************************)
EXTENDS MCTcp, TLAPS, SequenceTheorems, FiniteSetTheorems

----------------------------------------------------------------------------
(* What the pieces of handlers return.                                     *)

LEMMA HandlerType ==
    ASSUME NEW b \in BOOLEAN, NEW s \in Seq(Nat)
    PROVE  /\ HW(b, s) \in Handler
           /\ H("INIT", b) \in Handler /\ H("SEND", b) \in Handler
           /\ H("CLOSE", b) \in Handler /\ H("READ", b) \in Handler
           /\ H("CONNECT", b) \in Handler /\ H("TIMER", b) \in Handler
  BY DEF HW, H, Handler

LEMMA PrefixRestType ==
    ASSUME NEW s \in Seq(Nat), NEW n \in 0..Len(s)
    PROVE  Prefix(s, n) \in Seq(Nat) /\ Rest(s, n) \in Seq(Nat)
  <1>1. Len(s) \in Nat /\ \A i \in 1..Len(s) : s[i] \in Nat
    OBVIOUS
  <1>2. Prefix(s, n) \in Seq(Nat)
    <2>1. \A i \in 1..n : s[i] \in Nat
      BY <1>1
    <2> QED BY <2>1, <1>1, SubSeqProperties DEF Prefix
  <1>3. Rest(s, n) \in Seq(Nat)
    <2>1. \A i \in (n + 1)..Len(s) : s[i] \in Nat
      BY <1>1
    <2> QED BY <2>1, <1>1, SubSeqProperties DEF Rest
  <1> QED BY <1>2, <1>3

LEMMA FunctionIsSeq ==
    ASSUME NEW S, NEW n \in Nat, NEW f \in [1..n -> S]
    PROVE  f \in Seq(S)
  BY SeqDef, Zenon

LEMMA SingletonSeq ==
    ASSUME NEW S, NEW e \in S
    PROVE  <<e>> \in Seq(S)
  OBVIOUS

LEMMA AbortedType ==
    ASSUME NEW r \in Nat, NEW w \in Seq(Seq(Nat)), NEW c \in Nat
    PROVE  Aborted(r, w, c) \in Seq(Handler)
  <1>1. H("READ", FALSE) \in Handler /\ H("CONNECT", FALSE) \in Handler
    BY EmptySeq, HandlerType
  <1>2. \A i \in 1..Len(w) : HW(FALSE, w[i]) \in Handler
    <2>1. \A i \in 1..Len(w) : w[i] \in Seq(Nat)
      BY ElementOfSeq
    <2> QED BY <2>1, HandlerType
  <1>3. [i \in 1..r |-> H("READ", FALSE)] \in [1..r -> Handler]
    BY <1>1
  <1>4. [i \in 1..Len(w) |-> HW(FALSE, w[i])] \in [1..Len(w) -> Handler]
    BY <1>2
  <1>5. [i \in 1..c |-> H("CONNECT", FALSE)] \in [1..c -> Handler]
    BY <1>1
  <1>6. /\ [i \in 1..r |-> H("READ", FALSE)] \in Seq(Handler)
        /\ [i \in 1..Len(w) |-> HW(FALSE, w[i])] \in Seq(Handler)
        /\ [i \in 1..c |-> H("CONNECT", FALSE)] \in Seq(Handler)
    BY <1>3, <1>4, <1>5, FunctionIsSeq, LenProperties
  <1> QED BY <1>6, ConcatProperties DEF Aborted

(* The outcomes of starting an async_write of s with q still to run.       *)
Outcome == [wire : Seq(Nat), writes : Seq(Seq(Nat)), q : Seq(Handler)]

LEMMA ResultType ==
    ASSUME wire \in Seq(Nat), NEW s \in Seq(Nat), NEW n \in 0..Len(s),
           NEW ws \in Seq(Seq(Nat)), NEW q \in Seq(Handler)
    PROVE  Result(n, s, ws, q) \in Outcome
  <1>1. Prefix(s, n) \in Seq(Nat)
    BY PrefixRestType
  <1>2. wire \o Prefix(s, n) \in Seq(Nat)
    BY <1>1, ConcatProperties
  <1> QED BY <1>2 DEF Result, Outcome

LEMMA StartWriteType ==
    ASSUME TypeOK, NEW s \in Seq(Nat), NEW q \in Seq(Handler)
    PROVE  StartWrite(s, q) \subseteq Outcome
  <1>1. wire \in Seq(Nat) /\ writes \in Seq(Seq(Nat)) /\ 0 \in 0..Len(s) /\ Len(s) \in Nat
    BY LenProperties DEF TypeOK
  <1>2. Result(0, s, writes, Append(q, HW(FALSE, s))) \in Outcome
    <2>1. Append(q, HW(FALSE, s)) \in Seq(Handler)
      BY HandlerType, AppendProperties
    <2> QED BY <1>1, <2>1, ResultType
  <1>3. Result(0, s, Append(writes, s), q) \in Outcome
    <2>1. Append(writes, s) \in Seq(Seq(Nat))
      BY <1>1, AppendProperties
    <2> QED BY <1>1, <2>1, ResultType
  <1>4. ASSUME NEW n \in 1..Len(s)
        PROVE  Result(n, s, writes, Append(q, HW(TRUE, Rest(s, n)))) \in Outcome
    <2>1. n \in 0..Len(s)
      BY <1>1
    <2>2. HW(TRUE, Rest(s, n)) \in Handler
      BY <2>1, PrefixRestType, HandlerType
    <2> QED BY <1>1, <2>1, <2>2, ResultType, AppendProperties
  <1> QED BY <1>2, <1>3, <1>4 DEF StartWrite

LEMMA AsyncWriteType ==
    ASSUME TypeOK, NEW cache \in Seq(Nat), NEW q \in Seq(Handler)
    PROVE  /\ Swapped(cache) \in Seq(Nat)
           /\ do_async_write(cache, q) \subseteq Outcome
  <1>1. Swapped(cache) \in Seq(Nat)
    BY DEF Swapped, TypeOK
  <1>2. [wire |-> wire, writes |-> writes, q |-> q] \in Outcome
    BY DEF Outcome, TypeOK
  <1> QED BY <1>1, <1>2, StartWriteType DEF do_async_write

(* What CloseSock leaves behind.                                           *)
LEMMA CloseSockType ==
    ASSUME TypeOK, NEW q \in Seq(Handler), NEW w \in Seq(Seq(Nat)), CloseSock(q, w)
    PROVE  /\ tcp_sock' = "closed" /\ reads' \in Nat /\ connecting' \in Nat
           /\ writes' \in Seq(Seq(Nat)) /\ ready' \in Seq(Handler)
  <1>1. Aborted(reads, w, connecting) \in Seq(Handler)
    BY AbortedType DEF TypeOK
  <1>2. q \o Aborted(reads, w, connecting) \in Seq(Handler)
    BY <1>1, ConcatProperties
  <1> QED BY <1>2, EmptySeq DEF CloseSock

LEMMA RunningType ==
    ASSUME TypeOK, NEW k, Running(k)
    PROVE  /\ Tail(ready) \in Seq(Handler) /\ Head(ready) \in Handler
           /\ ok \in BOOLEAN /\ rem \in Seq(Nat)
  <1>1. Tail(ready) \in Seq(Handler) /\ Head(ready) \in Handler
    BY HeadTailProperties DEF TypeOK, Running
  <1> QED BY <1>1 DEF Handler, ok, rem

LEMMA DoCloseType ==
    ASSUME TypeOK, NEW q \in Seq(Handler), NEW r \in {0, 1}, do_close(q, r)
    PROVE  /\ socket_status' \in Status /\ connection' \in BOOLEAN
           /\ phase' \in Phase /\ discs' \in Nat
           /\ send_buffer' \in Seq(Nat)
           /\ tcp_sock' \in {"closed", "opening", "connected", "down"}
           /\ reads' \in Nat /\ connecting' \in Nat
           /\ writes' \in Seq(Seq(Nat)) /\ ready' \in Seq(Handler)
  <1>1. do_read(r) \in Nat
    BY DEF do_read, TypeOK
  <1>2. writes \in Seq(Seq(Nat))
    BY DEF TypeOK
  <1>3. CASE socket_status \in {"CLOSING", "CLOSED"}
    BY <1>1, <1>3 DEF do_close, TypeOK, lifeVars
  <1>4. CASE socket_status \notin {"CLOSING", "CLOSED"} /\ ~connection
    <2>1. CloseSock(q, writes)
      BY <1>4 DEF do_close
    <2> QED BY <1>2, <1>4, <2>1, CloseSockType DEF do_close, TypeOK, Status
  <1>5. CASE socket_status \notin {"CLOSING", "CLOSED"} /\ connection
    <2>1. discs' \in Nat /\ send_buffer' \in Seq(Nat)
      BY <1>5, EmptySeq DEF do_close, TypeOK
    <2>2. CASE need_reconnect
      BY <1>1, <1>5, <2>1, <2>2 DEF do_close, TypeOK, Status, Phase
    <2>3. CASE ~need_reconnect
      <3>1. CloseSock(q, writes)
        BY <1>5, <2>3 DEF do_close
      <3> QED BY <1>2, <1>5, <2>1, <2>3, <3>1, CloseSockType
              DEF do_close, Released, Status, Phase
    <2> QED BY <2>2, <2>3
  <1> QED BY <1>3, <1>4, <1>5

----------------------------------------------------------------------------
(* Type correctness.                                                       *)

LEMMA InitType == Init => TypeOK
  <1> SUFFICES ASSUME Init PROVE TypeOK
    OBVIOUS
  <1>1. ready \in Seq(Handler)
    <2>1. H("INIT", TRUE) \in Handler
      BY EmptySeq, HandlerType
    <2>2. <<>> \in Seq(Handler) /\ <<H("INIT", TRUE)>> \in Seq(Handler)
      BY <2>1, SingletonSeq, EmptySeq
    <2>3. ready = <<>> \/ ready = <<H("INIT", TRUE)>>
      BY DEF Init
    <2> QED BY <2>2, <2>3
  <1>2. /\ <<>> \in Seq(Nat) /\ <<>> \in Seq(Seq(Nat))
        /\ pc \in [Threads -> {"idle"}] /\ snapshot \in [Threads -> {<<>>}]
    BY DEF Init
  <1>3. /\ passive_mode \in BOOLEAN /\ reconn_flag \in BOOLEAN
        /\ socket_status \in {"INIT", "CONNECTING"}
        /\ tcp_sock \in {"connected", "opening"} /\ connecting \in {0, 1}
    BY ConstantsAssumption DEF Init
  <1>4. /\ connection \in BOOLEAN /\ is_writting \in BOOLEAN /\ torn \in BOOLEAN
        /\ write_mutex \in Threads \cup {NoThread}
        /\ phase \in Phase /\ dataPhase \in Phase /\ socket_status \in Status
        /\ tcp_sock \in {"closed", "opening", "connected", "down"}
    BY <1>3 DEF Init, Status, Phase
  <1>5. /\ pc \in [Threads -> {"idle", "checked", "pushing", "pushed",
                               "appending", "writing", "clearing"}]
        /\ snapshot \in [Threads -> Seq(Nat)]
    BY <1>2
  <1>6. /\ accepted \in Nat /\ connects \in Nat /\ closes \in Nat /\ discs \in Nat
        /\ reads \in Nat /\ connecting \in Nat
    BY <1>3 DEF Init
  <1>7. /\ send_buffer \in Seq(Nat) /\ cache_buffer \in Seq(Nat) /\ wire \in Seq(Nat)
        /\ writes \in Seq(Seq(Nat))
    BY <1>2 DEF Init
  <1> QED BY <1>1, <1>3, <1>4, <1>5, <1>6, <1>7 DEF TypeOK

LEMMA WorkerType == TypeOK /\ Worker => TypeOK'
  <1> SUFFICES ASSUME TypeOK, Worker PROVE TypeOK'
    OBVIOUS
  <1> DEFINE q == Tail(ready)
  <1> USE DEF appVars, cfgVars
  <1>1. ASSUME NEW k, Running(k)
        PROVE  q \in Seq(Handler) /\ ok \in BOOLEAN /\ rem \in Seq(Nat)
    BY <1>1, RunningType
  <1>2. do_read(1) \in Nat
    BY DEF do_read, TypeOK
  <1>3. cache_buffer \in Seq(Nat) /\ <<>> \in Seq(Nat) /\ writes \in Seq(Seq(Nat))
    BY EmptySeq DEF TypeOK
  <1> HIDE DEF q
  <1>a. CASE OnInit
    BY <1>a, <1>1, <1>2 DEF q, OnInit, init_read, TypeOK, bufVars, Status, Phase
  <1>b. CASE OnConnect
    <2>1. CASE ok /\ sock_is_open
      <3>1. init_read(q)
        BY <1>b, <2>1 DEF OnConnect, q
      <3> QED BY <1>b, <1>1, <1>2, <3>1 DEF OnConnect, init_read, TypeOK, bufVars, Status, Phase
    <2>2. CASE ~(ok /\ sock_is_open)
      <3>1. CloseSock(q, writes)
        BY <1>b, <2>2 DEF OnConnect, q
      <3> QED BY <1>b, <1>1, <1>3, <2>2, <3>1, CloseSockType DEF OnConnect, TypeOK, bufVars, Status
    <2> QED BY <2>1, <2>2
  <1>c. CASE OnRead
    <2>0. dataPhase' \in Phase
      BY <1>c DEF OnRead, TypeOK
    <2>1. CASE /\ ready' = Tail(ready)
               /\ reads' = do_read(1)
               /\ UNCHANGED <<lifeVars, bufVars, tcp_sock, writes, connecting>>
      BY <1>c, <1>1, <1>2, <2>0, <2>1 DEF q, OnRead, TypeOK, lifeVars, bufVars
    <2>2. CASE /\ connection
               /\ \E r \in {0, 1} : do_close(Tail(ready), r)
               /\ cache_buffer' = IF socket_status \in {"CLOSING", "CLOSED"}
                                  THEN cache_buffer ELSE <<>>
               /\ UNCHANGED is_writting
      <3>1. PICK r \in {0, 1} : do_close(q, r)
        BY <2>2 DEF q
      <3> QED BY <1>c, <1>1, <1>3, <2>0, <2>2, <3>1, DoCloseType DEF OnRead, TypeOK
    <2> QED BY <1>c, <2>1, <2>2 DEF OnRead
  <1>d. CASE OnReadError
    <2>1. do_close(q, 0)
      BY <1>d DEF OnReadError, q
    <2> QED BY <1>d, <1>1, <1>3, <2>1, DoCloseType DEF OnReadError, TypeOK
  <1>e. CASE OnSend
    <2>1. CASE is_writting
      BY <1>e, <1>1, <2>1 DEF q, OnSend, TypeOK, lifeVars, bufVars
    <2>2. CASE ~is_writting
      <3>1. PICK x \in do_async_write(cache_buffer, q) :
                wire' = x.wire /\ writes' = x.writes /\ ready' = x.q
        BY <1>e, <2>2 DEF OnSend, q
      <3>2. x \in Outcome /\ Swapped(cache_buffer) \in Seq(Nat)
        BY <1>e, <1>1, <1>3, <3>1, AsyncWriteType DEF OnSend
      <3> QED BY <1>e, <1>3, <2>2, <3>1, <3>2
              DEF OnSend, TakeSendBuffer, Outcome, TypeOK, lifeVars
    <2> QED BY <2>1, <2>2
  <1>f. CASE OnWrite
    <2>1. CASE rem # <<>>
      <3>1. PICK x \in StartWrite(rem, q) :
                wire' = x.wire /\ writes' = x.writes /\ ready' = x.q
        BY <1>f, <2>1 DEF OnWrite, q
      <3>2. x \in Outcome
        BY <1>f, <1>1, <3>1, StartWriteType DEF OnWrite
      <3> QED BY <1>f, <2>1, <3>1, <3>2 DEF OnWrite, Outcome, TypeOK, lifeVars, bufVars
    <2>2. CASE rem = <<>>
      <3>1. PICK x \in do_async_write(<<>>, q) :
                wire' = x.wire /\ writes' = x.writes /\ ready' = x.q
        BY <1>f, <2>2 DEF OnWrite, q
      <3>2. x \in Outcome /\ Swapped(<<>>) \in Seq(Nat)
        BY <1>f, <1>1, <1>3, <3>1, AsyncWriteType DEF OnWrite
      <3> QED BY <1>f, <1>3, <2>2, <3>1, <3>2
              DEF OnWrite, TakeSendBuffer, Outcome, TypeOK, lifeVars
    <2> QED BY <2>1, <2>2
  <1>g. CASE OnWriteError
    <2>1. do_close(q, 0)
      BY <1>g DEF OnWriteError, q
    <2> QED BY <1>g, <1>1, <1>3, <2>1, DoCloseType DEF OnWriteError, TypeOK
  <1>h. CASE OnClose
    <2>1. socket_status' \in Status /\ connection' \in BOOLEAN /\ phase' \in Phase /\ discs' \in Nat
      <3>1. CASE connection /\ need_reconnect
        BY <1>h, <3>1 DEF OnClose, Status, Phase, TypeOK
      <3>2. CASE connection /\ ~need_reconnect
        <4>1. discs' = discs + 1 /\ socket_status' = "CLOSED" /\ Released
          BY <1>h, <3>2 DEF OnClose
        <4>2. connection' \in BOOLEAN
          BY <4>1, Zenon DEF Released
        <4> QED BY <4>1, <4>2 DEF Released, Status, Phase, TypeOK
      <3>3. CASE ~connection
        BY <1>h, <3>3 DEF OnClose, Status, TypeOK
      <3> QED BY <3>1, <3>2, <3>3
    <2>2. CASE connection /\ send_buffer # <<>>
      <3>1. PICK x \in do_async_write(cache_buffer, q) : wire' = x.wire /\ CloseSock(x.q, x.writes)
        BY <1>h, <2>2 DEF OnClose, q
      <3>2. x \in Outcome /\ Swapped(cache_buffer) \in Seq(Nat)
        BY <1>h, <1>1, <1>3, <3>1, AsyncWriteType DEF OnClose
      <3>3. x.q \in Seq(Handler) /\ x.writes \in Seq(Seq(Nat)) /\ x.wire \in Seq(Nat)
        BY <3>2 DEF Outcome
      <3>4. /\ tcp_sock' = "closed" /\ reads' \in Nat /\ connecting' \in Nat
            /\ writes' \in Seq(Seq(Nat)) /\ ready' \in Seq(Handler)
        BY <3>1, <3>3, CloseSockType
      <3> QED BY <1>h, <1>3, <2>1, <2>2, <3>1, <3>2, <3>3, <3>4
              DEF OnClose, TakeSendBuffer, TypeOK
    <2>3. CASE ~(connection /\ send_buffer # <<>>)
      <3>1. CloseSock(q, writes)
        BY <1>h, <2>3 DEF OnClose, q
      <3> QED BY <1>h, <1>1, <1>3, <2>1, <2>3, <3>1, CloseSockType DEF OnClose, TypeOK, bufVars
    <2> QED BY <2>2, <2>3
  <1>i. CASE OnTimerConnect
    <2>1. Aborted(reads, writes, connecting) \in Seq(Handler)
      BY AbortedType DEF TypeOK
    <2>2. q \o Aborted(reads, writes, connecting) \in Seq(Handler)
      BY <1>i, <1>1, <2>1, ConcatProperties DEF OnTimerConnect
    <2> QED BY <1>i, <2>2, EmptySeq DEF q, OnTimerConnect, connect, TypeOK, bufVars, Status
  <1>j. CASE OnTimerIdle
    BY <1>j, <1>1 DEF q, OnTimerIdle, TypeOK, opVars, lifeVars, bufVars
  <1> QED BY <1>a, <1>b, <1>c, <1>d, <1>e, <1>f, <1>g, <1>h, <1>i, <1>j DEF Worker

LEMMA KernelType == TypeOK /\ (Kernel \/ PeerDown) => TypeOK'
  <1> SUFFICES ASSUME TypeOK, Kernel \/ PeerDown PROVE TypeOK'
    OBVIOUS
  <1> USE DEF appVars, bufVars, lifeVars, cfgVars
  <1>0. <<>> \in Seq(Nat) /\ ready \in Seq(Handler)
    BY EmptySeq DEF TypeOK
  <1>a. CASE ReadReady
    <2>1. H("READ", tcp_sock = "connected") \in Handler
      BY <1>0, HandlerType
    <2>2. ready' \in Seq(Handler)
      BY <1>a, <1>0, <2>1, AppendProperties DEF ReadReady
    <2> QED BY <1>a, <2>2 DEF ReadReady, TypeOK
  <1>b. CASE WriteReady
    <2>1. Head(writes) \in Seq(Nat) /\ Tail(writes) \in Seq(Seq(Nat))
      BY <1>b, HeadTailProperties DEF WriteReady, TypeOK
    <2>2. ready' \in Seq(Handler) /\ wire' \in Seq(Nat)
      <3>1. CASE \E n \in 1..Len(Head(writes)) :
                   /\ wire' = wire \o Prefix(Head(writes), n)
                   /\ ready' = Append(ready, HW(TRUE, Rest(Head(writes), n)))
        <4>1. PICK n \in 1..Len(Head(writes)) :
                   /\ wire' = wire \o Prefix(Head(writes), n)
                   /\ ready' = Append(ready, HW(TRUE, Rest(Head(writes), n)))
          BY <3>1
        <4>2. n \in 0..Len(Head(writes))
          BY <2>1, LenProperties
        <4>3. Prefix(Head(writes), n) \in Seq(Nat) /\ Rest(Head(writes), n) \in Seq(Nat)
          BY <2>1, <4>2, PrefixRestType
        <4>4. HW(TRUE, Rest(Head(writes), n)) \in Handler
          BY <4>3, HandlerType
        <4>5. wire \in Seq(Nat)
          BY DEF TypeOK
        <4> QED BY <1>0, <4>1, <4>3, <4>4, <4>5, AppendProperties, ConcatProperties
      <3>2. CASE /\ ready' = Append(ready, HW(FALSE, Head(writes)))
                 /\ UNCHANGED wire
        <4>1. HW(FALSE, Head(writes)) \in Handler
          BY <2>1, HandlerType
        <4> QED BY <1>0, <3>2, <4>1, AppendProperties DEF TypeOK
      <3> QED BY <1>b, <3>1, <3>2 DEF WriteReady
    <2> QED BY <1>b, <2>1, <2>2 DEF WriteReady, TypeOK
  <1>c. CASE ConnectReady
    <2>1. PICK success \in BOOLEAN :
              /\ tcp_sock' = IF success THEN "connected" ELSE "down"
              /\ ready' = Append(ready, H("CONNECT", success))
      BY <1>c DEF ConnectReady
    <2>2. H("CONNECT", success) \in Handler
      BY <1>0, HandlerType
    <2>3. ready' \in Seq(Handler)
      BY <1>0, <2>1, <2>2, AppendProperties
    <2> QED BY <1>c, <2>1, <2>3 DEF ConnectReady, TypeOK
  <1>d. CASE TimerReady
    <2>1. H("TIMER", TRUE) \in Handler
      BY <1>0, HandlerType
    <2>2. ready' \in Seq(Handler)
      BY <1>d, <1>0, <2>1, AppendProperties DEF TimerReady
    <2> QED BY <1>d, <2>2 DEF TimerReady, TypeOK, opVars
  <1>e. CASE PeerDown
    BY <1>e DEF PeerDown, TypeOK
  <1> QED BY <1>a, <1>b, <1>c, <1>d, <1>e DEF Kernel

LEMMA AppType ==
    TypeOK /\ (\/ \E t \in Senders : Msend(t)
               \/ \E t \in SyncSenders : SyncMsend(t)
               \/ \E force \in BOOLEAN : Close(force)) => TypeOK'
  <1> SUFFICES ASSUME TypeOK,
                      \/ \E t \in Senders : Msend(t)
                      \/ \E t \in SyncSenders : SyncMsend(t)
                      \/ \E force \in BOOLEAN : Close(force)
               PROVE  TypeOK'
    OBVIOUS
  <1> USE DEF opVars, bufVars, lifeVars, cfgVars
  <1>0. /\ <<>> \in Seq(Nat) /\ ready \in Seq(Handler) /\ send_buffer \in Seq(Nat)
        /\ Senders \subseteq Threads /\ SyncSenders \subseteq Threads
    BY EmptySeq DEF TypeOK, Threads
  <1>1. H("SEND", TRUE) \in Handler /\ H("CLOSE", TRUE) \in Handler
    BY <1>0, HandlerType
  <1>2. ASSUME NEW t \in Threads, EndAppend(t)
        PROVE  accepted' \in Nat /\ send_buffer' \in Seq(Nat) /\ snapshot' \in [Threads -> Seq(Nat)]
    <2>1. snapshot[t] \in Seq(Nat) /\ accepted + 1 \in Nat
      BY DEF TypeOK
    <2>2. Append(snapshot[t], accepted + 1) \in Seq(Nat)
      BY <2>1, AppendProperties
    <2> QED BY <1>0, <1>2, <2>1, <2>2 DEF EndAppend, TypeOK
  <1>3. ASSUME NEW t \in Senders, Msend(t) PROVE TypeOK'
    <2>0. t \in Threads
      BY <1>0
    <2>1. CASE MsendCheck(t)
      BY <2>0, <2>1 DEF MsendCheck, Goto, TypeOK
    <2>2. CASE MsendLock(t)
      BY <1>0, <2>0, <2>2 DEF MsendLock, Goto, BeginAppend, TypeOK
    <2>3. CASE MsendPush(t)
      <3>1. EndAppend(t)
        BY <2>3 DEF MsendPush
      <3> QED BY <1>2, <2>0, <2>3, <3>1 DEF MsendPush, Goto, TypeOK
    <2>4. CASE MsendPost(t)
      <3>1. ready' \in Seq(Handler)
        BY <1>0, <1>1, <2>4, AppendProperties DEF MsendPost
      <3> QED BY <2>0, <2>4, <3>1 DEF MsendPost, Goto, TypeOK
    <2> QED BY <1>3, <2>1, <2>2, <2>3, <2>4 DEF Msend
  <1>4. ASSUME NEW t \in SyncSenders, SyncMsend(t) PROVE TypeOK'
    <2>0. t \in Threads
      BY <1>0
    <2>1. CASE SyncBegin(t)
      BY <1>0, <2>0, <2>1 DEF SyncBegin, Goto, BeginAppend, TypeOK
    <2>2. CASE SyncAppend(t)
      <3>1. EndAppend(t)
        BY <2>2 DEF SyncAppend
      <3> QED BY <1>2, <2>0, <2>2, <3>1 DEF SyncAppend, Goto, TypeOK
    <2>3. CASE SyncWrite(t)
      <3>0. \A n \in 1..Len(send_buffer) : wire \o Prefix(send_buffer, n) \in Seq(Nat)
        <4>1. ASSUME NEW n \in 1..Len(send_buffer) PROVE Prefix(send_buffer, n) \in Seq(Nat)
          <5>1. n \in 0..Len(send_buffer)
            BY <1>0, LenProperties
          <5> QED BY <1>0, <5>1, PrefixRestType
        <4> QED BY <4>1, ConcatProperties DEF TypeOK
      <3>1. wire \o send_buffer \in Seq(Nat)
        BY ConcatProperties DEF TypeOK
      <3>2. wire' \in Seq(Nat) /\ pc' \in [Threads -> {"idle", "checked", "pushing", "pushed",
                                                      "appending", "writing", "clearing"}]
        BY <2>0, <2>3, <3>0, <3>1 DEF SyncWrite, Goto, TypeOK
      <3>3. torn' \in BOOLEAN
        BY <2>3, Zenon DEF SyncWrite, TypeOK
      <3> QED BY <2>3, <3>2, <3>3 DEF SyncWrite, TypeOK
    <2>4. CASE SyncClear(t)
      BY <1>0, <2>0, <2>4 DEF SyncClear, Goto, TypeOK
    <2> QED BY <1>4, <2>1, <2>2, <2>3, <2>4 DEF SyncMsend
  <1>5. ASSUME NEW force \in BOOLEAN, Close(force) PROVE TypeOK'
    <2>1. ready' \in Seq(Handler)
      BY <1>0, <1>1, <1>5, AppendProperties DEF Close
    <2>2. reconn_flag' \in BOOLEAN
      BY <1>5 DEF Close
    <2>3. closes' \in Nat
      BY <1>5 DEF Close, TypeOK
    <2>4. UNCHANGED <<appVars, opVars, bufVars, lifeVars, passive_mode, connects, torn, wire,
                      dataPhase>>
      BY <1>5 DEF Close
    <2> QED BY <2>1, <2>2, <2>3, <2>4 DEF TypeOK, appVars
  <1> QED BY <1>3, <1>4, <1>5

(* Every variable keeps its type, in every behaviour.                      *)
THEOREM TypeCorrect == Spec => []TypeOK
  <1>1. TypeOK /\ [Next]_vars => TypeOK'
    <2> SUFFICES ASSUME TypeOK, [Next]_vars PROVE TypeOK'
      OBVIOUS
    <2>1. CASE UNCHANGED vars
      BY <2>1 DEF vars, appVars, opVars, bufVars, lifeVars, cfgVars, TypeOK
    <2> QED BY <2>1, WorkerType, KernelType, AppType DEF Next
  <1> QED BY InitType, <1>1, PTL DEF Spec

----------------------------------------------------------------------------
(* Release.  ReleasedProperly is not inductive: that EVT_DISCONNECT is     *)
(* raised exactly once without reconnect needs that the RECONNECT status   *)
(* and the reconnect flag do not occur then, and that nothing is seen      *)
(* after EVT_RELEASE needs that the socket is closed and the timer is off. *)

ReleaseInv ==
    /\ ReleasedProperly
    /\ ~Reconnect \/ passive_mode => ~reconn_flag
    /\ ~Reconnect \/ passive_mode => socket_status # "RECONNECT"
    /\ socket_status = "RECONNECT" => discs > 0
    /\ phase = "released" => ~reconn_flag /\ tcp_sock = "closed"

LEMMA InitRelease == Init => ReleaseInv
  <1> SUFFICES ASSUME Init PROVE ReleaseInv
    OBVIOUS
  <1>1. connection /\ phase = "created" /\ discs = 0 /\ socket_status # "RECONNECT"
    BY DEF Init
  <1>2. \/ passive_mode = TRUE /\ reconn_flag = FALSE
        \/ passive_mode = FALSE /\ reconn_flag \in {FALSE, Reconnect}
    BY DEF Init
  <1>3. ~Reconnect \/ passive_mode => ~reconn_flag
    BY <1>2, ConstantsAssumption
  <1> QED BY <1>1, <1>3 DEF ReleaseInv, ReleasedProperly

(* Steps that raise no event and open no socket.                           *)
LEMMA QuietRelease ==
    ASSUME TypeOK, ReleaseInv, UNCHANGED <<lifeVars, passive_mode>>,
           reconn_flag' => reconn_flag,
           tcp_sock = "closed" => tcp_sock' = "closed"
    PROVE  ReleaseInv'
  BY DEF lifeVars, ReleaseInv, ReleasedProperly

LEMMA DoCloseRelease ==
    ASSUME TypeOK, ReleaseInv, NEW q, NEW r, do_close(q, r),
           UNCHANGED <<passive_mode, reconn_flag>>
    PROVE  ReleaseInv'
  <1>1. CASE socket_status \in {"CLOSING", "CLOSED"}
    BY <1>1 DEF do_close, lifeVars, ReleaseInv, ReleasedProperly
  <1>2. CASE socket_status \notin {"CLOSING", "CLOSED"} /\ ~connection
    BY <1>2 DEF do_close, CloseSock, ReleaseInv, ReleasedProperly
  <1>3. CASE socket_status \notin {"CLOSING", "CLOSED"} /\ connection /\ need_reconnect
    BY <1>3 DEF do_close, need_reconnect, TypeOK, ReleaseInv, ReleasedProperly
  <1>4. CASE socket_status \notin {"CLOSING", "CLOSED"} /\ connection /\ ~need_reconnect
    <2>1. /\ discs' = IF socket_status = "RECONNECT" THEN discs ELSE discs + 1
          /\ socket_status' = "CLOSED" /\ CloseSock(q, writes) /\ Released
      BY <1>4 DEF do_close
    <2>2. ~connection' /\ phase' = "released" /\ tcp_sock' = "closed"
      BY <2>1 DEF Released, CloseSock
    <2>3. ~reconn_flag'
      BY <1>4 DEF need_reconnect, ReleaseInv
    <2> QED BY <1>4, <2>1, <2>2, <2>3 DEF TypeOK, ReleaseInv, ReleasedProperly
  <1> QED BY <1>1, <1>2, <1>3, <1>4

LEMMA WorkerRelease == TypeOK /\ ReleaseInv /\ Worker => ReleaseInv'
  <1> SUFFICES ASSUME TypeOK, ReleaseInv, Worker PROVE ReleaseInv'
    OBVIOUS
  <1> USE DEF cfgVars
  <1>1. ASSUME NEW q, init_read(q), UNCHANGED <<passive_mode, reconn_flag>>
        PROVE  ReleaseInv'
    BY <1>1 DEF init_read, TypeOK, ReleaseInv, ReleasedProperly
  <1>a. CASE OnInit
    BY <1>a, <1>1 DEF OnInit
  <1>b. CASE OnConnect
    <2>1. CASE ok /\ sock_is_open
      BY <1>b, <1>1, <2>1 DEF OnConnect
    <2>2. CASE ~(ok /\ sock_is_open)
      BY <1>b, <2>2 DEF OnConnect, CloseSock, ReleaseInv, ReleasedProperly
    <2> QED BY <2>1, <2>2
  <1>c. CASE OnRead
    <2>1. CASE UNCHANGED <<lifeVars, bufVars, tcp_sock, writes, connecting>>
      BY <1>c, <2>1 DEF OnRead, lifeVars, ReleaseInv, ReleasedProperly
    <2>2. CASE \E r \in {0, 1} : do_close(Tail(ready), r)
      BY <1>c, <2>2, DoCloseRelease DEF OnRead
    <2> QED BY <1>c, <2>1, <2>2 DEF OnRead
  <1>d. CASE OnReadError
    BY <1>d, DoCloseRelease DEF OnReadError
  <1>e. CASE OnSend
    BY <1>e DEF OnSend, lifeVars, ReleaseInv, ReleasedProperly
  <1>f. CASE OnWrite
    BY <1>f DEF OnWrite, lifeVars, ReleaseInv, ReleasedProperly
  <1>g. CASE OnWriteError
    BY <1>g, DoCloseRelease DEF OnWriteError
  <1>h. CASE OnClose
    <2>1. tcp_sock' = "closed" /\ UNCHANGED <<passive_mode, reconn_flag>>
      BY <1>h DEF OnClose, CloseSock
    <2>2. CASE ~connection
      BY <1>h, <2>1, <2>2 DEF OnClose, ReleaseInv, ReleasedProperly
    <2>3. CASE connection /\ need_reconnect
      BY <1>h, <2>1, <2>3 DEF OnClose, need_reconnect, TypeOK, ReleaseInv, ReleasedProperly
    <2>4. CASE connection /\ ~need_reconnect
      <3>1. discs' = discs + 1 /\ socket_status' = "CLOSED" /\ Released
        BY <1>h, <2>4 DEF OnClose
      <3> QED BY <2>1, <2>4, <3>1 DEF Released, need_reconnect, TypeOK, ReleaseInv, ReleasedProperly
    <2> QED BY <2>2, <2>3, <2>4
  <1>i. CASE OnTimerConnect
    BY <1>i DEF OnTimerConnect, connect, ReleaseInv, ReleasedProperly
  <1>j. CASE OnTimerIdle
    BY <1>j DEF OnTimerIdle, lifeVars, opVars, ReleaseInv, ReleasedProperly
  <1> QED BY <1>a, <1>b, <1>c, <1>d, <1>e, <1>f, <1>g, <1>h, <1>i, <1>j DEF Worker

LEMMA OthersRelease == TypeOK /\ ReleaseInv /\ Next /\ ~Worker => ReleaseInv'
  <1> SUFFICES ASSUME TypeOK, ReleaseInv, Next, ~Worker PROVE ReleaseInv'
    OBVIOUS
  <1> USE DEF cfgVars, opVars
  <1>1. CASE Kernel \/ PeerDown
    <2>1. /\ UNCHANGED <<lifeVars, passive_mode, reconn_flag>>
          /\ tcp_sock = "closed" => tcp_sock' = "closed"
      BY <1>1 DEF Kernel, PeerDown, ReadReady, WriteReady, ConnectReady, TimerReady
    <2> QED BY <2>1, QuietRelease
  <1>2. CASE \E t \in Senders : Msend(t)
    <2>1. PICK t \in Senders : Msend(t)
      BY <1>2
    <2>2. UNCHANGED <<lifeVars, passive_mode, reconn_flag, tcp_sock>>
      BY <2>1 DEF Msend, MsendCheck, MsendLock, MsendPush, MsendPost
    <2> QED BY <2>2, QuietRelease
  <1>3. CASE \E t \in SyncSenders : SyncMsend(t)
    <2>1. PICK t \in SyncSenders : SyncMsend(t)
      BY <1>3
    <2>2. UNCHANGED <<lifeVars, passive_mode, reconn_flag, tcp_sock>>
      BY <2>1 DEF SyncMsend, SyncBegin, SyncAppend, SyncWrite, SyncClear
    <2> QED BY <2>2, QuietRelease
  <1>4. CASE \E force \in BOOLEAN : Close(force)
    <2>1. PICK force \in BOOLEAN : Close(force)
      BY <1>4
    <2>2. UNCHANGED <<lifeVars, passive_mode, tcp_sock>> /\ (reconn_flag' => reconn_flag)
      BY <2>1 DEF Close
    <2> QED BY <2>2, QuietRelease
  <1> QED BY <1>1, <1>2, <1>3, <1>4 DEF Next

LEMMA NextRelease == TypeOK /\ ReleaseInv /\ [Next]_vars => ReleaseInv'
  <1> SUFFICES ASSUME TypeOK, ReleaseInv, [Next]_vars PROVE ReleaseInv'
    OBVIOUS
  <1>1. CASE UNCHANGED vars
    BY <1>1, QuietRelease DEF vars, cfgVars, opVars
  <1> QED BY <1>1, WorkerRelease, OthersRelease

LEMMA ReleaseInvariant == Spec => [](TypeOK /\ ReleaseInv)
  BY TypeCorrect, InitRelease, NextRelease, PTL DEF Spec

(* The socket drops its connection exactly when EVT_RELEASE is raised, and *)
(* EVT_DISCONNECT came before it; without reconnect it came once.          *)
THEOREM ReleasedProperlyAlways == Spec => []ReleasedProperly
  <1>1. ReleaseInv => ReleasedProperly
    BY DEF ReleaseInv
  <1> QED BY <1>1, ReleaseInvariant, PTL

(* A write that is started on a closed socket puts nothing on the wire.    *)
LEMMA NothingOnClosedSocket ==
    ASSUME TypeOK, tcp_sock = "closed", NEW s \in Seq(Nat), NEW q,
           NEW x \in StartWrite(s, q)
    PROVE  x.wire = wire
  <1>1. Prefix(s, 0) = <<>>
    BY SubSeqEmpty DEF Prefix
  <1>2. wire \o <<>> = wire
    BY ConcatEmptySeq DEF TypeOK
  <1>3. StartWrite(s, q) = {Result(0, s, writes, Append(q, HW(FALSE, s)))}
    BY DEF StartWrite
  <1>4. x = Result(0, s, writes, Append(q, HW(FALSE, s)))
    BY <1>3
  <1> QED BY <1>1, <1>2, <1>4 DEF Result

FinalStep == phase = "released" =>
                 UNCHANGED <<phase, discs, dataPhase, wire, connection, tcp_sock>>

LEMMA NextFinal == TypeOK /\ ReleaseInv /\ [Next]_vars => FinalStep
  <1> SUFFICES ASSUME TypeOK, ReleaseInv, [Next]_vars, phase = "released"
               PROVE  UNCHANGED <<phase, discs, dataPhase, wire, connection, tcp_sock>>
    BY DEF FinalStep
  <1>0. ~connection /\ ~reconn_flag /\ tcp_sock = "closed"
    BY DEF ReleaseInv, ReleasedProperly
  <1>1. ASSUME NEW q, NEW r, do_close(q, r)
        PROVE  UNCHANGED <<phase, discs, connection, tcp_sock>>
    BY <1>0, <1>1 DEF do_close, CloseSock, lifeVars
  <1>2. ASSUME NEW q, init_read(q)
        PROVE  UNCHANGED <<phase, discs, connection, tcp_sock>>
    BY <1>0, <1>2 DEF init_read
  <1>3. ASSUME NEW k, Running(k), NEW s \in Seq(Nat),
               NEW x \in do_async_write(s, Tail(ready))
        PROVE  x.wire = wire
    <2>1. Tail(ready) \in Seq(Handler) /\ Swapped(s) \in Seq(Nat)
      BY <1>3, RunningType, AsyncWriteType
    <2> QED BY <1>0, <1>3, <2>1, NothingOnClosedSocket DEF do_async_write
  <1>4. cache_buffer \in Seq(Nat) /\ <<>> \in Seq(Nat)
    BY EmptySeq DEF TypeOK
  <1>a. CASE OnInit
    BY <1>a, <1>2 DEF OnInit
  <1>b. CASE OnConnect
    BY <1>b, <1>0 DEF OnConnect, CloseSock, sock_is_open
  <1>c. CASE OnRead
    <2>1. UNCHANGED <<phase, discs, connection, tcp_sock>>
      BY <1>c, <1>0, <1>1 DEF OnRead, lifeVars
    <2> QED BY <1>c, <1>0, <2>1 DEF OnRead
  <1>d. CASE OnReadError
    BY <1>d, <1>1 DEF OnReadError
  <1>e. CASE OnSend
    BY <1>e, <1>3, <1>4 DEF OnSend, lifeVars
  <1>f. CASE OnWrite
    <2>1. CASE rem # <<>>
      <3>1. PICK x \in StartWrite(rem, Tail(ready)) : wire' = x.wire
        BY <1>f, <2>1 DEF OnWrite
      <3>2. rem \in Seq(Nat)
        BY <1>f, RunningType DEF OnWrite
      <3>3. wire' = wire
        BY <1>0, <3>1, <3>2, NothingOnClosedSocket
      <3> QED BY <1>f, <3>3 DEF OnWrite, lifeVars
    <2>2. CASE rem = <<>>
      BY <1>f, <1>3, <1>4, <2>2 DEF OnWrite, lifeVars
    <2> QED BY <2>1, <2>2
  <1>g. CASE OnWriteError
    BY <1>g, <1>1 DEF OnWriteError
  <1>h. CASE OnClose
    BY <1>h, <1>0 DEF OnClose, CloseSock
  <1>i. CASE OnTimerConnect
    BY <1>i, <1>0 DEF OnTimerConnect
  <1>j. CASE OnTimerIdle
    BY <1>j DEF OnTimerIdle, lifeVars, opVars
  <1>k. CASE Kernel \/ PeerDown
    BY <1>k, <1>0 DEF Kernel, PeerDown, ReadReady, WriteReady, ConnectReady, TimerReady
  <1>l. CASE \E t \in Senders : Msend(t)
    <2>1. PICK t \in Senders : Msend(t)
      BY <1>l
    <2> QED BY <2>1 DEF Msend, MsendCheck, MsendLock, MsendPush, MsendPost, lifeVars, opVars
  <1>m. CASE \E t \in SyncSenders : SyncMsend(t)
    <2>1. PICK t \in SyncSenders : SyncMsend(t)
      BY <1>m
    <2> QED BY <1>0, <2>1 DEF SyncMsend, SyncBegin, SyncAppend, SyncWrite, SyncClear, lifeVars, opVars
  <1>n. CASE \E force \in BOOLEAN : Close(force)
    BY <1>n DEF Close, lifeVars, opVars
  <1>o. CASE UNCHANGED vars
    BY <1>o DEF vars, lifeVars, opVars
  <1> QED BY <1>a, <1>b, <1>c, <1>d, <1>e, <1>f, <1>g, <1>h, <1>i, <1>j, <1>k, <1>l,
             <1>m, <1>n, <1>o DEF Next, Worker

(* After EVT_RELEASE the user sees no event and no data, and the socket    *)
(* neither writes nor opens again.                                         *)
THEOREM ReleasedIsFinalAlways == Spec => ReleasedIsFinal
  <1>1. TypeOK /\ ReleaseInv /\ [Next]_vars =>
            [phase = "released" =>
               UNCHANGED <<phase, discs, dataPhase, wire, connection, tcp_sock>>]_vars
    BY NextFinal DEF FinalStep
  <1> QED BY <1>1, ReleaseInvariant, PTL DEF Spec, ReleasedIsFinal

----------------------------------------------------------------------------
(* No stranded data.  With is_writting in the place of the outstanding     *)
(* write the property is inductive by itself: the only steps that end a    *)
(* write look at send_buffer, and the only step that removes a posted      *)
(* do_send() lambda does so too unless is_writting is set.                 *)

Holds(q, k) == \E i \in DOMAIN q : q[i].k = k
HasSend(q) == Holds(q, "SEND")

LEMMA HoldsTail ==
    ASSUME TypeOK, NEW k, Running(k), NEW j, k # j, Holds(ready, j)
    PROVE  Holds(Tail(ready), j)
  <1>1. ready \in Seq(Handler) /\ ready # <<>> /\ ready[1].k = k
    BY DEF TypeOK, Running
  <1>2. PICK i \in DOMAIN ready : ready[i].k = j
    BY DEF Holds
  <1>3. i \in 1..Len(ready) /\ i # 1
    BY <1>1, <1>2
  <1>4. /\ Len(Tail(ready)) = Len(ready) - 1
        /\ \A m \in 1..Len(Tail(ready)) : Tail(ready)[m] = ready[m + 1]
        /\ Tail(ready) \in Seq(Handler)
    BY <1>1, HeadTailProperties
  <1>5. i - 1 \in 1..Len(Tail(ready)) /\ Tail(ready)[i - 1] = ready[i]
    BY <1>1, <1>3, <1>4
  <1> QED BY <1>2, <1>4, <1>5 DEF Holds

LEMMA HoldsConcat ==
    ASSUME NEW q \in Seq(Handler), NEW p \in Seq(Handler), NEW k, Holds(q, k) \/ Holds(p, k)
    PROVE  Holds(q \o p, k)
  <1>0. /\ Len(q) \in Nat /\ Len(p) \in Nat /\ DOMAIN q = 1..Len(q) /\ DOMAIN p = 1..Len(p)
        /\ Len(q \o p) = Len(q) + Len(p) /\ DOMAIN (q \o p) = 1..(Len(q) + Len(p))
    BY LenProperties, ConcatProperties
  <1>1. CASE Holds(q, k)
    <2>1. PICK i \in DOMAIN q : q[i].k = k
      BY <1>1 DEF Holds
    <2>2. i \in DOMAIN (q \o p) /\ (q \o p)[i] = q[i]
      BY <1>0, <2>1, ConcatProperties
    <2> QED BY <2>1, <2>2 DEF Holds
  <1>2. CASE Holds(p, k)
    <2>1. PICK i \in DOMAIN p : p[i].k = k
      BY <1>2 DEF Holds
    <2>2. /\ Len(q) + i \in 1..(Len(q) + Len(p)) /\ ~(Len(q) + i <= Len(q))
          /\ (Len(q) + i) - Len(q) = i
      BY <1>0, <2>1
    <2>3. (q \o p)[Len(q) + i] = p[i]
      BY <1>0, <2>2, ConcatProperties
    <2> QED BY <1>0, <2>1, <2>2, <2>3 DEF Holds
  <1> QED BY <1>1, <1>2

LEMMA HoldsAppend ==
    ASSUME NEW q \in Seq(Handler), NEW h \in Handler, NEW k, Holds(q, k) \/ h.k = k
    PROVE  Holds(Append(q, h), k)
  <1>1. /\ DOMAIN Append(q, h) = 1..(Len(q) + 1)
        /\ \A i \in 1..Len(q) : Append(q, h)[i] = q[i]
        /\ Append(q, h)[Len(q) + 1] = h
    BY AppendProperties
  <1> QED BY <1>1 DEF Holds

LEMMA HasSendTail ==
    ASSUME TypeOK, NEW k, Running(k), k # "SEND", HasSend(ready)
    PROVE  HasSend(Tail(ready))
  BY HoldsTail DEF HasSend

LEMMA HasSendConcat ==
    ASSUME NEW q \in Seq(Handler), NEW p \in Seq(Handler), HasSend(q)
    PROVE  HasSend(q \o p)
  BY HoldsConcat DEF HasSend

LEMMA HasSendAppend ==
    ASSUME NEW q \in Seq(Handler), NEW h \in Handler, HasSend(q) \/ h.k = "SEND"
    PROVE  HasSend(Append(q, h))
  BY HoldsAppend DEF HasSend

LEMMA HasSendStartWrite ==
    ASSUME TypeOK, NEW s \in Seq(Nat), NEW q \in Seq(Handler), HasSend(q),
           NEW x \in StartWrite(s, q)
    PROVE  HasSend(x.q)
  <1>1. HW(FALSE, s) \in Handler
    BY HandlerType
  <1>2. ASSUME NEW n \in 1..Len(s)
        PROVE  HW(TRUE, Rest(s, n)) \in Handler
    <2>1. n \in 0..Len(s)
      BY LenProperties
    <2> QED BY <2>1, PrefixRestType, HandlerType
  <1>3. \/ x = Result(0, s, Append(writes, s), q)
        \/ x = Result(0, s, writes, Append(q, HW(FALSE, s)))
        \/ \E n \in 1..Len(s) : x = Result(n, s, writes, Append(q, HW(TRUE, Rest(s, n))))
    BY DEF StartWrite
  <1>4. CASE x = Result(0, s, Append(writes, s), q)
    <2>1. x.q = q
      BY <1>4 DEF Result
    <2> QED BY <2>1
  <1>5. CASE x = Result(0, s, writes, Append(q, HW(FALSE, s)))
    <2>1. x.q = Append(q, HW(FALSE, s))
      BY <1>5 DEF Result
    <2> QED BY <1>1, <2>1, HasSendAppend
  <1>6. ASSUME NEW n \in 1..Len(s), x = Result(n, s, writes, Append(q, HW(TRUE, Rest(s, n))))
        PROVE  HasSend(x.q)
    <2>1. x.q = Append(q, HW(TRUE, Rest(s, n)))
      BY <1>6 DEF Result
    <2> QED BY <1>2, <2>1, HasSendAppend
  <1> QED BY <1>3, <1>4, <1>5, <1>6

Attended == connection /\ send_buffer # <<>> =>
                is_writting \/ HasSend(ready) \/ \E t \in Senders : pc[t] = "pushed"

(* Steps that leave the buffers alone and lose no posted do_send().        *)
LEMMA QuietAttended ==
    ASSUME Attended, UNCHANGED <<send_buffer, is_writting, pc>>,
           connection' => connection, HasSend(ready) => HasSend(ready')
    PROVE  Attended'
  BY DEF Attended, HasSend, Holds

LEMMA DoCloseAttended ==
    ASSUME TypeOK, Attended, NEW k, Running(k), k # "SEND", NEW r, do_close(Tail(ready), r),
           UNCHANGED <<is_writting, pc>>
    PROVE  Attended'
  <1>1. CASE socket_status \in {"CLOSING", "CLOSED"}
    <2>1. ready' = Tail(ready) /\ UNCHANGED <<send_buffer, connection>>
      BY <1>1 DEF do_close, lifeVars
    <2> QED BY <2>1, HasSendTail, QuietAttended
  <1>2. CASE socket_status \notin {"CLOSING", "CLOSED"} /\ ~connection
    BY <1>2 DEF do_close, Attended
  <1>3. CASE socket_status \notin {"CLOSING", "CLOSED"} /\ connection
    BY <1>3 DEF do_close, Attended
  <1> QED BY <1>1, <1>2, <1>3

LEMMA CloseSockAttended ==
    ASSUME TypeOK, NEW q \in Seq(Handler), CloseSock(q, writes), HasSend(q)
    PROVE  HasSend(ready')
  <1>1. Aborted(reads, writes, connecting) \in Seq(Handler)
    BY AbortedType DEF TypeOK
  <1> QED BY <1>1, HasSendConcat DEF CloseSock

LEMMA WorkerAttended == TypeOK /\ Attended /\ Worker => Attended'
  <1> SUFFICES ASSUME TypeOK, Attended, Worker PROVE Attended'
    OBVIOUS
  <1> USE DEF appVars
  <1>1. ASSUME NEW k, Running(k) PROVE Tail(ready) \in Seq(Handler)
    BY <1>1, RunningType
  <1>2. ASSUME NEW cache, TakeSendBuffer(cache) PROVE Attended'
    BY <1>2 DEF TakeSendBuffer, Swapped, Attended
  <1>a. CASE OnInit
    BY <1>a, HasSendTail, QuietAttended DEF OnInit, init_read, bufVars
  <1>b. CASE OnConnect
    <2>1. UNCHANGED <<send_buffer, is_writting, pc, connection>>
      BY <1>b DEF OnConnect, init_read, bufVars
    <2>2. HasSend(ready) => HasSend(ready')
      BY <1>b, <1>1, HasSendTail, CloseSockAttended DEF OnConnect, init_read
    <2> QED BY <2>1, <2>2, QuietAttended
  <1>c. CASE OnRead
    <2>1. CASE ready' = Tail(ready) /\ UNCHANGED <<lifeVars, bufVars>>
      BY <1>c, <2>1, HasSendTail, QuietAttended DEF OnRead, lifeVars, bufVars
    <2>2. CASE (\E r \in {0, 1} : do_close(Tail(ready), r)) /\ UNCHANGED is_writting
      BY <1>c, <2>2, DoCloseAttended DEF OnRead
    <2> QED BY <1>c, <2>1, <2>2 DEF OnRead
  <1>d. CASE OnReadError
    BY <1>d, DoCloseAttended DEF OnReadError
  <1>e. CASE OnSend
    <2>1. CASE is_writting
      BY <1>e, <2>1 DEF OnSend, bufVars, Attended
    <2>2. CASE ~is_writting
      BY <1>e, <1>2, <2>2 DEF OnSend
    <2> QED BY <2>1, <2>2
  <1>f. CASE OnWrite
    <2>1. CASE rem # <<>>
      <3>1. PICK x \in StartWrite(rem, Tail(ready)) : ready' = x.q
        BY <1>f, <2>1 DEF OnWrite
      <3>2. rem \in Seq(Nat)
        BY <1>f, RunningType DEF OnWrite
      <3>3. HasSend(ready) => HasSend(ready')
        BY <1>f, <1>1, <3>1, <3>2, HasSendTail, HasSendStartWrite DEF OnWrite
      <3> QED BY <1>f, <2>1, <3>3, QuietAttended DEF OnWrite, bufVars, lifeVars
    <2>2. CASE rem = <<>>
      BY <1>f, <1>2, <2>2 DEF OnWrite
    <2> QED BY <2>1, <2>2
  <1>g. CASE OnWriteError
    BY <1>g, DoCloseAttended DEF OnWriteError
  <1>h. CASE OnClose
    <2>1. CASE connection /\ send_buffer # <<>>
      BY <1>h, <1>2, <2>1 DEF OnClose
    <2>2. CASE ~(connection /\ send_buffer # <<>>)
      <3>1. UNCHANGED send_buffer /\ (connection' => connection)
        BY <1>h, <2>2 DEF OnClose, bufVars
      <3> QED BY <2>2, <3>1 DEF Attended
    <2> QED BY <2>1, <2>2
  <1>i. CASE OnTimerConnect
    <2>1. Aborted(reads, writes, connecting) \in Seq(Handler)
      BY AbortedType DEF TypeOK
    <2>2. HasSend(ready) => HasSend(ready')
      BY <1>i, <1>1, <2>1, HasSendTail, HasSendConcat DEF OnTimerConnect, connect
    <2> QED BY <1>i, <2>2, QuietAttended DEF OnTimerConnect, bufVars
  <1>j. CASE OnTimerIdle
    BY <1>j, HasSendTail, QuietAttended DEF OnTimerIdle, bufVars, lifeVars
  <1> QED BY <1>a, <1>b, <1>c, <1>d, <1>e, <1>f, <1>g, <1>h, <1>i, <1>j DEF Worker

LEMMA KernelAttended == TypeOK /\ Attended /\ (Kernel \/ PeerDown) => Attended'
  <1> SUFFICES ASSUME TypeOK, Attended, Kernel \/ PeerDown PROVE Attended'
    OBVIOUS
  <1>0. <<>> \in Seq(Nat) /\ ready \in Seq(Handler)
    BY EmptySeq DEF TypeOK
  <1>1. UNCHANGED <<send_buffer, is_writting, pc, connection>>
    BY DEF Kernel, PeerDown, ReadReady, WriteReady, ConnectReady, TimerReady,
           appVars, bufVars, lifeVars
  <1>2. ready' = ready \/ \E h \in Handler : ready' = Append(ready, h)
    <2>1. \A b \in BOOLEAN : /\ H("READ", b) \in Handler /\ H("CONNECT", b) \in Handler
                             /\ H("TIMER", b) \in Handler
      BY <1>0, HandlerType
    <2>a. CASE ReadReady
      BY <2>1, <2>a DEF ReadReady
    <2>b. CASE WriteReady
      <3>1. Head(writes) \in Seq(Nat)
        BY <2>b, HeadTailProperties DEF WriteReady, TypeOK
      <3>2. HW(FALSE, Head(writes)) \in Handler
        BY <3>1, HandlerType
      <3>3. ASSUME NEW n \in 1..Len(Head(writes))
            PROVE  HW(TRUE, Rest(Head(writes), n)) \in Handler
        <4>1. n \in 0..Len(Head(writes))
          BY <3>1, LenProperties
        <4> QED BY <3>1, <4>1, PrefixRestType, HandlerType
      <3> QED BY <2>b, <3>2, <3>3 DEF WriteReady
    <2>c. CASE ConnectReady
      BY <2>1, <2>c DEF ConnectReady
    <2>d. CASE TimerReady
      BY <2>1, <2>d DEF TimerReady
    <2>e. CASE PeerDown
      BY <2>e DEF PeerDown
    <2> QED BY <2>a, <2>b, <2>c, <2>d, <2>e DEF Kernel
  <1>3. HasSend(ready) => HasSend(ready')
    BY <1>0, <1>2, HasSendAppend
  <1> QED BY <1>1, <1>3, QuietAttended

LEMMA SendersAttended ==
    ASSUME TypeOK, Attended, NEW t \in Senders, Msend(t)
    PROVE  Attended'
  <1>0. /\ t \in Threads /\ ready \in Seq(Handler)
        /\ pc \in [Threads -> {"idle", "checked", "pushing", "pushed",
                               "appending", "writing", "clearing"}]
    BY DEF TypeOK, Threads
  <1>1. CASE MsendCheck(t)
    BY <1>0, <1>1 DEF MsendCheck, Goto, Attended, bufVars, lifeVars
  <1>2. CASE MsendLock(t)
    BY <1>0, <1>2 DEF MsendLock, Goto, Attended, bufVars, lifeVars
  <1>3. CASE MsendPush(t)
    BY <1>0, <1>3 DEF MsendPush, Goto, Attended
  <1>4. CASE MsendPost(t)
    <2>1. H("SEND", TRUE) \in Handler /\ H("SEND", TRUE).k = "SEND"
      BY EmptySeq, HandlerType DEF H
    <2>2. HasSend(ready')
      BY <1>0, <1>4, <2>1, HasSendAppend DEF MsendPost
    <2> QED BY <2>2 DEF Attended
  <1> QED BY <1>1, <1>2, <1>3, <1>4 DEF Msend

(***************************************************************************)
(* The usages of MCTcp.                                                    *)
(***************************************************************************)

----------------------------------------------------------------------------
(* Handlers of some kinds among those that wait.                           *)

None(q, K)   == \A i \in DOMAIN q : q[i].k \notin K
One(q, K, h) == /\ h.k \in K
                /\ \E i \in DOMAIN q : q[i] = h /\ \A j \in DOMAIN q : q[j].k \in K => j = i

(* The inductive invariant, in parts.  What a usage leaves out.            *)
Used ==
    /\ usage \in {"stream", "close", "sync", "reconnect", "tls"}
    /\ usage \in {"stream", "close", "sync"} => ~reconn_flag
    /\ usage \in {"stream", "sync", "reconnect"} \/ reconn_flag => closes = 0
    /\ closes = 0 => None(ready, {"CLOSE"})
    /\ usage # "sync" => \A t \in SyncSenders : pc[t] = "idle"
    /\ usage = "sync" => (\A t \in Senders : pc[t] = "idle") /\ None(ready, {"SEND"})
    /\ usage # "tls" => ~shaking /\ None(ready, {"SHAKE"})
    /\ reconn_flag => ~passive_mode

(* Without reconnect the life of a connection is one chain of operations:  *)
(* the connect, the handshake, and one read after the other.               *)
Chained == {"INIT", "CONNECT", "SHAKE", "READ"}
Operations == reads + connecting + (IF shaking THEN 1 ELSE 0)
Link ==
    \/ /\ Operations = 0
       /\ \E h \in Handler : /\ One(ready, Chained, h)
                             /\ phase = IF h.k = "READ" THEN "up" ELSE "created"
    \/ /\ Operations = 1 /\ None(ready, Chained)
       /\ phase = IF reads = 1 THEN "up" ELSE "created"
Chain ==
    ~reconn_flag =>
      /\ connection =>
           \/ /\ tcp_sock = "closed" /\ phase = "created"
              /\ Operations = 0 /\ None(ready, Chained)
           \/ tcp_sock # "closed" /\ socket_status \notin {"CLOSING", "CLOSED"} /\ Link
      /\ socket_status = "OPEN" => connection /\ phase = "up"
      /\ connection /\ phase = "up" /\ usage # "tls" => socket_status = "OPEN"
      /\ dataPhase = "up"

(* Nothing is sent before the connection is open, and over TLS before a    *)
(* handshake has succeeded.                                                *)
NoSends ==
    /\ ~is_writting /\ writes = <<>> /\ send_buffer = <<>> /\ cache_buffer = <<>>
    /\ wire = <<>> /\ accepted = 0
    /\ None(ready, {"WRITE", "SEND"}) /\ \A t \in Senders : pc[t] = "idle"
Unsent ==
    usage # "sync" /\ ~reconn_flag /\ connection /\ socket_status # "OPEN" => NoSends
Shaken ==
    usage = "tls" /\ ~ssl_shakehand => socket_status # "OPEN" /\ phase # "up" /\ NoSends

(* A buffer holds the last of the units accepted.                          *)
Last(s, n) == Len(s) <= n /\ \A i \in 1..Len(s) : s[i] + Len(s) = n + i
Buffers ==
    closes = 0 /\ usage # "sync" =>
      /\ Last(send_buffer, accepted)
      /\ \A t \in Senders : pc[t] = "pushing" =>
           /\ write_mutex = t /\ Last(snapshot[t], accepted)
           /\ ~reconn_flag /\ connection => snapshot[t] = send_buffer

(* One write at a time, of which r is left.  A write that failed leaves    *)
(* is_writting set on a connection that will be opened again.              *)
InFlight(r) ==
    \/ r = <<>> /\ writes = <<>> /\ None(ready, {"WRITE"}) /\ (is_writting => reconn_flag)
    \/ is_writting /\ writes = <<r>> /\ None(ready, {"WRITE"})
    \/ is_writting /\ writes = <<>> /\ \E b \in BOOLEAN : One(ready, {"WRITE"}, HW(b, r))

(* No unit after l is on the wire w, r follows, and then comes the buffer  *)
(* s, or what a sender is about to make of it.                             *)
Follows(l, r, w) == /\ \A i \in 1..Len(r) : r[i] = l + i
                    /\ \A i \in 1..Len(w) : w[i] <= l
Placed(l, r, w, s) ==
    /\ l + Len(r) + Len(s) <= accepted
    /\ Follows(l, r, w)
    /\ \A t \in Senders : pc[t] = "pushing" => l + Len(r) + Len(snapshot[t]) <= accepted
    /\ ~reconn_flag => Len(w) = l /\ l + Len(r) + Len(s) = accepted
Flow ==
    closes = 0 /\ usage # "sync" /\ connection =>
      /\ ~is_writting => cache_buffer = <<>>
      /\ \E l \in Nat, r \in Seq(Nat) : InFlight(r) /\ Placed(l, r, wire, send_buffer)

(* A synchronous sender writes its buffer at once and clears it: the wire  *)
(* has the units up to b, each exactly once unless a write failed          *)
(* half-way, and the buffer has the rest.                                  *)
Has(w, b) == \A u \in 1..b : \E j \in 1..Len(w) : w[j] = u
Written(b) == Has(wire, b) /\ (~torn => Len(wire) = b)
Buffered(b) == b + Len(send_buffer) = accepted /\ \A i \in 1..Len(send_buffer) : send_buffer[i] = b + i
SyncFlow ==
    usage = "sync" =>
      /\ ~is_writting /\ writes = <<>> /\ cache_buffer = <<>> /\ None(ready, {"WRITE"})
      /\ tcp_sock # "closed" =>
           /\ IF \E t \in SyncSenders : pc[t] = "clearing" THEN Written(accepted)
              ELSE \E b \in Nat : Buffered(b) /\ Written(b)
           /\ \A t \in SyncSenders : pc[t] = "appending" => snapshot[t] = send_buffer

Ordered == closes = 0 /\ ~torn => WireInOrder
----------------------------------------------------------------------------
(* Queues of handlers.                                                     *)

(* p holds the same handlers of kinds K as q.                              *)
Keeps(q, p, K) == /\ None(q, K) => None(p, K)
                  /\ \A h : One(q, K, h) => One(p, K, h)

LEMMA TailQueue ==
    ASSUME NEW q \in Seq(Handler), q # <<>>
    PROVE  /\ DOMAIN q = 1..Len(q) /\ Len(q) \in Nat \ {0} /\ Head(q) = q[1]
           /\ DOMAIN Tail(q) = 1..(Len(q) - 1)
           /\ \A i \in 1..(Len(q) - 1) : Tail(q)[i] = q[i + 1]
  <1>1. /\ Len(Tail(q)) = Len(q) - 1 /\ Tail(q) \in Seq(Handler) /\ Len(q) \in Nat \ {0}
        /\ \A i \in 1..Len(Tail(q)) : Tail(q)[i] = q[i + 1]
    BY HeadTailProperties, EmptySeq, LenProperties
  <1> QED BY <1>1, LenProperties

LEMMA KeepsTail ==
    ASSUME NEW q \in Seq(Handler), q # <<>>, NEW K, Head(q).k \notin K
    PROVE  Keeps(q, Tail(q), K)
  <1>1. /\ DOMAIN q = 1..Len(q) /\ Len(q) \in Nat \ {0} /\ q[1].k \notin K
        /\ DOMAIN Tail(q) = 1..(Len(q) - 1)
        /\ \A i \in 1..(Len(q) - 1) : Tail(q)[i] = q[i + 1]
    BY TailQueue
  <1>2. None(q, K) => None(Tail(q), K)
    BY <1>1 DEF None
  <1>3. ASSUME NEW h, One(q, K, h) PROVE One(Tail(q), K, h)
    <2>1. PICK i \in DOMAIN q : q[i] = h /\ \A j \in DOMAIN q : q[j].k \in K => j = i
      BY <1>3 DEF One
    <2>2. h.k \in K
      BY <1>3 DEF One
    <2>3. i # 1 /\ i - 1 \in 1..(Len(q) - 1) /\ (i - 1) + 1 = i
      BY <1>1, <2>1, <2>2
    <2>4. Tail(q)[i - 1] = h
      BY <1>1, <2>1, <2>3
    <2>5. \A j \in 1..(Len(q) - 1) : Tail(q)[j].k \in K => j = i - 1
      BY <1>1, <2>1
    <2> QED BY <1>1, <2>2, <2>3, <2>4, <2>5 DEF One
  <1> QED BY <1>2, <1>3 DEF Keeps

LEMMA NoneTail ==
    ASSUME NEW q \in Seq(Handler), q # <<>>, NEW K, None(q, K)
    PROVE  None(Tail(q), K) /\ Head(q).k \notin K
  BY TailQueue DEF None

LEMMA TakeOne ==
    ASSUME NEW q \in Seq(Handler), q # <<>>, NEW K, Head(q).k \in K, NEW h, One(q, K, h)
    PROVE  Head(q) = h /\ None(Tail(q), K)
  <1>1. /\ DOMAIN q = 1..Len(q) /\ Len(q) \in Nat \ {0} /\ Head(q) = q[1]
        /\ DOMAIN Tail(q) = 1..(Len(q) - 1)
        /\ \A i \in 1..(Len(q) - 1) : Tail(q)[i] = q[i + 1]
    BY TailQueue
  <1>2. PICK i \in DOMAIN q : q[i] = h /\ \A j \in DOMAIN q : q[j].k \in K => j = i
    BY DEF One
  <1>3. i = 1
    BY <1>1, <1>2
  <1>4. \A j \in 1..(Len(q) - 1) : j + 1 \in 1..Len(q) /\ j + 1 # 1
    BY <1>1
  <1> QED BY <1>1, <1>2, <1>3, <1>4 DEF None

LEMMA AppendQueue ==
    ASSUME NEW q \in Seq(Handler), NEW h \in Handler
    PROVE  /\ DOMAIN q = 1..Len(q) /\ Len(q) \in Nat
           /\ Append(q, h) \in Seq(Handler) /\ DOMAIN Append(q, h) = 1..(Len(q) + 1)
           /\ \A i \in 1..Len(q) : Append(q, h)[i] = q[i]
           /\ Append(q, h)[Len(q) + 1] = h
  BY AppendProperties, LenProperties

LEMMA KeepsAppend ==
    ASSUME NEW q \in Seq(Handler), NEW h \in Handler, NEW K, h.k \notin K
    PROVE  Keeps(q, Append(q, h), K)
  <1>1. /\ DOMAIN q = 1..Len(q) /\ Len(q) \in Nat /\ DOMAIN Append(q, h) = 1..(Len(q) + 1)
        /\ \A i \in 1..Len(q) : Append(q, h)[i] = q[i]
        /\ Append(q, h)[Len(q) + 1] = h
    BY AppendQueue
  <1>2. \A i \in 1..(Len(q) + 1) : i \in 1..Len(q) \/ i = Len(q) + 1
    BY <1>1
  <1>3. None(q, K) => None(Append(q, h), K)
    BY <1>1, <1>2 DEF None
  <1>4. ASSUME NEW g, One(q, K, g) PROVE One(Append(q, h), K, g)
    <2>1. PICK i \in DOMAIN q : q[i] = g /\ \A j \in DOMAIN q : q[j].k \in K => j = i
      BY <1>4 DEF One
    <2>2. i \in 1..(Len(q) + 1) /\ Append(q, h)[i] = g
      BY <1>1, <2>1
    <2>3. \A j \in 1..(Len(q) + 1) : Append(q, h)[j].k \in K => j = i
      BY <1>1, <1>2, <2>1
    <2> QED BY <1>1, <1>4, <2>2, <2>3 DEF One
  <1> QED BY <1>3, <1>4 DEF Keeps

LEMMA AddOne ==
    ASSUME NEW q \in Seq(Handler), NEW h \in Handler, NEW K, h.k \in K, None(q, K)
    PROVE  One(Append(q, h), K, h)
  <1>1. /\ DOMAIN q = 1..Len(q) /\ Len(q) \in Nat /\ DOMAIN Append(q, h) = 1..(Len(q) + 1)
        /\ \A i \in 1..Len(q) : Append(q, h)[i] = q[i]
        /\ Append(q, h)[Len(q) + 1] = h
    BY AppendQueue
  <1>2. \A i \in 1..(Len(q) + 1) : i \in 1..Len(q) \/ i = Len(q) + 1
    BY <1>1
  <1>3. Len(q) + 1 \in DOMAIN Append(q, h)
    BY <1>1
  <1>4. \A j \in DOMAIN Append(q, h) : Append(q, h)[j].k \in K => j = Len(q) + 1
    BY <1>1, <1>2 DEF None
  <1> QED BY <1>1, <1>3, <1>4 DEF One

LEMMA ConcatQueue ==
    ASSUME NEW q \in Seq(Handler), NEW p \in Seq(Handler)
    PROVE  /\ DOMAIN q = 1..Len(q) /\ Len(q) \in Nat /\ DOMAIN p = 1..Len(p) /\ Len(p) \in Nat
           /\ q \o p \in Seq(Handler) /\ DOMAIN (q \o p) = 1..(Len(q) + Len(p))
           /\ \A i \in 1..Len(q) : (q \o p)[i] = q[i]
           /\ \A i \in 1..(Len(q) + Len(p)) :
                i \in 1..Len(q) \/ (i - Len(q) \in 1..Len(p) /\ (q \o p)[i] = p[i - Len(q)])
           /\ \A i \in 1..Len(p) : /\ Len(q) + i \in 1..(Len(q) + Len(p))
                                   /\ Len(q) + i \notin 1..Len(q) /\ (Len(q) + i) - Len(q) = i
  <1>1. /\ Len(q) \in Nat /\ Len(p) \in Nat /\ DOMAIN q = 1..Len(q) /\ DOMAIN p = 1..Len(p)
    BY LenProperties
  <1>2. /\ q \o p \in Seq(Handler) /\ Len(q \o p) = Len(q) + Len(p)
        /\ \A i \in 1..(Len(q) + Len(p)) :
             (q \o p)[i] = IF i <= Len(q) THEN q[i] ELSE p[i - Len(q)]
    BY ConcatProperties
  <1>3. DOMAIN (q \o p) = 1..(Len(q) + Len(p))
    BY <1>2, LenProperties
  <1> QED BY <1>1, <1>2, <1>3

LEMMA NoneConcat ==
    ASSUME NEW q \in Seq(Handler), NEW p \in Seq(Handler), NEW K, None(q, K), None(p, K)
    PROVE  None(q \o p, K)
  BY ConcatQueue DEF None

LEMMA KeepsConcat ==
    ASSUME NEW q \in Seq(Handler), NEW p \in Seq(Handler), NEW K, None(p, K)
    PROVE  Keeps(q, q \o p, K)
  <1>1. None(q, K) => None(q \o p, K)
    BY NoneConcat
  <1>2. ASSUME NEW g, One(q, K, g) PROVE One(q \o p, K, g)
    <2>1. PICK i \in DOMAIN q : q[i] = g /\ \A j \in DOMAIN q : q[j].k \in K => j = i
      BY <1>2 DEF One
    <2>2. i \in DOMAIN (q \o p) /\ (q \o p)[i] = g
      BY <2>1, ConcatQueue
    <2>3. \A j \in DOMAIN (q \o p) : (q \o p)[j].k \in K => j = i
      BY <2>1, ConcatQueue DEF None
    <2> QED BY <1>2, <2>2, <2>3 DEF One
  <1> QED BY <1>1, <1>2 DEF Keeps

LEMMA OneConcat ==
    ASSUME NEW q \in Seq(Handler), NEW p \in Seq(Handler), NEW K, None(q, K), NEW g, One(p, K, g)
    PROVE  One(q \o p, K, g)
  <1>1. PICK i \in DOMAIN p : p[i] = g /\ \A j \in DOMAIN p : p[j].k \in K => j = i
    BY DEF One
  <1>2. /\ DOMAIN q = 1..Len(q) /\ Len(q) \in Nat /\ DOMAIN p = 1..Len(p) /\ Len(p) \in Nat
        /\ DOMAIN (q \o p) = 1..(Len(q) + Len(p))
        /\ \A j \in 1..Len(q) : (q \o p)[j] = q[j]
        /\ \A j \in 1..(Len(q) + Len(p)) :
                j \in 1..Len(q) \/ (j - Len(q) \in 1..Len(p) /\ (q \o p)[j] = p[j - Len(q)])
        /\ \A j \in 1..Len(p) : /\ Len(q) + j \in 1..(Len(q) + Len(p))
                                /\ Len(q) + j \notin 1..Len(q) /\ (Len(q) + j) - Len(q) = j
    BY ConcatQueue
  <1>3. Len(q) + i \in DOMAIN (q \o p) /\ (q \o p)[Len(q) + i] = g
    BY <1>1, <1>2
  <1>4. ASSUME NEW j \in DOMAIN (q \o p), (q \o p)[j].k \in K PROVE j = Len(q) + i
    <2>1. j \notin 1..Len(q)
      BY <1>2, <1>4 DEF None
    <2>2. j - Len(q) = i
      BY <1>1, <1>2, <1>4, <2>1
    <2> QED BY <1>2, <1>4, <2>2
  <1> QED BY <1>3, <1>4 DEF One

LEMMA KeepsTrans ==
    ASSUME NEW q, NEW p, NEW s, NEW K, Keeps(q, p, K), Keeps(p, s, K)
    PROVE  Keeps(q, s, K)
  BY DEF Keeps

LEMMA KeepsSame ==
    ASSUME NEW q, NEW K
    PROVE  Keeps(q, q, K)
  BY DEF Keeps

(* What tcp_sock.close() completes with an error.                          *)
LEMMA AbortedNone ==
    ASSUME NEW r \in Nat, NEW w \in Seq(Seq(Nat)), NEW c \in Nat, NEW K,
           r = 0 \/ "READ" \notin K, w = <<>> \/ "WRITE" \notin K, c = 0 \/ "CONNECT" \notin K
    PROVE  None(Aborted(r, w, c), K) /\ Aborted(r, w, c) \in Seq(Handler)
  <1> DEFINE R == [i \in 1..r |-> H("READ", FALSE)]
             W == [i \in 1..Len(w) |-> HW(FALSE, w[i])]
             C == [i \in 1..c |-> H("CONNECT", FALSE)]
  <1>1. H("READ", FALSE) \in Handler /\ H("CONNECT", FALSE) \in Handler
    BY EmptySeq, HandlerType
  <1>2. \A i \in 1..Len(w) : HW(FALSE, w[i]) \in Handler
    BY ElementOfSeq, HandlerType
  <1>3. R \in [1..r -> Handler] /\ W \in [1..Len(w) -> Handler] /\ C \in [1..c -> Handler]
    BY <1>1, <1>2
  <1>4. R \in Seq(Handler) /\ W \in Seq(Handler) /\ C \in Seq(Handler)
    BY <1>3, FunctionIsSeq, LenProperties
  <1>5. None(R, K)
    BY DEF None, H
  <1>6. None(C, K)
    BY DEF None, H
  <1>7. None(W, K)
    BY DEF None, HW
  <1>8. R \o W \in Seq(Handler) /\ None(R \o W, K)
    BY <1>4, <1>5, <1>7, NoneConcat, ConcatProperties
  <1>9. (R \o W) \o C \in Seq(Handler) /\ None((R \o W) \o C, K)
    BY <1>4, <1>6, <1>8, NoneConcat, ConcatProperties
  <1> QED BY <1>9 DEF Aborted

LEMMA AbortedOne ==
    ASSUME NEW r \in Nat, NEW s \in Seq(Nat), NEW c \in Nat
    PROVE  One(Aborted(r, <<s>>, c), {"WRITE"}, HW(FALSE, s))
  <1> DEFINE R == [i \in 1..r |-> H("READ", FALSE)]
             W == [i \in 1..Len(<<s>>) |-> HW(FALSE, (<<s>>)[i])]
             C == [i \in 1..c |-> H("CONNECT", FALSE)]
  <1>1. H("READ", FALSE) \in Handler /\ H("CONNECT", FALSE) \in Handler /\ HW(FALSE, s) \in Handler
    BY EmptySeq, HandlerType
  <1>2. W = [i \in 1..1 |-> HW(FALSE, s)]
    <2>1. Len(<<s>>) = 1
      OBVIOUS
    <2>2. \A i \in 1..1 : (<<s>>)[i] = s
      OBVIOUS
    <2>3. \A i \in 1..1 : HW(FALSE, (<<s>>)[i]) = HW(FALSE, s)
      BY <2>2
    <2> QED BY <2>1, <2>3, Zenon
  <1> HIDE DEF W
  <1>3. R \in [1..r -> Handler] /\ W \in [1..1 -> Handler] /\ C \in [1..c -> Handler]
    BY <1>1, <1>2
  <1>4. R \in Seq(Handler) /\ W \in Seq(Handler) /\ C \in Seq(Handler)
    BY <1>3, FunctionIsSeq
  <1>5. None(R, {"WRITE"}) /\ None(C, {"WRITE"})
    BY DEF None, H
  <1>6. One(W, {"WRITE"}, HW(FALSE, s))
    <2>1. DOMAIN W = 1..1 /\ W[1] = HW(FALSE, s) /\ 1 \in 1..1 /\ \A j \in 1..1 : j = 1
      BY <1>2
    <2>2. HW(FALSE, s).k \in {"WRITE"}
      BY DEF HW
    <2> QED BY <2>1, <2>2 DEF One
  <1>7. One(R \o W, {"WRITE"}, HW(FALSE, s)) /\ R \o W \in Seq(Handler)
    BY <1>4, <1>5, <1>6, OneConcat, ConcatProperties
  <1>8. One((R \o W) \o C, {"WRITE"}, HW(FALSE, s))
    BY <1>4, <1>5, <1>7, KeepsConcat DEF Keeps
  <1> QED BY <1>8 DEF Aborted, W

(* Starting a write adds at most its own handler.                          *)
LEMMA Outcomes ==
    ASSUME NEW s \in Seq(Nat), NEW q \in Seq(Handler), NEW x \in StartWrite(s, q)
    PROVE  \/ x = Result(0, s, Append(writes, s), q) /\ tcp_sock # "closed"
           \/ x = Result(0, s, writes, Append(q, HW(FALSE, s)))
           \/ /\ tcp_sock # "closed"
              /\ \E n \in 1..Len(s) : x = Result(n, s, writes, Append(q, HW(TRUE, Rest(s, n))))
  BY DEF StartWrite

LEMMA KeepsStart ==
    ASSUME TypeOK, NEW s \in Seq(Nat), NEW q \in Seq(Handler), NEW x \in StartWrite(s, q),
           NEW K, "WRITE" \notin K
    PROVE  Keeps(q, x.q, K)
  <1>0. \A b \in BOOLEAN, r \in Seq(Nat) : HW(b, r) \in Handler /\ HW(b, r).k \notin K
    BY HandlerType DEF HW
  <1>1. CASE x = Result(0, s, Append(writes, s), q)
    <2>1. x.q = q
      BY <1>1 DEF Result
    <2> QED BY <2>1, KeepsSame
  <1>2. CASE x = Result(0, s, writes, Append(q, HW(FALSE, s)))
    <2>1. x.q = Append(q, HW(FALSE, s))
      BY <1>2 DEF Result
    <2> QED BY <1>0, <2>1, KeepsAppend
  <1>3. ASSUME NEW n \in 1..Len(s), x = Result(n, s, writes, Append(q, HW(TRUE, Rest(s, n))))
        PROVE  Keeps(q, x.q, K)
    <2>1. x.q = Append(q, HW(TRUE, Rest(s, n)))
      BY <1>3 DEF Result
    <2>2. n \in 0..Len(s)
      BY LenProperties
    <2>3. Rest(s, n) \in Seq(Nat)
      BY <2>2, PrefixRestType
    <2>4. HW(TRUE, Rest(s, n)) \in Handler /\ HW(TRUE, Rest(s, n)).k \notin K
      BY <1>0, <2>3
    <2> QED BY <2>1, <2>4, KeepsAppend
  <1> QED BY <1>1, <1>2, <1>3, Outcomes

----------------------------------------------------------------------------
(* The steps of MCNext, with what TLS and TCP have in common taken         *)
(* together: how a connection comes up, and close() by the user.           *)

ComesUp(k) ==
    /\ Running(k)
    /\ \/ /\ init_read(Tail(ready)) /\ UNCHANGED shaking
          /\ usage = "tls" /\ connection => ssl_shakehand
       \/ /\ usage = "tls" /\ connection /\ shaking' = TRUE
          /\ ready' = Tail(ready) /\ UNCHANGED <<lifeVars, opVars>>
       \/ /\ CloseSock(Tail(ready), writes) /\ socket_status' = "CLOSED"
          /\ UNCHANGED <<connection, phase, discs, shaking>>
    /\ UNCHANGED <<appVars, bufVars, cfgVars, wire, dataPhase, ssl_shakehand>>

Asks ==
    /\ closes' = closes + 1
    /\ ready' = ready \/ ready' = Append(ready, H("CLOSE", TRUE))
    /\ UNCHANGED <<appVars, opVars, bufVars, lifeVars, passive_mode, reconn_flag, connects,
                   torn, wire, dataPhase>>

Moves ==
    \/ \E k \in {"INIT", "CONNECT"} : ComesUp(k)
    \/ usage = "tls" /\ (OnShake \/ ShakeReady)
    \/ /\ UNCHANGED <<shaking, ssl_shakehand>>
       /\ \/ OnRead \/ OnReadError \/ OnSend \/ OnWrite \/ OnWriteError \/ OnClose
          \/ OnTimerConnect \/ OnTimerIdle \/ Kernel \/ PeerDown
          \/ usage # "sync" /\ \E t \in Senders : Msend(t)
          \/ usage = "sync" /\ \E t \in SyncSenders : SyncMsend(t)
          \/ Asks

TlsType == ssl_shakehand \in BOOLEAN /\ shaking \in BOOLEAN

LEMMA Cases ==
    ASSUME TypeOK, Used, MCNext
    PROVE  Moves
  <1>0. /\ Senders \subseteq Threads /\ SyncSenders \subseteq Threads
        /\ pc \in [Threads -> {"idle", "checked", "pushing", "pushed",
                               "appending", "writing", "clearing"}]
    BY DEF TypeOK, Threads
  <1>1. ASSUME NEW t \in SyncSenders, SyncMsend(t) PROVE usage = "sync"
    <2>1. usage # "sync" => pc'[t] = "idle" /\ pc[t] = "idle"
      BY DEF MCNext, Idle, Used
    <2>2. pc[t] # "idle" \/ pc'[t] # "idle"
      BY <1>0, <1>1 DEF SyncMsend, SyncBegin, SyncAppend, SyncWrite, SyncClear, Goto
    <2> QED BY <2>1, <2>2
  <1>2. ASSUME NEW t \in Senders, Msend(t) PROVE usage # "sync"
    <2>1. usage = "sync" => pc'[t] = "idle" /\ pc[t] = "idle"
      BY DEF MCNext, Idle, Used
    <2>2. pc[t] # "idle" \/ pc'[t] # "idle"
      BY <1>0, <1>2 DEF Msend, MsendCheck, MsendLock, MsendPush, MsendPost, Goto
    <2> QED BY <2>1, <2>2
  <1>3. ASSUME NEW force \in BOOLEAN, Close(force) PROVE Asks
    <2>1. closes' = closes + 1 /\ closes \in Nat
      BY <1>3 DEF Close, TypeOK
    <2>2. ~reconn_flag
      BY <2>1 DEF MCNext
    <2>3. reconn_flag' = reconn_flag
      BY <1>3, <2>2 DEF Close, TypeOK
    <2> QED BY <1>3, <2>1, <2>3 DEF Close, Asks
  <1>4. TlsClose => Asks
    BY DEF TlsClose, Asks
  <1>5. CASE usage = "tls"
    <2>1. TlsNext
      BY <1>5 DEF MCNext
    <2>2. OnTlsInit => ComesUp("INIT")
      BY <1>5 DEF OnTlsInit, TlsInitRead, ComesUp
    <2>3. OnTlsConnect => ComesUp("CONNECT")
      BY <1>5 DEF OnTlsConnect, TlsInitRead, ComesUp
    <2>4. TlsClose => UNCHANGED <<shaking, ssl_shakehand>>
      BY DEF TlsClose, tlsVars
    <2> QED BY <1>2, <1>4, <1>5, <2>1, <2>2, <2>3, <2>4
            DEF TlsNext, TlsWorker, TlsRead, TlsWrite, TlsTimer, TlsSend, tlsVars, Moves
  <1>6. CASE usage # "tls"
    <2>1. Next /\ UNCHANGED tlsVars
      BY <1>6 DEF MCNext
    <2>2. OnInit => ComesUp("INIT")
      BY <1>6, <2>1 DEF OnInit, ComesUp, tlsVars
    <2>3. OnConnect => ComesUp("CONNECT")
      BY <1>6, <2>1 DEF OnConnect, ComesUp, tlsVars
    <2> QED BY <1>1, <1>2, <1>3, <2>1, <2>2, <2>3 DEF Next, Worker, tlsVars, Moves
  <1> QED BY <1>5, <1>6

LEMMA MoveType ==
    ASSUME TypeOK, TlsType, Moves
    PROVE  TypeOK' /\ TlsType'
  <1>0. /\ <<>> \in Seq(Nat) /\ ready \in Seq(Handler) /\ writes \in Seq(Seq(Nat))
        /\ do_read(1) \in Nat
    BY EmptySeq DEF TypeOK, do_read
  <1>1. ASSUME NEW k, Running(k) PROVE Tail(ready) \in Seq(Handler)
    BY <1>1, RunningType
  <1>a. ASSUME NEW k, ComesUp(k) PROVE TypeOK' /\ TlsType'
    <2>0. Tail(ready) \in Seq(Handler)
      BY <1>1, <1>a DEF ComesUp
    <2>1. TlsType'
      BY <1>a DEF ComesUp, TlsType
    <2>2. CASE init_read(Tail(ready))
      BY <1>a, <1>0, <2>0, <2>1, <2>2
         DEF ComesUp, init_read, appVars, bufVars, cfgVars, TypeOK, Status, Phase
    <2>3. CASE ready' = Tail(ready) /\ UNCHANGED <<lifeVars, opVars>>
      BY <1>a, <2>0, <2>1, <2>3
         DEF ComesUp, appVars, opVars, bufVars, lifeVars, cfgVars, TypeOK
    <2>4. CASE /\ CloseSock(Tail(ready), writes) /\ socket_status' = "CLOSED"
               /\ UNCHANGED <<connection, phase, discs, shaking>>
      BY <1>a, <1>0, <2>0, <2>1, <2>4, CloseSockType
         DEF ComesUp, appVars, bufVars, cfgVars, TypeOK, Status
    <2> QED BY <1>a, <2>2, <2>3, <2>4 DEF ComesUp
  <1>b. CASE OnShake
    <2>0. Tail(ready) \in Seq(Handler)
      BY <1>1, <1>b DEF OnShake
    <2>1. TlsType'
      BY <1>b DEF OnShake, TlsType
    <2>2. CASE ok /\ connection
      BY <1>b, <1>0, <2>0, <2>1, <2>2
         DEF OnShake, appVars, bufVars, cfgVars, TypeOK, Phase
    <2>3. CASE ok /\ ~connection
      BY <1>b, <2>0, <2>1, <2>3
         DEF OnShake, appVars, opVars, bufVars, lifeVars, cfgVars, TypeOK
    <2>4. CASE ~ok
      <3>1. CloseSock(Tail(ready), writes)
        BY <1>b, <2>4 DEF OnShake
      <3> QED BY <1>b, <1>0, <2>0, <2>1, <2>4, <3>1, CloseSockType
              DEF OnShake, appVars, bufVars, lifeVars, cfgVars, TypeOK
    <2> QED BY <2>2, <2>3, <2>4
  <1>c. CASE ShakeReady
    <2>1. PICK b \in BOOLEAN : ready' = Append(ready, H("SHAKE", b))
      BY <1>c DEF ShakeReady
    <2>2. H("SHAKE", b) \in Handler
      BY <1>0 DEF H, Handler
    <2>3. ready' \in Seq(Handler)
      BY <1>0, <2>1, <2>2, AppendProperties
    <2> QED BY <1>c, <2>3
            DEF ShakeReady, appVars, opVars, bufVars, lifeVars, cfgVars, TypeOK, TlsType
  <1>d. CASE Asks /\ UNCHANGED <<shaking, ssl_shakehand>>
    <2>1. Append(ready, H("CLOSE", TRUE)) \in Seq(Handler)
      BY <1>0, HandlerType, AppendProperties
    <2>2. ready' \in Seq(Handler)
      BY <1>d, <1>0, <2>1 DEF Asks
    <2> QED BY <1>d, <2>2 DEF Asks, appVars, opVars, bufVars, lifeVars, TypeOK, TlsType
  <1>e. CASE UNCHANGED <<shaking, ssl_shakehand>> /\ (Worker \/ Kernel \/ PeerDown)
    BY <1>e, WorkerType, KernelType DEF TlsType
  <1>f. CASE /\ UNCHANGED <<shaking, ssl_shakehand>>
             /\ \/ \E t \in Senders : Msend(t)
                \/ \E t \in SyncSenders : SyncMsend(t)
    BY <1>f, AppType DEF TlsType
  <1> QED BY <1>a, <1>b, <1>c, <1>d, <1>e, <1>f DEF Moves, Worker

LEMMA MoveRelease ==
    ASSUME TypeOK, ReleaseInv, Moves
    PROVE  ReleaseInv'
  <1>a. ASSUME NEW k, ComesUp(k) PROVE ReleaseInv'
    <2>1. CASE init_read(Tail(ready))
      BY <1>a, <2>1 DEF ComesUp, cfgVars, init_read, TypeOK, ReleaseInv, ReleasedProperly
    <2>2. CASE UNCHANGED <<lifeVars, opVars>>
      BY <1>a, <2>2, QuietRelease DEF ComesUp, cfgVars, opVars
    <2>3. CASE /\ CloseSock(Tail(ready), writes) /\ socket_status' = "CLOSED"
               /\ UNCHANGED <<connection, phase, discs, shaking>>
      BY <1>a, <2>3 DEF ComesUp, cfgVars, CloseSock, ReleaseInv, ReleasedProperly
    <2> QED BY <1>a, <2>1, <2>2, <2>3 DEF ComesUp
  <1>b. CASE OnShake
    <2>1. CASE ok /\ connection
      BY <1>b, <2>1 DEF OnShake, cfgVars, TypeOK, ReleaseInv, ReleasedProperly
    <2>2. CASE ~(ok /\ connection)
      <3>1. /\ UNCHANGED <<lifeVars, passive_mode, reconn_flag>>
            /\ tcp_sock = "closed" => tcp_sock' = "closed"
        BY <1>b, <2>2 DEF OnShake, cfgVars, opVars, CloseSock
      <3> QED BY <3>1, QuietRelease
    <2> QED BY <2>1, <2>2
  <1>c. CASE ShakeReady
    BY <1>c, QuietRelease DEF ShakeReady, cfgVars, opVars
  <1>d. CASE Asks
    BY <1>d, QuietRelease DEF Asks, opVars
  <1>e. CASE Worker
    BY <1>e, WorkerRelease
  <1>f. CASE \/ Kernel \/ PeerDown \/ \E t \in Senders : Msend(t)
             \/ \E t \in SyncSenders : SyncMsend(t)
    BY <1>e, <1>f, OthersRelease DEF Next
  <1> QED BY <1>a, <1>b, <1>c, <1>d, <1>e, <1>f DEF Moves, Worker

----------------------------------------------------------------------------
(* Handlers of a kind appear only where that kind is posted.               *)

LEMMA AbortNone ==
    ASSUME TypeOK, NEW q \in Seq(Handler), NEW w \in Seq(Seq(Nat)), NEW K, None(q, K),
           reads = 0 \/ "READ" \notin K, w = <<>> \/ "WRITE" \notin K,
           connecting = 0 \/ "CONNECT" \notin K
    PROVE  None(q \o Aborted(reads, w, connecting), K)
  <1>1. reads \in Nat /\ connecting \in Nat
    BY DEF TypeOK
  <1>2. None(Aborted(reads, w, connecting), K) /\ Aborted(reads, w, connecting) \in Seq(Handler)
    BY <1>1, AbortedNone
  <1> QED BY <1>2, NoneConcat

LEMMA AsyncWriteKeeps ==
    ASSUME TypeOK, NEW cache \in Seq(Nat), NEW q \in Seq(Handler),
           NEW x \in do_async_write(cache, q), NEW K, "WRITE" \notin K
    PROVE  Keeps(q, x.q, K)
  <1>1. CASE Swapped(cache) = <<>>
    <2>1. x.q = q
      BY <1>1 DEF do_async_write
    <2> QED BY <2>1, KeepsSame
  <1>2. CASE Swapped(cache) # <<>>
    <2>1. x \in StartWrite(Swapped(cache), q) /\ Swapped(cache) \in Seq(Nat)
      BY <1>2, AsyncWriteType DEF do_async_write
    <2> QED BY <2>1, KeepsStart
  <1> QED BY <1>1, <1>2

LEMMA DoCloseNone ==
    ASSUME TypeOK, NEW q \in Seq(Handler), NEW r, do_close(q, r), NEW K, None(q, K),
           "READ" \notin K, writes = <<>> \/ "WRITE" \notin K, "CONNECT" \notin K
    PROVE  None(ready', K)
  <1>1. ready' = q \/ ready' = q \o Aborted(reads, writes, connecting)
    BY DEF do_close, CloseSock
  <1>2. writes \in Seq(Seq(Nat))
    BY DEF TypeOK
  <1> QED BY <1>1, <1>2, AbortNone

(* The steps of the two writers, of the kernel and of a sender.            *)
LEMMA WriterKeeps ==
    ASSUME TypeOK, OnSend \/ OnWrite, NEW K, "SEND" \notin K, "WRITE" \notin K
    PROVE  Keeps(ready, ready', K)
  <1>1. /\ ready \in Seq(Handler) /\ ready # <<>> /\ Tail(ready) \in Seq(Handler)
        /\ Head(ready).k \notin K /\ rem \in Seq(Nat)
        /\ cache_buffer \in Seq(Nat) /\ <<>> \in Seq(Nat)
    BY RunningType, EmptySeq DEF OnSend, OnWrite, Running, TypeOK
  <1>2. Keeps(ready, Tail(ready), K)
    BY <1>1, KeepsTail
  <1>3. CASE ready' = Tail(ready)
    BY <1>2, <1>3
  <1>4. CASE \E x \in StartWrite(rem, Tail(ready)) : ready' = x.q
    <2>1. PICK x \in StartWrite(rem, Tail(ready)) : ready' = x.q
      BY <1>4
    <2>2. Keeps(Tail(ready), x.q, K)
      BY <1>1, <2>1, KeepsStart
    <2> QED BY <1>2, <2>1, <2>2, KeepsTrans
  <1>5. CASE \E x \in do_async_write(cache_buffer, Tail(ready)) : ready' = x.q
    <2>1. PICK x \in do_async_write(cache_buffer, Tail(ready)) : ready' = x.q
      BY <1>5
    <2>2. Keeps(Tail(ready), x.q, K)
      BY <1>1, <2>1, AsyncWriteKeeps
    <2> QED BY <1>2, <2>1, <2>2, KeepsTrans
  <1>6. CASE \E x \in do_async_write(<<>>, Tail(ready)) : ready' = x.q
    <2>1. PICK x \in do_async_write(<<>>, Tail(ready)) : ready' = x.q
      BY <1>6
    <2>2. Keeps(Tail(ready), x.q, K)
      BY <1>1, <2>1, AsyncWriteKeeps
    <2> QED BY <1>2, <2>1, <2>2, KeepsTrans
  <1> QED BY <1>3, <1>4, <1>5, <1>6 DEF OnSend, OnWrite

LEMMA KernelAppends ==
    ASSUME TypeOK, Kernel \/ PeerDown, NEW K,
           ReadReady => "READ" \notin K, ConnectReady => "CONNECT" \notin K,
           WriteReady => "WRITE" \notin K, TimerReady => "TIMER" \notin K
    PROVE  Keeps(ready, ready', K)
  <1>0. <<>> \in Seq(Nat) /\ ready \in Seq(Handler)
    BY EmptySeq DEF TypeOK
  <1>1. ASSUME NEW h \in Handler, h.k \notin K, ready' = Append(ready, h)
        PROVE  Keeps(ready, ready', K)
    BY <1>0, <1>1, KeepsAppend
  <1>2. \A b \in BOOLEAN, s \in Seq(Nat) :
            /\ H("READ", b) \in Handler /\ H("CONNECT", b) \in Handler
            /\ H("TIMER", b) \in Handler /\ HW(b, s) \in Handler
    BY HandlerType
  <1>3. \A b \in BOOLEAN, s \in Seq(Nat) :
            /\ H("READ", b).k = "READ" /\ H("CONNECT", b).k = "CONNECT"
            /\ H("TIMER", b).k = "TIMER" /\ HW(b, s).k = "WRITE"
    BY DEF H, HW
  <1>a. CASE ReadReady
    BY <1>0, <1>1, <1>2, <1>3, <1>a DEF ReadReady
  <1>b. CASE WriteReady
    <2>1. Head(writes) \in Seq(Nat)
      BY <1>b, HeadTailProperties DEF WriteReady, TypeOK
    <2>2. \A n \in 1..Len(Head(writes)) : n \in 0..Len(Head(writes))
      BY <2>1, LenProperties
    <2>3. \A n \in 1..Len(Head(writes)) : Rest(Head(writes), n) \in Seq(Nat)
      BY <2>1, <2>2, PrefixRestType
    <2> QED BY <1>1, <1>2, <1>3, <1>b, <2>1, <2>3 DEF WriteReady
  <1>c. CASE ConnectReady
    BY <1>0, <1>1, <1>2, <1>3, <1>c DEF ConnectReady
  <1>d. CASE TimerReady
    BY <1>0, <1>1, <1>2, <1>3, <1>d DEF TimerReady
  <1>e. CASE PeerDown
    BY <1>e, KeepsSame DEF PeerDown
  <1> QED BY <1>a, <1>b, <1>c, <1>d, <1>e DEF Kernel

LEMMA SenderAppends ==
    ASSUME TypeOK, NEW t \in Senders, Msend(t), NEW K, MsendPost(t) => "SEND" \notin K
    PROVE  Keeps(ready, ready', K)
  <1>0. <<>> \in Seq(Nat) /\ ready \in Seq(Handler)
    BY EmptySeq DEF TypeOK
  <1>1. CASE MsendPost(t)
    <2>1. H("SEND", TRUE) \in Handler /\ H("SEND", TRUE).k \notin K
      BY <1>0, <1>1, HandlerType DEF H
    <2> QED BY <1>0, <1>1, <2>1, KeepsAppend DEF MsendPost
  <1>2. CASE ~MsendPost(t)
    BY <1>2, KeepsSame DEF Msend, MsendCheck, MsendLock, MsendPush
  <1> QED BY <1>1, <1>2

LEMMA MoveNone ==
    ASSUME TypeOK, Moves, NEW K, None(ready, K),
           K \cap {"READ", "WRITE", "CONNECT", "TIMER"} = {},
           "SHAKE" \in K => ~shaking, "CLOSE" \in K => closes' = closes,
           "SEND" \in K => \A t \in Senders : pc[t] = "idle"
    PROVE  None(ready', K)
  <1>0. /\ <<>> \in Seq(Nat) /\ ready \in Seq(Handler) /\ writes \in Seq(Seq(Nat))
        /\ cache_buffer \in Seq(Nat)
    BY EmptySeq DEF TypeOK
  <1>1. "READ" \notin K /\ "WRITE" \notin K /\ "CONNECT" \notin K /\ "TIMER" \notin K
    OBVIOUS
  <1>2. ASSUME NEW k, Running(k)
        PROVE  Tail(ready) \in Seq(Handler) /\ None(Tail(ready), K) /\ k \notin K
    BY <1>0, <1>2, RunningType, NoneTail DEF Running
  <1>3. ASSUME NEW q \in Seq(Handler), NEW w \in Seq(Seq(Nat)), None(q, K), CloseSock(q, w)
        PROVE  None(ready', K)
    BY <1>1, <1>3, AbortNone DEF CloseSock
  <1>a. ASSUME NEW k, ComesUp(k) PROVE None(ready', K)
    BY <1>a, <1>0, <1>2, <1>3 DEF ComesUp, init_read
  <1>b. CASE OnShake
    BY <1>b, <1>0, <1>2, <1>3 DEF OnShake
  <1>c. CASE ShakeReady
    <2>1. PICK b \in BOOLEAN : ready' = Append(ready, H("SHAKE", b))
      BY <1>c DEF ShakeReady
    <2>2. H("SHAKE", b) \in Handler /\ H("SHAKE", b).k \notin K
      BY <1>0, <1>c DEF H, Handler, ShakeReady
    <2> QED BY <1>0, <2>1, <2>2, KeepsAppend DEF Keeps
  <1>d. CASE OnRead
    <2>1. ready' = Tail(ready) \/ \E r \in {0, 1} : do_close(Tail(ready), r)
      BY <1>d DEF OnRead
    <2> QED BY <1>d, <1>1, <1>2, <2>1, DoCloseNone DEF OnRead
  <1>e. CASE OnReadError \/ OnWriteError
    <2>1. do_close(Tail(ready), 0)
      BY <1>e DEF OnReadError, OnWriteError
    <2> QED BY <1>e, <1>1, <1>2, <2>1, DoCloseNone DEF OnReadError, OnWriteError
  <1>f. CASE OnSend \/ OnWrite
    <2>2. CASE "SEND" \in K
      <3>1. OnWrite
        BY <1>f, <1>2, <2>2 DEF OnSend
      <3>2. Running("WRITE") /\ rem \in Seq(Nat)
        BY <3>1, RunningType DEF OnWrite
      <3>3. CASE rem # <<>>
        BY <1>0, <1>1, <1>2, <3>1, <3>2, <3>3, KeepsStart DEF OnWrite, Keeps
      <3>4. CASE rem = <<>>
        BY <1>0, <1>1, <1>2, <3>1, <3>2, <3>4, AsyncWriteKeeps DEF OnWrite, Keeps
      <3> QED BY <3>3, <3>4
    <2>3. CASE "SEND" \notin K
      BY <1>f, <1>1, <2>3, WriterKeeps DEF Keeps
    <2> QED BY <2>2, <2>3
  <1>g. CASE OnClose
    <2>1. CASE connection /\ send_buffer # <<>>
      <3>1. PICK x \in do_async_write(cache_buffer, Tail(ready)) : CloseSock(x.q, x.writes)
        BY <1>g, <2>1 DEF OnClose
      <3>2. Tail(ready) \in Seq(Handler) /\ None(Tail(ready), K)
        BY <1>g, <1>2 DEF OnClose
      <3>3. x \in Outcome
        BY <1>0, <3>1, <3>2, AsyncWriteType
      <3>4. x.q \in Seq(Handler) /\ x.writes \in Seq(Seq(Nat))
        BY <3>3 DEF Outcome
      <3>5. None(x.q, K)
        BY <1>0, <1>1, <3>1, <3>2, AsyncWriteKeeps DEF Keeps
      <3> QED BY <1>3, <3>1, <3>4, <3>5
    <2>2. CASE ~(connection /\ send_buffer # <<>>)
      BY <1>g, <1>0, <1>2, <1>3, <2>2 DEF OnClose
    <2> QED BY <2>1, <2>2
  <1>h. CASE OnTimerConnect
    <2>1. ready' = Tail(ready) \o Aborted(reads, writes, connecting)
      BY <1>h DEF OnTimerConnect, connect
    <2> QED BY <1>h, <1>0, <1>1, <1>2, <2>1, AbortNone DEF OnTimerConnect
  <1>i. CASE OnTimerIdle
    BY <1>i, <1>2 DEF OnTimerIdle
  <1>j. CASE Kernel \/ PeerDown
    BY <1>j, <1>1, KernelAppends DEF Keeps
  <1>k. ASSUME NEW t \in Senders, Msend(t) PROVE None(ready', K)
    <2>1. MsendPost(t) => pc[t] = "pushed"
      BY DEF MsendPost, Goto
    <2> QED BY <1>k, <2>1, SenderAppends DEF Keeps
  <1>l. ASSUME NEW t \in SyncSenders, SyncMsend(t) PROVE None(ready', K)
    BY <1>l DEF SyncMsend, SyncBegin, SyncAppend, SyncWrite, SyncClear
  <1>m. CASE Asks
    <2>1. closes' # closes
      BY <1>m DEF Asks, TypeOK
    <2>2. H("CLOSE", TRUE) \in Handler /\ H("CLOSE", TRUE).k \notin K
      BY <1>0, <2>1, HandlerType DEF H
    <2>3. Keeps(ready, Append(ready, H("CLOSE", TRUE)), K)
      BY <1>0, <2>2, KeepsAppend
    <2> QED BY <1>m, <2>3 DEF Asks, Keeps
  <1> QED BY <1>a, <1>b, <1>c, <1>d, <1>e, <1>f, <1>g, <1>h, <1>i, <1>j, <1>k, <1>l, <1>m
          DEF Moves

LEMMA Steady ==
    ASSUME TypeOK, Moves
    PROVE  /\ UNCHANGED <<reconn_flag, passive_mode>>
           /\ closes' = closes \/ closes' = closes + 1
           /\ closes' = closes \/ Asks
           /\ connection' => connection
  <1>1. ASSUME NEW q, NEW r, do_close(q, r) PROVE connection' => connection
    BY <1>1 DEF do_close, lifeVars, Released
  <1>a. ASSUME NEW k, ComesUp(k)
        PROVE  UNCHANGED <<reconn_flag, passive_mode, closes, connection>>
    BY <1>a DEF ComesUp, init_read, cfgVars, lifeVars
  <1>b. OnShake => UNCHANGED <<reconn_flag, passive_mode, closes, connection>>
    BY DEF OnShake, cfgVars, lifeVars
  <1>c. ShakeReady => UNCHANGED <<reconn_flag, passive_mode, closes, connection>>
    BY DEF ShakeReady, cfgVars, lifeVars
  <1>d. OnRead => UNCHANGED <<reconn_flag, passive_mode, closes>> /\ (connection' => connection)
    BY <1>1 DEF OnRead, cfgVars, lifeVars
  <1>e. OnReadError \/ OnWriteError =>
            UNCHANGED <<reconn_flag, passive_mode, closes>> /\ (connection' => connection)
    BY <1>1 DEF OnReadError, OnWriteError, cfgVars
  <1>f. OnSend \/ OnWrite => UNCHANGED <<reconn_flag, passive_mode, closes, connection>>
    BY DEF OnSend, OnWrite, cfgVars, lifeVars
  <1>g. OnClose => UNCHANGED <<reconn_flag, passive_mode, closes>> /\ (connection' => connection)
    BY DEF OnClose, cfgVars, Released
  <1>h. OnTimerConnect \/ OnTimerIdle =>
            UNCHANGED <<reconn_flag, passive_mode, closes, connection>>
    BY DEF OnTimerConnect, OnTimerIdle, cfgVars, lifeVars
  <1>i. Kernel \/ PeerDown => UNCHANGED <<reconn_flag, passive_mode, closes, connection>>
    BY DEF Kernel, PeerDown, ReadReady, WriteReady, ConnectReady, TimerReady, cfgVars, lifeVars
  <1>j. ASSUME NEW t, Msend(t) PROVE UNCHANGED <<reconn_flag, passive_mode, closes, connection>>
    BY <1>j DEF Msend, MsendCheck, MsendLock, MsendPush, MsendPost, cfgVars, lifeVars
  <1>k. ASSUME NEW t, SyncMsend(t)
        PROVE  UNCHANGED <<reconn_flag, passive_mode, closes, connection>>
    BY <1>k DEF SyncMsend, SyncBegin, SyncAppend, SyncWrite, SyncClear, cfgVars, lifeVars
  <1>l. Asks => UNCHANGED <<reconn_flag, passive_mode, connection>> /\ closes' = closes + 1
    BY DEF Asks, lifeVars
  <1> QED BY <1>a, <1>b, <1>c, <1>d, <1>e, <1>f, <1>g, <1>h, <1>i, <1>j, <1>k, <1>l DEF Moves

LEMMA UsedStep ==
    ASSUME TypeOK, Used, MCNext
    PROVE  Used'
  <1>1. Moves
    BY Cases
  <1>2. /\ usage' = usage /\ closes \in Nat
        /\ UNCHANGED <<reconn_flag, passive_mode>>
        /\ closes' = closes \/ closes' = closes + 1
    BY <1>1, Steady DEF MCNext, TypeOK
  <1>3. closes' = 0 => closes = 0 /\ closes' = closes
    BY <1>2
  <1>4. closes' = 0 => None(ready', {"CLOSE"})
    BY <1>1, <1>3, MoveNone DEF Used
  <1>5. usage = "sync" => (\A t \in Senders : pc'[t] = "idle") /\ None(ready', {"SEND"})
    <2> SUFFICES ASSUME usage = "sync"
                 PROVE  (\A t \in Senders : pc'[t] = "idle") /\ None(ready', {"SEND"})
      OBVIOUS
    <2>1. None(ready, {"SEND"}) /\ \A t \in Senders : pc[t] = "idle"
      BY DEF Used
    <2>2. None(ready', {"SEND"})
      BY <1>1, <2>1, MoveNone
    <2> QED BY <2>2 DEF MCNext, Idle
  <1>6. usage # "tls" => ~shaking' /\ None(ready', {"SHAKE"})
    <2> SUFFICES ASSUME usage # "tls" PROVE ~shaking' /\ None(ready', {"SHAKE"})
      OBVIOUS
    <2>1. None(ready, {"SHAKE"}) /\ ~shaking
      BY DEF Used
    <2>2. None(ready', {"SHAKE"})
      BY <1>1, <2>1, MoveNone
    <2> QED BY <2>1, <2>2 DEF MCNext, tlsVars
  <1>7. usage # "sync" => \A t \in SyncSenders : pc'[t] = "idle"
    BY DEF MCNext, Idle
  <1>8. usage \in {"stream", "sync", "reconnect"} \/ reconn_flag => closes' = 0
    BY DEF MCNext
  <1> QED BY <1>2, <1>4, <1>5, <1>6, <1>7, <1>8 DEF Used, None

----------------------------------------------------------------------------
(* The chain of operations.                                                *)

LEMMA LinkCases ==
    ASSUME TypeOK, TlsType, Link, NEW k \in Chained, Running(k)
    PROVE  /\ Operations = 0 /\ reads = 0 /\ connecting = 0 /\ shaking = FALSE
           /\ None(Tail(ready), Chained)
           /\ phase = IF k = "READ" THEN "up" ELSE "created"
  <1>1. ready \in Seq(Handler) /\ ready # <<>> /\ Head(ready).k = k /\ Head(ready).k \in Chained
    BY DEF TypeOK, Running
  <1>2. ~None(ready, Chained)
    BY <1>1, NoneTail
  <1>3. PICK h \in Handler : One(ready, Chained, h) /\ phase = IF h.k = "READ" THEN "up" ELSE "created"
    BY <1>2 DEF Link
  <1>4. Head(ready) = h /\ None(Tail(ready), Chained)
    BY <1>1, <1>3, TakeOne
  <1>5. Operations = 0
    BY <1>2 DEF Link
  <1>6. reads = 0 /\ connecting = 0 /\ shaking = FALSE
    BY <1>5 DEF Operations, TypeOK, TlsType
  <1> QED BY <1>1, <1>3, <1>4, <1>5, <1>6

(* Steps that keep the operations.                                         *)
LEMMA QuietChain ==
    ASSUME Chain, ~reconn_flag, Keeps(ready, ready', Chained),
           UNCHANGED <<usage, reconn_flag, lifeVars, reads, connecting, shaking, dataPhase>>,
           tcp_sock' = tcp_sock \/ (tcp_sock # "closed" /\ tcp_sock' # "closed")
    PROVE  Chain'
  <1>1. Operations' = Operations
    BY DEF Operations
  <1>2. Link => Link'
    BY <1>1 DEF Link, Keeps, lifeVars, Chained, None, One
  <1>3. None(ready, Chained) => None(ready', Chained)
    BY DEF Keeps
  <1> QED BY <1>1, <1>2, <1>3 DEF Chain, lifeVars, None

(* Steps after which the connection is gone.                               *)
LEMMA GoneChain ==
    ASSUME ~connection', socket_status' # "OPEN", dataPhase' = "up"
    PROVE  Chain'
  BY DEF Chain

(* do_close() of a connection without reconnect lets it go, or finds it    *)
(* already closed.                                                         *)
LEMMA DoCloseEnds ==
    ASSUME TypeOK, ReleaseInv, Used, Chain, ~reconn_flag, NEW q, NEW r \in {0, 1}, do_close(q, r)
    PROVE  \/ ~connection' /\ socket_status' = "CLOSED" /\ tcp_sock' = "closed"
           \/ /\ socket_status \in {"CLOSING", "CLOSED"} /\ tcp_sock = "closed"
              /\ ready' = q
              /\ UNCHANGED <<lifeVars, send_buffer, tcp_sock, reads, writes, connecting>>
  <1>1. connection /\ socket_status \in {"CLOSING", "CLOSED"} => tcp_sock = "closed"
    BY DEF Chain
  <1>2. ~connection => tcp_sock = "closed"
    BY DEF ReleaseInv, ReleasedProperly
  <1>3. CASE socket_status \in {"CLOSING", "CLOSED"}
    <2>1. tcp_sock = "closed"
      BY <1>1, <1>2, <1>3
    <2>2. do_read(r) = reads
      BY <2>1 DEF do_read, sock_is_open
    <2> QED BY <1>3, <2>1, <2>2 DEF do_close
  <1>4. CASE socket_status \notin {"CLOSING", "CLOSED"} /\ ~connection
    BY <1>4 DEF do_close, CloseSock
  <1>5. CASE socket_status \notin {"CLOSING", "CLOSED"} /\ connection
    BY <1>5 DEF do_close, need_reconnect, Released, CloseSock
  <1> QED BY <1>3, <1>4, <1>5

LEMMA ChainStep ==
    ASSUME TypeOK, TlsType, ReleaseInv, Used, Chain, Moves, UNCHANGED usage
    PROVE  Chain'
  <1>0. UNCHANGED <<reconn_flag, passive_mode>> /\ (connection' => connection)
    BY Steady
  <1> SUFFICES ASSUME ~reconn_flag PROVE Chain'
    BY <1>0 DEF Chain
  <1>1. ready \in Seq(Handler) /\ dataPhase = "up" /\ (~connection => socket_status # "OPEN")
        /\ writes \in Seq(Seq(Nat))
    BY DEF Chain, TypeOK
  <1>2. ASSUME NEW k, Running(k)
        PROVE  Tail(ready) \in Seq(Handler) /\ ready # <<>> /\ Head(ready).k = k
    BY <1>2, RunningType DEF Running
  <1>3. ASSUME NEW k, Running(k), k \notin Chained PROVE Keeps(ready, Tail(ready), Chained)
    BY <1>1, <1>2, <1>3, KeepsTail
  <1>4. ASSUME NEW k \in Chained, Running(k), connection
        PROVE  Link /\ tcp_sock # "closed" /\ socket_status \notin {"CLOSING", "CLOSED"}
    <2>1. ~None(ready, Chained)
      BY <1>1, <1>2, <1>4, NoneTail
    <2> QED BY <1>4, <2>1 DEF Chain
  <1>5. ASSUME NEW k \in Chained, Running(k), connection
        PROVE  /\ Operations = 0 /\ reads = 0 /\ connecting = 0 /\ shaking = FALSE
               /\ None(Tail(ready), Chained)
               /\ phase = IF k = "READ" THEN "up" ELSE "created"
    BY <1>4, <1>5, LinkCases
  <1>6. ASSUME NEW k, Running(k), NEW r \in {0, 1}, do_close(Tail(ready), r), dataPhase' = "up",
               UNCHANGED shaking, connection => k = "WRITE" \/ k = "READ"
        PROVE  Chain'
    <2>1. CASE ~connection' /\ socket_status' = "CLOSED"
      BY <1>6, <2>1, GoneChain
    <2>2. CASE /\ socket_status \in {"CLOSING", "CLOSED"}
               /\ ready' = Tail(ready)
               /\ UNCHANGED <<lifeVars, tcp_sock, reads, connecting>>
      <3>1. CASE connection
        <4>1. k \notin Chained
          BY <1>4, <1>6, <2>2, <3>1 DEF Chained
        <4>2. Keeps(ready, ready', Chained)
          BY <1>3, <1>6, <2>2, <4>1
        <4> QED BY <1>0, <1>1, <1>6, <2>2, <4>2, QuietChain
      <3>2. CASE ~connection
        BY <1>0, <1>6, <2>2, <3>2, GoneChain DEF lifeVars
      <3> QED BY <3>1, <3>2
    <2> QED BY <1>6, <2>1, <2>2, DoCloseEnds
  <1>7. ASSUME CloseSock(Tail(ready), writes), reads = 0, connecting = 0,
               None(Tail(ready), Chained), Tail(ready) \in Seq(Handler)
        PROVE  None(ready', Chained) /\ tcp_sock' = "closed" /\ reads' = 0 /\ connecting' = 0
    BY <1>1, <1>7, AbortNone DEF CloseSock, Chained
  <1>a. ASSUME NEW k \in {"INIT", "CONNECT"}, ComesUp(k) PROVE Chain'
    <2>0. k \in Chained /\ k # "READ" /\ Running(k) /\ dataPhase' = "up"
      BY <1>1, <1>a DEF ComesUp, Chained
    <2>1. CASE ~connection
      <3>1. socket_status' # "OPEN"
        BY <1>a, <1>1, <2>1 DEF ComesUp, init_read, lifeVars
      <3> QED BY <1>0, <2>0, <2>1, <3>1, GoneChain
    <2>2. CASE connection
      <3>0. /\ reads = 0 /\ connecting = 0 /\ shaking = FALSE /\ tcp_sock # "closed"
            /\ None(Tail(ready), Chained) /\ phase = "created"
            /\ socket_status \notin {"CLOSING", "CLOSED"}
        BY <1>4, <1>5, <2>0, <2>2
      <3>1. CASE init_read(Tail(ready)) /\ UNCHANGED shaking
        <4>1. /\ socket_status' = "OPEN" /\ phase' = "up" /\ reads' = 1 /\ connecting' = 0
              /\ ready' = Tail(ready) /\ tcp_sock' # "closed" /\ connection'
          BY <2>2, <3>0, <3>1 DEF init_read, do_read, sock_is_open
        <4>2. Operations' = 1
          BY <3>0, <3>1, <4>1 DEF Operations
        <4>3. Link'
          BY <3>0, <4>1, <4>2 DEF Link, None
        <4> QED BY <2>0, <4>1, <4>3 DEF Chain
      <3>2. CASE shaking' = TRUE /\ ready' = Tail(ready) /\ UNCHANGED <<lifeVars, opVars>>
        <4>1. /\ reads' = 0 /\ connecting' = 0 /\ tcp_sock' # "closed" /\ connection'
              /\ phase' = "created" /\ socket_status' = socket_status /\ socket_status # "OPEN"
          BY <2>2, <3>0, <3>2 DEF lifeVars, opVars, Chain
        <4>2. Operations' = 1
          BY <3>2, <4>1 DEF Operations
        <4>3. Link'
          BY <3>0, <3>2, <4>1, <4>2 DEF Link, None
        <4> QED BY <2>0, <3>0, <4>1, <4>3 DEF Chain
      <3>3. CASE /\ CloseSock(Tail(ready), writes) /\ socket_status' = "CLOSED"
                 /\ UNCHANGED <<connection, phase, discs, shaking>>
        <4>1. None(ready', Chained) /\ tcp_sock' = "closed" /\ reads' = 0 /\ connecting' = 0
          BY <1>2, <1>7, <2>0, <3>0, <3>3
        <4>2. Operations' = 0
          BY <3>0, <3>3, <4>1 DEF Operations
        <4> QED BY <2>0, <3>0, <3>3, <4>1, <4>2 DEF Chain, None
      <3> QED BY <1>a, <3>1, <3>2, <3>3 DEF ComesUp
    <2> QED BY <2>1, <2>2
  <1>b. CASE usage = "tls" /\ OnShake
    <2>0. "SHAKE" \in Chained /\ Running("SHAKE") /\ dataPhase' = "up" /\ UNCHANGED shaking
      BY <1>1, <1>b DEF OnShake, Chained
    <2>1. CASE ~connection
      <3>1. socket_status' = socket_status
        BY <1>b, <2>1 DEF OnShake, lifeVars
      <3> QED BY <1>0, <1>1, <2>0, <2>1, <3>1, GoneChain
    <2>2. CASE connection
      <3>0. /\ reads = 0 /\ connecting = 0 /\ shaking = FALSE /\ tcp_sock # "closed"
            /\ None(Tail(ready), Chained) /\ phase = "created"
            /\ socket_status \notin {"CLOSING", "CLOSED"}
        BY <1>4, <1>5, <2>0, <2>2
      <3>1. CASE ok
        <4>1. /\ phase' = "up" /\ reads' = 1 /\ connecting' = 0 /\ ready' = Tail(ready)
              /\ tcp_sock' # "closed" /\ connection' /\ socket_status' = socket_status
          BY <1>b, <2>2, <3>0, <3>1 DEF OnShake, do_read, sock_is_open
        <4>2. Operations' = 1
          BY <2>0, <3>0, <4>1 DEF Operations
        <4>3. Link'
          BY <3>0, <4>1, <4>2 DEF Link, None
        <4> QED BY <1>b, <2>0, <3>0, <4>1, <4>3 DEF Chain
      <3>2. CASE ~ok
        <4>0. CloseSock(Tail(ready), writes) /\ UNCHANGED lifeVars
          BY <1>b, <3>2 DEF OnShake
        <4>1. None(ready', Chained) /\ tcp_sock' = "closed" /\ reads' = 0 /\ connecting' = 0
          BY <1>2, <1>7, <2>0, <3>0, <4>0
        <4>2. Operations' = 0
          BY <2>0, <3>0, <4>1 DEF Operations
        <4>3. phase' = "created" /\ socket_status' = socket_status /\ socket_status # "OPEN"
          BY <2>2, <3>0, <4>0 DEF Chain, lifeVars
        <4> QED BY <2>0, <3>0, <4>1, <4>2, <4>3 DEF Chain, None
      <3> QED BY <3>1, <3>2
    <2> QED BY <2>1, <2>2
  <1>c. CASE ShakeReady
    <2>0. /\ shaking = TRUE /\ shaking' = FALSE
          /\ UNCHANGED <<connection, tcp_sock, phase, reads, connecting, socket_status, dataPhase>>
      BY <1>c DEF ShakeReady, lifeVars, opVars, TlsType
    <2>1. CASE ~connection
      BY <1>0, <1>1, <2>0, <2>1, GoneChain
    <2>2. CASE connection
      <3>1. Operations # 0 /\ reads \in Nat /\ connecting \in Nat
        BY <2>0 DEF Operations, TypeOK
      <3>2. tcp_sock # "closed" /\ Link /\ socket_status \notin {"CLOSING", "CLOSED"}
        BY <2>2, <3>1 DEF Chain
      <3>3. reads = 0 /\ connecting = 0 /\ None(ready, Chained) /\ phase = "created"
        BY <2>0, <3>1, <3>2 DEF Link, Operations
      <3>4. PICK b \in BOOLEAN : ready' = Append(ready, H("SHAKE", b))
        BY <1>c DEF ShakeReady
      <3>5. H("SHAKE", b) \in Handler /\ H("SHAKE", b).k = "SHAKE" /\ "SHAKE" \in Chained
        BY EmptySeq DEF H, Handler, Chained
      <3>6. One(ready', Chained, H("SHAKE", b))
        BY <1>1, <3>3, <3>4, <3>5, AddOne
      <3>7. Operations' = 0
        BY <2>0, <3>3 DEF Operations
      <3>8. Link'
        BY <2>0, <3>3, <3>5, <3>6, <3>7 DEF Link, One
      <3> QED BY <1>1, <2>0, <3>2, <3>3, <3>8 DEF Chain
    <2> QED BY <2>1, <2>2
  <1>d. CASE OnRead /\ UNCHANGED <<shaking, ssl_shakehand>>
    <2>0. "READ" \in Chained /\ Running("READ")
      BY <1>d DEF OnRead, Chained
    <2>1. dataPhase' = "up"
      <3>1. connection => phase = "up"
        BY <1>5, <2>0
      <3> QED BY <1>d, <1>1, <3>1 DEF OnRead
    <2>2. CASE \E r \in {0, 1} : do_close(Tail(ready), r)
      BY <1>d, <1>6, <2>0, <2>1, <2>2
    <2>3. CASE /\ ready' = Tail(ready) /\ reads' = do_read(1)
               /\ UNCHANGED <<lifeVars, bufVars, tcp_sock, writes, connecting>>
      <3>1. CASE ~connection
        BY <1>0, <1>1, <2>1, <2>3, <3>1, GoneChain DEF lifeVars
      <3>2. CASE connection
        <4>0. /\ reads = 0 /\ connecting = 0 /\ shaking = FALSE /\ tcp_sock # "closed"
              /\ None(Tail(ready), Chained) /\ phase = "up"
              /\ socket_status \notin {"CLOSING", "CLOSED"}
          BY <1>4, <1>5, <2>0, <3>2
        <4>1. /\ reads' = 1 /\ connecting' = 0 /\ shaking' = FALSE
              /\ UNCHANGED <<tcp_sock, connection, phase, socket_status>>
          BY <1>d, <2>3, <4>0 DEF do_read, sock_is_open, lifeVars
        <4>2. Operations' = 1
          BY <4>1 DEF Operations
        <4>3. Link'
          BY <2>3, <4>0, <4>1, <4>2 DEF Link, None
        <4> QED BY <2>1, <4>0, <4>1, <4>3 DEF Chain
      <3> QED BY <3>1, <3>2
    <2> QED BY <1>d, <2>2, <2>3 DEF OnRead
  <1>e. CASE (OnReadError \/ OnWriteError) /\ UNCHANGED <<shaking, ssl_shakehand>>
    <2>1. /\ do_close(Tail(ready), 0) /\ dataPhase' = "up"
          /\ Running("READ") \/ Running("WRITE")
      BY <1>e, <1>1 DEF OnReadError, OnWriteError
    <2> QED BY <1>e, <1>6, <2>1
  <1>f. CASE OnSend \/ OnWrite
    <2>1. Keeps(ready, ready', Chained)
      BY <1>f, WriterKeeps DEF Chained
    <2>2. CASE UNCHANGED shaking
      BY <1>f, <1>0, <2>1, <2>2, QuietChain DEF OnSend, OnWrite
    <2> QED BY <1>a, <1>b, <1>c, <2>2 DEF Moves
  <1>g. CASE OnClose
    <2>1. ~connection' /\ socket_status' = "CLOSED" /\ dataPhase' = "up"
      BY <1>g, <1>1 DEF OnClose, need_reconnect, Released
    <2> QED BY <2>1, GoneChain
  <1>h. CASE OnTimerConnect
    BY <1>h DEF OnTimerConnect
  <1>i. CASE OnTimerIdle /\ UNCHANGED <<shaking, ssl_shakehand>>
    <2>1. Keeps(ready, ready', Chained)
      BY <1>i, <1>3 DEF OnTimerIdle, Chained
    <2> QED BY <1>i, <1>0, <2>1, QuietChain DEF OnTimerIdle, opVars
  <1>j. CASE ReadReady /\ UNCHANGED <<shaking, ssl_shakehand>>
    <2>0. /\ reads > 0 /\ reads' = reads - 1 /\ reads \in Nat /\ connecting \in Nat
          /\ UNCHANGED <<connection, tcp_sock, phase, connecting, socket_status, dataPhase, shaking>>
      BY <1>j DEF ReadReady, lifeVars, TypeOK
    <2>1. CASE ~connection
      BY <1>0, <1>1, <2>0, <2>1, GoneChain
    <2>2. CASE connection
      <3>1. Operations # 0
        BY <2>0 DEF Operations, TlsType
      <3>2. tcp_sock # "closed" /\ Link /\ socket_status \notin {"CLOSING", "CLOSED"}
        BY <2>2, <3>1 DEF Chain
      <3>3. reads = 1 /\ connecting = 0 /\ shaking = FALSE /\ None(ready, Chained) /\ phase = "up"
        BY <2>0, <3>1, <3>2 DEF Link, Operations, TlsType
      <3>4. PICK b \in BOOLEAN : ready' = Append(ready, H("READ", b))
        BY <1>j DEF ReadReady
      <3>5. H("READ", b) \in Handler /\ H("READ", b).k = "READ" /\ "READ" \in Chained
        BY EmptySeq DEF H, Handler, Chained
      <3>6. One(ready', Chained, H("READ", b))
        BY <1>1, <3>3, <3>4, <3>5, AddOne
      <3>7. Operations' = 0
        BY <2>0, <3>3 DEF Operations
      <3>8. Link'
        BY <2>0, <3>3, <3>5, <3>6, <3>7 DEF Link, One
      <3> QED BY <1>1, <2>0, <2>2, <3>2, <3>3, <3>8 DEF Chain
    <2> QED BY <2>1, <2>2
  <1>k. CASE ConnectReady /\ UNCHANGED <<shaking, ssl_shakehand>>
    <2>0. /\ connecting > 0 /\ connecting' = connecting - 1 /\ reads \in Nat /\ connecting \in Nat
          /\ UNCHANGED <<connection, phase, reads, socket_status, dataPhase, shaking>>
      BY <1>k DEF ConnectReady, lifeVars, TypeOK
    <2>1. CASE ~connection
      BY <1>0, <1>1, <2>0, <2>1, GoneChain
    <2>2. CASE connection
      <3>1. Operations # 0
        BY <2>0 DEF Operations, TlsType
      <3>2. tcp_sock # "closed" /\ Link /\ socket_status \notin {"CLOSING", "CLOSED"}
        BY <2>2, <3>1 DEF Chain
      <3>3. reads = 0 /\ connecting = 1 /\ shaking = FALSE /\ None(ready, Chained)
            /\ phase = "created"
        BY <2>0, <3>1, <3>2 DEF Link, Operations, TlsType
      <3>4. PICK b \in BOOLEAN : /\ tcp_sock' = IF b THEN "connected" ELSE "down"
                                 /\ ready' = Append(ready, H("CONNECT", b))
        BY <1>k DEF ConnectReady
      <3>5. /\ H("CONNECT", b) \in Handler /\ H("CONNECT", b).k = "CONNECT"
            /\ "CONNECT" \in Chained
        BY EmptySeq DEF H, Handler, Chained
      <3>6. One(ready', Chained, H("CONNECT", b))
        BY <1>1, <3>3, <3>4, <3>5, AddOne
      <3>7. Operations' = 0 /\ tcp_sock' # "closed"
        BY <2>0, <3>3, <3>4 DEF Operations
      <3>8. Link'
        BY <2>0, <3>3, <3>5, <3>6, <3>7 DEF Link, One
      <3> QED BY <1>1, <2>0, <3>2, <3>3, <3>7, <3>8 DEF Chain
    <2> QED BY <2>1, <2>2
  <1>l. CASE (WriteReady \/ TimerReady \/ PeerDown) /\ UNCHANGED <<shaking, ssl_shakehand>>
    <2>1. Keeps(ready, ready', Chained)
      <3>1. ~ReadReady \/ reads' # reads
        BY DEF ReadReady, TypeOK
      <3>2. ~ConnectReady \/ connecting' # connecting
        BY DEF ConnectReady, TypeOK
      <3>3. UNCHANGED <<reads, connecting>>
        BY <1>l DEF WriteReady, TimerReady, PeerDown, opVars
      <3> QED BY <1>l, <3>1, <3>2, <3>3, KernelAppends DEF Chained, Kernel
    <2> QED BY <1>l, <1>0, <2>1, QuietChain DEF WriteReady, TimerReady, PeerDown, opVars
  <1>m. ASSUME NEW t \in Senders, Msend(t), UNCHANGED shaking PROVE Chain'
    <2>1. Keeps(ready, ready', Chained)
      BY <1>m, SenderAppends DEF Chained
    <2>2. UNCHANGED <<lifeVars, reads, connecting, dataPhase, tcp_sock>>
      BY <1>m DEF Msend, MsendCheck, MsendLock, MsendPush, MsendPost, opVars
    <2> QED BY <1>m, <1>0, <2>1, <2>2, QuietChain
  <1>n. ASSUME NEW t \in SyncSenders, SyncMsend(t), UNCHANGED shaking PROVE Chain'
    <2>1. UNCHANGED <<lifeVars, reads, connecting, dataPhase, tcp_sock, ready>>
      BY <1>n DEF SyncMsend, SyncBegin, SyncAppend, SyncWrite, SyncClear, opVars
    <2>2. Keeps(ready, ready', Chained)
      BY <2>1, KeepsSame
    <2> QED BY <1>n, <1>0, <2>1, <2>2, QuietChain
  <1>o. CASE Asks /\ UNCHANGED <<shaking, ssl_shakehand>>
    <2>1. H("CLOSE", TRUE) \in Handler /\ H("CLOSE", TRUE).k \notin Chained
      BY EmptySeq, HandlerType DEF H, Chained
    <2>2. Keeps(ready, Append(ready, H("CLOSE", TRUE)), Chained) /\ Keeps(ready, ready, Chained)
      BY <1>1, <2>1, KeepsAppend, KeepsSame
    <2>3. Keeps(ready, ready', Chained)
      BY <1>o, <2>2 DEF Asks
    <2> QED BY <1>o, <1>0, <2>3, QuietChain DEF Asks, opVars
  <1> QED BY <1>a, <1>b, <1>c, <1>d, <1>e, <1>f, <1>g, <1>h, <1>i, <1>j, <1>k, <1>l, <1>m,
             <1>n, <1>o DEF Moves, Kernel

----------------------------------------------------------------------------
(* Nothing is sent before the connection is open.                          *)

LEMMA NoSendsStays ==
    ASSUME TypeOK, Used, NoSends, Moves, usage # "sync", socket_status # "OPEN"
    PROVE  NoSends'
  <1> DEFINE K == {"WRITE", "SEND"}
  <1>0. /\ ready \in Seq(Handler) /\ writes \in Seq(Seq(Nat)) /\ writes = <<>> /\ None(ready, K)
        /\ \A t \in Senders : pc[t] = "idle"
    BY DEF TypeOK, NoSends
  <1>1. ASSUME NEW k, Running(k)
        PROVE  Tail(ready) \in Seq(Handler) /\ None(Tail(ready), K) /\ k \notin K
    BY <1>0, <1>1, RunningType, NoneTail DEF Running
  <1>2. ASSUME NEW q \in Seq(Handler), None(q, K) 
        PROVE  None(q \o Aborted(reads, writes, connecting), K)
    BY <1>0, <1>2, AbortNone
  <1>3. ASSUME NEW q \in Seq(Handler), None(q, K), CloseSock(q, writes)
        PROVE  None(ready', K) /\ writes' = <<>>
    BY <1>2, <1>3 DEF CloseSock
  <1>4. ASSUME NEW q \in Seq(Handler), None(q, K), NEW r, do_close(q, r)
        PROVE  None(ready', K) /\ writes' = <<>> /\ send_buffer' = <<>>
    <2>1. None(ready', K)
      BY <1>0, <1>4, DoCloseNone
    <2>2. writes' = <<>>
      BY <1>0, <1>4 DEF do_close, CloseSock
    <2>3. send_buffer' = <<>>
      BY <1>4 DEF do_close, NoSends
    <2> QED BY <2>1, <2>2, <2>3
  <1>5. ASSUME None(ready', K), writes' = <<>>, UNCHANGED <<bufVars, accepted, pc>>,
               wire' = wire \/ wire' = <<>>
        PROVE  NoSends'
    BY <1>5 DEF NoSends, None, bufVars
  <1>6. ASSUME NEW k, Running(k), NEW r, do_close(Tail(ready), r), UNCHANGED <<appVars, is_writting, wire>>,
               cache_buffer' = cache_buffer \/ cache_buffer' = <<>>
        PROVE  NoSends'
    <2>1. None(ready', K) /\ writes' = <<>> /\ send_buffer' = <<>>
      BY <1>1, <1>4, <1>6
    <2> QED BY <1>6, <2>1 DEF NoSends, None, appVars
  <1>a. ASSUME NEW k, ComesUp(k) PROVE NoSends'
    <2>1. None(ready', K) /\ writes' = <<>>
      BY <1>a, <1>0, <1>1, <1>3 DEF ComesUp, init_read, opVars
    <2> QED BY <1>a, <1>5, <2>1 DEF ComesUp, appVars
  <1>b. CASE OnShake
    <2>1. None(ready', K) /\ writes' = <<>>
      BY <1>b, <1>0, <1>1, <1>3 DEF OnShake, opVars
    <2> QED BY <1>b, <1>5, <2>1 DEF OnShake, appVars
  <1>c. CASE ShakeReady
    <2>1. PICK b \in BOOLEAN : ready' = Append(ready, H("SHAKE", b))
      BY <1>c DEF ShakeReady
    <2>2. H("SHAKE", b) \in Handler /\ H("SHAKE", b).k \notin K
      BY EmptySeq DEF H, Handler
    <2>3. None(ready', K)
      BY <1>0, <2>1, <2>2, KeepsAppend DEF Keeps
    <2> QED BY <1>c, <1>0, <1>5, <2>3 DEF ShakeReady, appVars, opVars
  <1>d. CASE OnRead
    <2>1. CASE ready' = Tail(ready) /\ UNCHANGED <<bufVars, writes>>
      BY <1>d, <1>0, <1>1, <1>5, <2>1 DEF OnRead, appVars
    <2>2. CASE /\ \E r \in {0, 1} : do_close(Tail(ready), r)
               /\ cache_buffer' = cache_buffer \/ cache_buffer' = <<>>
               /\ UNCHANGED is_writting
      BY <1>d, <1>6, <2>2 DEF OnRead
    <2> QED BY <1>d, <2>1, <2>2 DEF OnRead
  <1>e. CASE OnReadError \/ OnWriteError
    BY <1>e, <1>6 DEF OnReadError, OnWriteError
  <1>f. CASE OnSend \/ OnWrite
    BY <1>f, <1>1 DEF OnSend, OnWrite
  <1>g. CASE OnClose
    <2>1. CloseSock(Tail(ready), writes) /\ UNCHANGED <<bufVars, wire, appVars>> /\ Running("CLOSE")
      BY <1>g DEF OnClose, NoSends
    <2>2. None(ready', K) /\ writes' = <<>>
      BY <1>1, <1>3, <2>1
    <2> QED BY <1>5, <2>1, <2>2 DEF appVars
  <1>h. CASE OnTimerConnect
    <2>1. ready' = Tail(ready) \o Aborted(reads, writes, connecting) /\ writes' = <<>> /\ wire' = <<>>
      BY <1>h DEF OnTimerConnect, connect
    <2>2. None(ready', K)
      BY <1>h, <1>1, <1>2, <2>1 DEF OnTimerConnect
    <2> QED BY <1>h, <1>5, <2>1, <2>2 DEF OnTimerConnect, appVars
  <1>i. CASE OnTimerIdle
    BY <1>i, <1>0, <1>1, <1>5 DEF OnTimerIdle, appVars, opVars
  <1>j. CASE Kernel \/ PeerDown
    <2>1. ~WriteReady
      BY <1>0 DEF WriteReady
    <2>2. None(ready', K)
      BY <1>0, <1>j, <2>1, KernelAppends DEF Keeps
    <2> QED BY <1>0, <1>5, <1>j, <2>1, <2>2
            DEF Kernel, PeerDown, ReadReady, ConnectReady, TimerReady, appVars, opVars
  <1>k. ASSUME NEW t \in Senders, Msend(t) PROVE NoSends'
    BY <1>k, <1>0 DEF Msend, MsendCheck, MsendLock, MsendPush, MsendPost, Goto, is_open
  <1>l. CASE Asks
    <2>1. H("CLOSE", TRUE) \in Handler /\ H("CLOSE", TRUE).k \notin K
      BY EmptySeq, HandlerType DEF H
    <2>2. Keeps(ready, Append(ready, H("CLOSE", TRUE)), K)
      BY <1>0, <2>1, KeepsAppend
    <2>3. None(ready', K)
      BY <1>l, <1>0, <2>2 DEF Asks, Keeps
    <2> QED BY <1>l, <1>0, <1>5, <2>3 DEF Asks, appVars, opVars
  <1> QED BY <1>a, <1>b, <1>c, <1>d, <1>e, <1>f, <1>g, <1>h, <1>i, <1>j, <1>k, <1>l DEF Moves

(* Without reconnect an open connection stays open until it is gone.       *)
LEMMA StaysOpen ==
    ASSUME TypeOK, TlsType, ReleaseInv, Used, Chain, Moves, ~reconn_flag,
           socket_status = "OPEN", connection'
    PROVE  socket_status' = "OPEN"
  <1>1. connection /\ phase = "up" /\ tcp_sock # "closed" /\ Link
    BY DEF Chain
  <1>2. ASSUME NEW k, ComesUp(k), k \in {"INIT", "CONNECT"} PROVE FALSE
    <2>1. k \in Chained /\ k # "READ" /\ Running(k)
      BY <1>2 DEF ComesUp, Chained
    <2> QED BY <1>1, <2>1, LinkCases
  <1>3. ASSUME NEW q, NEW r \in {0, 1}, do_close(q, r) PROVE FALSE
    BY <1>1, <1>3, DoCloseEnds
  <1>4. ~OnClose
    BY <1>1 DEF OnClose, need_reconnect, Released
  <1>5. OnRead => socket_status' = "OPEN"
    BY <1>3 DEF OnRead, lifeVars
  <1>6. ~OnReadError /\ ~OnWriteError
    BY <1>3 DEF OnReadError, OnWriteError
  <1>7. OnShake \/ ShakeReady \/ OnSend \/ OnWrite \/ OnTimerIdle \/ PeerDown \/ Asks
           => socket_status' = "OPEN"
    BY DEF OnShake, ShakeReady, OnSend, OnWrite, OnTimerIdle, PeerDown, Asks, lifeVars
  <1>8. Kernel => socket_status' = "OPEN"
    BY DEF Kernel, ReadReady, WriteReady, ConnectReady, TimerReady, lifeVars
  <1>9. ~OnTimerConnect
    BY DEF OnTimerConnect
  <1>10. ASSUME NEW t, Msend(t) \/ SyncMsend(t) PROVE socket_status' = "OPEN"
    BY <1>10 DEF Msend, MsendCheck, MsendLock, MsendPush, MsendPost,
                 SyncMsend, SyncBegin, SyncAppend, SyncWrite, SyncClear, lifeVars
  <1> QED BY <1>2, <1>4, <1>5, <1>6, <1>7, <1>8, <1>9, <1>10 DEF Moves

LEMMA UnsentStep ==
    ASSUME TypeOK, TlsType, ReleaseInv, Used, Chain, Unsent, Moves, UNCHANGED usage
    PROVE  Unsent'
  <1> SUFFICES ASSUME usage # "sync", ~reconn_flag, connection', socket_status' # "OPEN"
               PROVE  NoSends'
    BY Steady DEF Unsent
  <1>1. socket_status # "OPEN"
    BY StaysOpen
  <1>2. NoSends
    BY <1>1, Steady DEF Unsent
  <1> QED BY <1>1, <1>2, NoSendsStays

LEMMA ShakenStep ==
    ASSUME TypeOK, TlsType, Used, Shaken, Moves, UNCHANGED usage
    PROVE  Shaken'
  <1> SUFFICES ASSUME usage = "tls", ~ssl_shakehand'
               PROVE  socket_status' # "OPEN" /\ phase' # "up" /\ NoSends'
    BY DEF Shaken
  <1>1. ASSUME NEW q, NEW r, do_close(q, r)
        PROVE  (socket_status' = socket_status \/ socket_status' # "OPEN")
               /\ (phase' = phase \/ phase' # "up")
    BY <1>1 DEF do_close, lifeVars, Released
  <1>2. /\ ~ssl_shakehand
        /\ socket_status' = socket_status \/ socket_status' # "OPEN"
        /\ phase' = phase \/ phase' # "up"
    <2>1. ASSUME NEW k, ComesUp(k)
          PROVE  /\ ~ssl_shakehand
                 /\ socket_status' = socket_status \/ socket_status' # "OPEN"
                 /\ phase' = phase
      BY <2>1 DEF ComesUp, init_read, lifeVars
    <2>2. OnShake => ~ssl_shakehand /\ UNCHANGED <<socket_status, phase>>
      BY DEF OnShake, lifeVars
    <2>3. ShakeReady => ~ssl_shakehand /\ UNCHANGED <<socket_status, phase>>
      BY DEF ShakeReady, lifeVars
    <2>4. OnRead \/ OnReadError \/ OnWriteError =>
            /\ socket_status' = socket_status \/ socket_status' # "OPEN"
            /\ phase' = phase \/ phase' # "up"
      BY <1>1 DEF OnRead, OnReadError, OnWriteError, lifeVars
    <2>5. OnSend \/ OnWrite \/ OnTimerIdle \/ PeerDown \/ Asks => UNCHANGED <<socket_status, phase>>
      BY DEF OnSend, OnWrite, OnTimerIdle, PeerDown, Asks, lifeVars
    <2>6. Kernel => UNCHANGED <<socket_status, phase>>
      BY DEF Kernel, ReadReady, WriteReady, ConnectReady, TimerReady, lifeVars
    <2>7. OnClose => socket_status' # "OPEN" /\ (phase' = phase \/ phase' # "up")
      BY DEF OnClose, Released
    <2>8. OnTimerConnect => socket_status' # "OPEN" /\ phase' = phase
      BY DEF OnTimerConnect, connect
    <2>9. ASSUME NEW t, Msend(t) PROVE UNCHANGED <<socket_status, phase>>
      BY <2>9 DEF Msend, MsendCheck, MsendLock, MsendPush, MsendPost, lifeVars
    <2> QED BY <2>1, <2>2, <2>3, <2>4, <2>5, <2>6, <2>7, <2>8, <2>9 DEF Moves
  <1>3. socket_status # "OPEN" /\ phase # "up" /\ NoSends
    BY <1>2 DEF Shaken
  <1> QED BY <1>2, <1>3, NoSendsStays

----------------------------------------------------------------------------
(* The buffers.                                                            *)

LEMMA LastAppend ==
    ASSUME NEW s \in Seq(Nat), NEW n \in Nat, Last(s, n)
    PROVE  Last(Append(s, n + 1), n + 1)
  <1>1. /\ Len(s) \in Nat /\ Len(Append(s, n + 1)) = Len(s) + 1
        /\ \A i \in 1..Len(s) : Append(s, n + 1)[i] = s[i] /\ s[i] \in Nat
        /\ Append(s, n + 1)[Len(s) + 1] = n + 1
    BY AppendProperties, LenProperties, ElementOfSeq
  <1>2. ASSUME NEW i \in 1..(Len(s) + 1)
        PROVE  Append(s, n + 1)[i] + (Len(s) + 1) = (n + 1) + i
    <2>1. CASE i \in 1..Len(s)
      <3>1. s[i] + Len(s) = n + i /\ s[i] \in Nat /\ Append(s, n + 1)[i] = s[i]
        BY <1>1, <2>1 DEF Last
      <3>2. \A a, b \in Nat : a + b = n + i => a + (b + 1) = (n + 1) + i
        OBVIOUS
      <3> QED BY <1>1, <3>1, <3>2
    <2>2. CASE i = Len(s) + 1
      BY <1>1, <2>2
    <2> QED BY <1>1, <2>1, <2>2
  <1> QED BY <1>1, <1>2 DEF Last

LEMMA LastEmpty == ASSUME NEW n \in Nat PROVE Last(<<>>, n)
  BY DEF Last

(* Steps of the worker and the kernel.                                     *)
LEMMA QuietBuffers ==
    ASSUME TypeOK, Buffers, UNCHANGED <<usage, reconn_flag, appVars>>,
           closes' = 0 => closes = 0, connection' => connection,
           \/ send_buffer' = send_buffer
           \/ send_buffer' = <<>> /\ (reconn_flag \/ ~connection' \/ write_mutex = NoThread)
    PROVE  Buffers'
  <1> SUFFICES ASSUME closes' = 0, usage # "sync"
               PROVE  /\ Last(send_buffer', accepted)
                      /\ \A t \in Senders : pc[t] = "pushing" =>
                           /\ write_mutex = t /\ Last(snapshot[t], accepted)
                           /\ ~reconn_flag /\ connection' => snapshot[t] = send_buffer'
    BY DEF Buffers, appVars, Last
  <1>1. /\ Last(send_buffer, accepted)
        /\ \A t \in Senders : pc[t] = "pushing" =>
             /\ write_mutex = t /\ Last(snapshot[t], accepted)
             /\ ~reconn_flag /\ connection => snapshot[t] = send_buffer
    BY DEF Buffers
  <1>2. Last(<<>>, accepted)
    BY LastEmpty DEF TypeOK
  <1>3. \A t \in Senders : t # NoThread
    BY ConstantsAssumption DEF Threads
  <1> QED BY <1>1, <1>2, <1>3

LEMMA SendersBuffers ==
    ASSUME TypeOK, Buffers, UNCHANGED <<usage, reconn_flag, closes, connection>>,
           NEW t \in Senders, Msend(t)
    PROVE  Buffers'
  <1> SUFFICES ASSUME closes = 0, usage # "sync"
               PROVE  /\ Last(send_buffer', accepted')
                      /\ \A u \in Senders : pc'[u] = "pushing" =>
                           /\ write_mutex' = u /\ Last(snapshot'[u], accepted')
                           /\ ~reconn_flag /\ connection => snapshot'[u] = send_buffer'
    BY DEF Buffers, Last
  <1>0. /\ t \in Threads /\ Senders \subseteq Threads /\ NoThread \notin Threads
        /\ pc \in [Threads -> {"idle", "checked", "pushing", "pushed",
                               "appending", "writing", "clearing"}]
        /\ snapshot \in [Threads -> Seq(Nat)] /\ accepted \in Nat
    BY ConstantsAssumption DEF TypeOK, Threads
  <1>1. /\ Last(send_buffer, accepted)
        /\ \A u \in Senders : pc[u] = "pushing" =>
             /\ write_mutex = u /\ Last(snapshot[u], accepted)
             /\ ~reconn_flag /\ connection => snapshot[u] = send_buffer
    BY DEF Buffers
  <1>2. CASE MsendCheck(t) \/ MsendPost(t)
    <2>1. /\ UNCHANGED <<snapshot, accepted, write_mutex, send_buffer>>
          /\ \A u \in Senders : pc'[u] = "pushing" => pc[u] = "pushing"
      BY <1>0, <1>2 DEF MsendCheck, MsendPost, Goto, bufVars
    <2> QED BY <1>1, <2>1
  <1>3. CASE MsendLock(t)
    <2>1. /\ UNCHANGED <<accepted, send_buffer>> /\ write_mutex = NoThread /\ write_mutex' = t
          /\ snapshot'[t] = send_buffer
          /\ \A u \in Senders : u # t => pc'[u] = pc[u]
      BY <1>0, <1>3 DEF MsendLock, Goto, BeginAppend, bufVars
    <2>2. \A u \in Senders : pc[u] # "pushing"
      BY <1>0, <1>1, <2>1
    <2> QED BY <1>1, <2>1, <2>2
  <1>4. CASE MsendPush(t)
    <2>1. /\ accepted' = accepted + 1 /\ send_buffer' = Append(snapshot[t], accepted + 1)
          /\ pc[t] = "pushing" /\ pc'[t] = "pushed" /\ \A u \in Senders : u # t => pc'[u] = pc[u]
      BY <1>0, <1>4 DEF MsendPush, Goto, EndAppend
    <2>2. \A u \in Senders : pc'[u] # "pushing"
      BY <1>1, <2>1
    <2>3. Last(send_buffer', accepted')
      BY <1>0, <1>1, <2>1, LastAppend
    <2> QED BY <2>2, <2>3
  <1> QED BY <1>2, <1>3, <1>4 DEF Msend

(* Nobody has closed a connection before a step, nor in it.                *)
LEMMA NotAsked ==
    ASSUME TypeOK, Moves, closes' = 0
    PROVE  ~Asks /\ closes = 0
  <1>1. closes \in Nat
    BY DEF TypeOK
  <1>2. Asks => closes' = closes + 1
    BY DEF Asks
  <1>3. closes + 1 # 0
    BY <1>1
  <1> QED BY <1>2, <1>3, Steady

(* Every step of a connection that nobody closes is one of these two.      *)
LEMMA BufferMoves ==
    ASSUME TypeOK, Moves, closes' = 0, usage # "sync"
    PROVE  \/ \E t \in Senders : Msend(t)
           \/ /\ UNCHANGED appVars
              /\ \/ send_buffer' = send_buffer
                 \/ /\ send_buffer' = <<>>
                    /\ reconn_flag \/ ~connection' \/ write_mutex = NoThread
  <1>0. ~Asks
    BY NotAsked
  <1>2. ASSUME NEW q, NEW r \in {0, 1}, do_close(q, r)
        PROVE  \/ send_buffer' = send_buffer
               \/ send_buffer' = <<>> /\ (reconn_flag \/ ~connection')
    BY <1>2 DEF do_close, need_reconnect, Released
  <1>3. ASSUME NEW cache, TakeSendBuffer(cache)
        PROVE  \/ send_buffer' = send_buffer
               \/ send_buffer' = <<>> /\ write_mutex = NoThread
    BY <1>3 DEF TakeSendBuffer
  <1>a. ASSUME NEW k, ComesUp(k) PROVE UNCHANGED <<appVars, send_buffer>>
    BY <1>a DEF ComesUp, bufVars
  <1>b. OnShake \/ ShakeReady \/ OnTimerIdle \/ PeerDown \/ OnTimerConnect =>
            UNCHANGED <<appVars, send_buffer>>
    BY DEF OnShake, ShakeReady, OnTimerIdle, PeerDown, OnTimerConnect, bufVars
  <1>c. Kernel => UNCHANGED <<appVars, send_buffer>>
    BY DEF Kernel, ReadReady, WriteReady, ConnectReady, TimerReady, bufVars
  <1>d. OnRead => /\ UNCHANGED appVars
                  /\ \/ send_buffer' = send_buffer
                     \/ send_buffer' = <<>> /\ (reconn_flag \/ ~connection')
    BY <1>2 DEF OnRead, bufVars
  <1>e. OnReadError \/ OnWriteError =>
                  /\ UNCHANGED appVars
                  /\ \/ send_buffer' = send_buffer
                     \/ send_buffer' = <<>> /\ (reconn_flag \/ ~connection')
    BY <1>2 DEF OnReadError, OnWriteError
  <1>f. OnSend \/ OnWrite =>
                  /\ UNCHANGED appVars
                  /\ \/ send_buffer' = send_buffer
                     \/ send_buffer' = <<>> /\ write_mutex = NoThread
    BY <1>3 DEF OnSend, OnWrite, bufVars
  <1>g. OnClose => UNCHANGED appVars /\ (send_buffer' = send_buffer
                     \/ (send_buffer' = <<>> /\ write_mutex = NoThread))
    BY <1>3 DEF OnClose, bufVars
  <1> QED BY <1>0, <1>a, <1>b, <1>c, <1>d, <1>e, <1>f, <1>g DEF Moves

LEMMA BuffersStep ==
    ASSUME TypeOK, Buffers, Moves, UNCHANGED usage
    PROVE  Buffers'
  <1>1. UNCHANGED reconn_flag /\ (connection' => connection)
    BY Steady
  <1> SUFFICES ASSUME closes' = 0, usage # "sync" PROVE Buffers'
    BY DEF Buffers
  <1>2. closes = 0
    BY NotAsked
  <1>3. ASSUME NEW t \in Senders, Msend(t) PROVE Buffers'
    <2>1. UNCHANGED <<closes, connection>>
      BY <1>3 DEF Msend, MsendCheck, MsendLock, MsendPush, MsendPost, cfgVars, lifeVars
    <2> QED BY <1>1, <1>3, <2>1, SendersBuffers
  <1>4. CASE /\ UNCHANGED appVars
             /\ \/ send_buffer' = send_buffer
                \/ /\ send_buffer' = <<>>
                   /\ reconn_flag \/ ~connection' \/ write_mutex = NoThread
    BY <1>1, <1>2, <1>4, QuietBuffers
  <1> QED BY <1>3, <1>4, BufferMoves

----------------------------------------------------------------------------
(* The write in progress.                                                  *)

LEMMA PrefixRest ==
    ASSUME NEW s \in Seq(Nat), NEW n \in 0..Len(s)
    PROVE  /\ Len(s) \in Nat /\ Len(Prefix(s, n)) = n /\ Len(Rest(s, n)) + n = Len(s)
           /\ Prefix(s, n) \in Seq(Nat) /\ Rest(s, n) \in Seq(Nat)
           /\ \A i \in 1..n : Prefix(s, n)[i] = s[i]
           /\ \A i \in 1..(Len(s) - n) : Rest(s, n)[i] = s[n + i]
  <1>1. Len(s) \in Nat /\ n \in Nat /\ n <= Len(s)
    BY LenProperties
  <1>2. Prefix(s, n) \in Seq(Nat) /\ Rest(s, n) \in Seq(Nat)
    BY PrefixRestType
  <1>3. Len(Prefix(s, n)) = n /\ \A i \in 1..n : Prefix(s, n)[i] = s[i]
    <2>1. 1 \in 1..(Len(s) + 1) /\ n \in 0..Len(s)
      BY <1>1
    <2> QED BY <1>1 DEF Prefix
  <1>4. Len(Rest(s, n)) = Len(s) - n /\ \A i \in 1..(Len(s) - n) : Rest(s, n)[i] = s[n + i]
    BY <1>1 DEF Rest
  <1> QED BY <1>1, <1>2, <1>3, <1>4

LEMMA ConcatNat ==
    ASSUME NEW w \in Seq(Nat), NEW p \in Seq(Nat)
    PROVE  /\ w \o p \in Seq(Nat) /\ Len(w \o p) = Len(w) + Len(p)
           /\ \A i \in 1..(Len(w) + Len(p)) :
                  (w \o p)[i] = IF i <= Len(w) THEN w[i] ELSE p[i - Len(w)]
  BY ConcatProperties

Increasing(w) == \A i \in 1..Len(w) : i < Len(w) => w[i] < w[i + 1]
Counted(w)    == \A i \in 1..Len(w) : w[i] = i

(* What the first n units of r make of the wire w.                         *)
Advanced(l, r, w, n, v) ==
    /\ Len(v) = Len(w) + n
    /\ Follows(l + n, Rest(r, n), v)
    /\ Increasing(w) => Increasing(v)
    /\ Counted(w) /\ Len(w) = l => Counted(v)
    /\ \A i \in 1..(Len(w) + n) : v[i] = IF i <= Len(w) THEN w[i] ELSE l + (i - Len(w))

LEMMA Advance ==
    ASSUME NEW w \in Seq(Nat), NEW r \in Seq(Nat), NEW l \in Nat, NEW n \in 0..Len(r),
           Follows(l, r, w)
    PROVE  Advanced(l, r, w, n, w \o Prefix(r, n))
  <1> DEFINE p == Prefix(r, n)
             v == w \o p
  <1>1. /\ Len(r) \in Nat /\ Len(p) = n /\ Len(Rest(r, n)) + n = Len(r)
        /\ p \in Seq(Nat) /\ Rest(r, n) \in Seq(Nat)
        /\ \A i \in 1..n : p[i] = r[i]
        /\ \A i \in 1..(Len(r) - n) : Rest(r, n)[i] = r[n + i]
    BY PrefixRest
  <1>2. /\ Len(w) \in Nat /\ n \in Nat /\ n <= Len(r) /\ Len(Rest(r, n)) = Len(r) - n
        /\ \A i \in 1..Len(w) : w[i] \in Nat /\ w[i] <= l
        /\ \A i \in 1..Len(r) : r[i] = l + i
    BY <1>1, LenProperties, ElementOfSeq DEF Follows
  <1> HIDE DEF p
  <1>3. Len(v) = Len(w) + n /\ \A i \in 1..(Len(w) + n) : v[i] = IF i <= Len(w) THEN w[i] ELSE p[i - Len(w)]
    <2>1. /\ Len(w \o p) = Len(w) + Len(p)
          /\ \A i \in 1..(Len(w) + Len(p)) : (w \o p)[i] = IF i <= Len(w) THEN w[i] ELSE p[i - Len(w)]
      BY <1>1, ConcatNat
    <2> QED BY <1>1, <2>1
  <1> HIDE DEF v
  <1>4. ASSUME NEW i \in 1..(Len(w) + n), ~(i <= Len(w))
        PROVE  p[i - Len(w)] = l + (i - Len(w))
    <2>1. i - Len(w) \in 1..n /\ i - Len(w) \in 1..Len(r)
      BY <1>2, <1>4
    <2> QED BY <1>1, <1>2, <2>1
  <1>5. \A i \in 1..(Len(w) + n) : v[i] = IF i <= Len(w) THEN w[i] ELSE l + (i - Len(w))
    BY <1>3, <1>4
  <1>6. ASSUME NEW i \in 1..Len(v) PROVE v[i] <= l + n
    <2>1. i \in 1..(Len(w) + n)
      BY <1>3
    <2>2. CASE i <= Len(w)
      <3>1. i \in 1..Len(w) /\ v[i] = w[i]
        BY <1>2, <1>5, <2>1, <2>2
      <3>2. w[i] <= l /\ w[i] \in Nat
        BY <1>2, <3>1
      <3> QED BY <1>2, <3>1, <3>2
    <2>3. CASE ~(i <= Len(w))
      BY <1>2, <1>5, <2>1, <2>3
    <2> QED BY <2>2, <2>3
  <1>7. \A i \in 1..Len(Rest(r, n)) : Rest(r, n)[i] = (l + n) + i
    <2>1. \A i \in 1..(Len(r) - n) : n + i \in 1..Len(r)
      BY <1>1, <1>2
    <2> QED BY <1>1, <1>2, <2>1
  <1>8. ASSUME Increasing(w), NEW i \in 1..Len(v), i < Len(v) PROVE v[i] < v[i + 1]
    <2>1. i \in 1..(Len(w) + n) /\ i + 1 \in 1..(Len(w) + n)
      BY <1>2, <1>3, <1>8
    <2>2. CASE i < Len(w)
      <3>1. v[i] = w[i] /\ v[i + 1] = w[i + 1] /\ i \in 1..Len(w)
        BY <1>2, <1>5, <2>1, <2>2
      <3> QED BY <1>8, <2>2, <3>1 DEF Increasing
    <2>3. CASE i = Len(w)
      <3>1. v[i] = w[i] /\ i \in 1..Len(w)
        BY <1>2, <1>5, <2>1, <2>3
      <3>3. ~(i + 1 <= Len(w)) /\ (i + 1) - Len(w) = 1
        BY <1>2, <2>3
      <3>4. v[i + 1] = l + 1
        BY <1>5, <2>1, <3>3
      <3>2. w[i] <= l /\ w[i] \in Nat
        BY <1>2, <3>1
      <3> QED BY <3>1, <3>2, <3>4
    <2>4. CASE i > Len(w)
      BY <1>2, <1>5, <2>1, <2>4
    <2> QED BY <1>2, <2>1, <2>2, <2>3, <2>4
  <1>9. ASSUME Counted(w), Len(w) = l PROVE Counted(v)
    BY <1>2, <1>3, <1>5, <1>9 DEF Counted
  <1>10. Follows(l + n, Rest(r, n), v)
    BY <1>6, <1>7 DEF Follows
  <1>11. Advanced(l, r, w, n, v)
    BY <1>3, <1>5, <1>8, <1>9, <1>10 DEF Advanced, Increasing
  <1> QED BY <1>11 DEF v, p

LEMMA PlacedAdvance ==
    ASSUME TypeOK, NEW l \in Nat, NEW r \in Seq(Nat), NEW w \in Seq(Nat), NEW s \in Seq(Nat),
           NEW n \in 0..Len(r), Placed(l, r, w, s)
    PROVE  /\ Placed(l + n, Rest(r, n), w \o Prefix(r, n), s)
           /\ l + n \in Nat /\ Rest(r, n) \in Seq(Nat)
  <1> DEFINE R == Rest(r, n)
             v == w \o Prefix(r, n)
  <1>1. /\ Len(r) \in Nat /\ Len(R) + n = Len(r) /\ R \in Seq(Nat) /\ Len(w) \in Nat /\ n \in Nat
        /\ Len(R) \in Nat /\ Len(s) \in Nat /\ accepted \in Nat
    BY PrefixRest, LenProperties DEF TypeOK
  <1>2. Len(v) = Len(w) + n /\ Follows(l + n, R, v)
    <2>1. Follows(l, r, w)
      BY DEF Placed
    <2>2. Advanced(l, r, w, n, w \o Prefix(r, n))
      BY <2>1, Advance
    <2> QED BY <2>2 DEF Advanced
  <1> HIDE DEF R, v
  <1>3. (l + n) + Len(R) = l + Len(r) /\ l + n \in Nat
    <2>1. \A a, b \in Nat : a + n = b => (l + n) + a = l + b
      BY <1>1
    <2>2. (l + n) + Len(R) = l + Len(r)
      BY <1>1, <2>1, Zenon
    <2> QED BY <1>1, <2>2
  <1>4. ~reconn_flag => Len(v) = l + n
    BY <1>1, <1>2 DEF Placed
  <1>5. Placed(l + n, R, v, s)
    BY <1>2, <1>3, <1>4 DEF Placed
  <1> QED BY <1>1, <1>3, <1>5 DEF R, v

(* A step that writes the first n units of r.                              *)
Goes ==
    \E l \in Nat, r \in Seq(Nat) : \E n \in 0..Len(r) :
        /\ wire' = wire \o Prefix(r, n) /\ InFlight(Rest(r, n))'
        /\ Placed(l, r, wire, send_buffer')

LEMMA GoesFlow ==
    ASSUME TypeOK, TypeOK', Goes, UNCHANGED <<appVars, reconn_flag>>,
           ~is_writting' => cache_buffer' = <<>>
    PROVE  Flow'
  <1>1. PICK l \in Nat, r \in Seq(Nat) : \E n \in 0..Len(r) :
            /\ wire' = wire \o Prefix(r, n) /\ InFlight(Rest(r, n))'
            /\ Placed(l, r, wire, send_buffer')
    BY DEF Goes
  <1>2. PICK n \in 0..Len(r) : /\ wire' = wire \o Prefix(r, n) /\ InFlight(Rest(r, n))'
                               /\ Placed(l, r, wire, send_buffer')
    BY <1>1
  <1>3. wire \in Seq(Nat) /\ send_buffer' \in Seq(Nat)
    BY DEF TypeOK
  <1>4. /\ Placed(l + n, Rest(r, n), wire', send_buffer')
        /\ l + n \in Nat /\ Rest(r, n) \in Seq(Nat)
    BY <1>2, <1>3, PlacedAdvance
  <1>5. Placed(l + n, Rest(r, n), wire, send_buffer)'
    BY <1>4 DEF Placed, appVars
  <1> QED BY <1>2, <1>4, <1>5 DEF Flow

LEMMA InFlightSame ==
    ASSUME NEW r, InFlight(r), Keeps(ready, ready', {"WRITE"}),
           UNCHANGED <<is_writting, writes, reconn_flag>>
    PROVE  InFlight(r)'
  <1>1. None(ready, {"WRITE"}) => None(ready', {"WRITE"})
    BY DEF Keeps
  <1>2. \A h : One(ready, {"WRITE"}, h) => One(ready', {"WRITE"}, h)
    BY DEF Keeps
  <1> QED BY <1>1, <1>2 DEF InFlight, None, One

(* Steps that leave the write in progress alone.                           *)
LEMMA QuietFlow ==
    ASSUME TypeOK, Flow, closes = 0, usage # "sync", connection,
           UNCHANGED <<is_writting, writes, wire, accepted, reconn_flag>>,
           Keeps(ready, ready', {"WRITE"}),
           cache_buffer' = cache_buffer \/ cache_buffer' = <<>>,
           send_buffer' = send_buffer \/ (send_buffer' = <<>> /\ reconn_flag),
           \A t \in Senders : pc'[t] = "pushing" =>
               \/ pc[t] = "pushing" /\ snapshot'[t] = snapshot[t]
               \/ snapshot'[t] = send_buffer
    PROVE  Flow'
  <1>1. PICK l \in Nat, r \in Seq(Nat) : InFlight(r) /\ Placed(l, r, wire, send_buffer)
    BY DEF Flow
  <1>2. InFlight(r)'
    BY <1>1, InFlightSame
  <1>3. Len(r) \in Nat /\ Len(send_buffer) \in Nat /\ accepted \in Nat
    BY LenProperties DEF TypeOK
  <1>4. /\ l + Len(r) + Len(send_buffer) <= accepted
        /\ Follows(l, r, wire)
        /\ \A t \in Senders : pc[t] = "pushing" => l + Len(r) + Len(snapshot[t]) <= accepted
        /\ ~reconn_flag => Len(wire) = l /\ l + Len(r) + Len(send_buffer) = accepted
    BY <1>1 DEF Placed
  <1>5. l + Len(r) + Len(send_buffer') <= accepted
    <2>1. CASE send_buffer' = send_buffer
      BY <1>4, <2>1
    <2>2. CASE send_buffer' = <<>>
      <3>1. Len(send_buffer') = 0
        BY <2>2
      <3> QED BY <1>3, <1>4, <3>1
    <2> QED BY <2>1, <2>2
  <1>6. \A t \in Senders : pc'[t] = "pushing" => l + Len(r) + Len(snapshot'[t]) <= accepted
    BY <1>4
  <1>7. Placed(l, r, wire, send_buffer)'
    BY <1>4, <1>5, <1>6 DEF Placed, Follows
  <1>8. ~is_writting' => cache_buffer' = <<>>
    BY DEF Flow
  <1> QED BY <1>2, <1>7, <1>8 DEF Flow

(* The socket is closed or replaced: the write that waits fails.           *)
LEMMA AbortFlow ==
    ASSUME TypeOK, Flow, closes = 0, usage # "sync", connection,
           UNCHANGED <<bufVars, appVars, reconn_flag>>,
           NEW k, Running(k), k # "WRITE", writes' = <<>>,
           ready' = Tail(ready) \o Aborted(reads, writes, connecting),
           wire' = wire \/ (wire' = <<>> /\ reconn_flag)
    PROVE  Flow'
  <1> DEFINE A == Aborted(reads, writes, connecting)
  <1>0. /\ ready \in Seq(Handler) /\ ready # <<>> /\ Head(ready).k \notin {"WRITE"}
        /\ Tail(ready) \in Seq(Handler) /\ A \in Seq(Handler)
        /\ reads \in Nat /\ connecting \in Nat /\ writes \in Seq(Seq(Nat))
    BY RunningType, AbortedType DEF TypeOK, Running
  <1>1. PICK l \in Nat, r \in Seq(Nat) : InFlight(r) /\ Placed(l, r, wire, send_buffer)
    BY DEF Flow
  <1>2. Keeps(ready, Tail(ready), {"WRITE"})
    BY <1>0, KeepsTail
  <1>3. InFlight(r)'
    <2>1. CASE writes = <<>>
      <3>1. None(A, {"WRITE"})
        BY <1>0, <2>1, AbortedNone
      <3> HIDE DEF A
      <3>2. Keeps(Tail(ready), Tail(ready) \o A, {"WRITE"})
        BY <1>0, <3>1, KeepsConcat
      <3>3. Keeps(ready, ready', {"WRITE"})
        BY <1>2, <3>2, KeepsTrans DEF A
      <3> QED BY <1>1, <2>1, <3>3, InFlightSame DEF bufVars
    <2>2. CASE writes # <<>>
      <3>1. is_writting /\ writes = <<r>> /\ None(ready, {"WRITE"})
        BY <1>1, <2>2 DEF InFlight
      <3>2. One(A, {"WRITE"}, HW(FALSE, r))
        BY <1>0, <3>1, AbortedOne
      <3>3. None(Tail(ready), {"WRITE"})
        BY <1>2, <3>1 DEF Keeps
      <3> HIDE DEF A
      <3>4. One(Tail(ready) \o A, {"WRITE"}, HW(FALSE, r))
        BY <1>0, <3>2, <3>3, OneConcat
      <3>5. One(ready', {"WRITE"}, HW(FALSE, r))
        BY <3>4 DEF A
      <3> QED BY <3>1, <3>5 DEF InFlight, bufVars, One
    <2> QED BY <2>1, <2>2
  <1>4. Placed(l, r, wire, send_buffer)'
    <2>1. Follows(l, r, wire) => Follows(l, r, wire')
      BY DEF Follows
    <2>2. /\ l + Len(r) + Len(send_buffer') <= accepted'
          /\ \A t \in Senders : pc'[t] = "pushing" => l + Len(r) + Len(snapshot'[t]) <= accepted'
          /\ ~reconn_flag' => Len(wire') = l /\ l + Len(r) + Len(send_buffer') = accepted'
      BY <1>1 DEF Placed, appVars, bufVars
    <2>3. Follows(l, r, wire')
      BY <1>1, <2>1 DEF Placed
    <2> QED BY <2>2, <2>3 DEF Placed, Follows
  <1>5. ~is_writting' => cache_buffer' = <<>>
    BY DEF Flow, bufVars
  <1> QED BY <1>3, <1>4, <1>5 DEF Flow

(* A write is started: it waits, fails at once, or writes some of s.       *)
LEMMA StartGoes ==
    ASSUME TypeOK, NEW l \in Nat, NEW s \in Seq(Nat), NEW q \in Seq(Handler),
           writes = <<>>, None(q, {"WRITE"}), Placed(l, s, wire, send_buffer'),
           NEW x \in StartWrite(s, q),
           wire' = x.wire, writes' = x.writes, ready' = x.q, is_writting'
    PROVE  Goes
  <1>0. /\ 0 \in 0..Len(s) /\ Len(s) \in Nat /\ wire \in Seq(Nat)
        /\ \A n \in 1..Len(s) : n \in 0..Len(s)
    BY LenProperties DEF TypeOK
  <1>1. Rest(s, 0) = s
    BY <1>0 DEF Rest
  <1>2. \A n \in 0..Len(s) : HW(TRUE, Rest(s, n)) \in Handler /\ HW(FALSE, s) \in Handler
    BY <1>0, PrefixRestType, HandlerType
  <1>3. \A b \in BOOLEAN, r \in Seq(Nat) : HW(b, r).k \in {"WRITE"}
    BY DEF HW
  <1>4. \A n \in 0..Len(s) : Rest(s, n) \in Seq(Nat)
    BY PrefixRestType
  <1>5. ASSUME NEW n \in 0..Len(s), wire' = wire \o Prefix(s, n), InFlight(Rest(s, n))'
        PROVE  Goes
    BY <1>5 DEF Goes
  <1>a. CASE x = Result(0, s, Append(writes, s), q)
    <2>1. wire' = wire \o Prefix(s, 0) /\ writes' = <<s>> /\ ready' = q
      BY <1>a DEF Result
    <2>2. InFlight(s)'
      BY <2>1 DEF InFlight, None
    <2> QED BY <1>0, <1>1, <1>5, <2>1, <2>2
  <1>b. CASE x = Result(0, s, writes, Append(q, HW(FALSE, s)))
    <2>1. wire' = wire \o Prefix(s, 0) /\ writes' = <<>> /\ ready' = Append(q, HW(FALSE, s))
      BY <1>b DEF Result
    <2>2. HW(FALSE, s) \in Handler /\ HW(FALSE, s).k \in {"WRITE"}
      BY <1>0, <1>2, <1>3
    <2>3. One(ready', {"WRITE"}, HW(FALSE, s))
      BY <2>1, <2>2, AddOne
    <2>4. InFlight(s)'
      BY <2>1, <2>3 DEF InFlight, One
    <2> QED BY <1>0, <1>1, <1>5, <2>1, <2>4
  <1>c. ASSUME NEW n \in 1..Len(s), x = Result(n, s, writes, Append(q, HW(TRUE, Rest(s, n))))
        PROVE  Goes
    <2>0. n \in 0..Len(s)
      BY <1>0
    <2>1. wire' = wire \o Prefix(s, n) /\ writes' = <<>> /\ ready' = Append(q, HW(TRUE, Rest(s, n)))
      BY <1>c DEF Result
    <2>2. HW(TRUE, Rest(s, n)) \in Handler /\ HW(TRUE, Rest(s, n)).k \in {"WRITE"}
      BY <1>2, <1>3, <1>4, <2>0
    <2>3. One(ready', {"WRITE"}, HW(TRUE, Rest(s, n)))
      BY <2>1, <2>2, AddOne
    <2>4. InFlight(Rest(s, n))'
      BY <2>1, <2>3 DEF InFlight, One
    <2> QED BY <1>5, <2>0, <2>1, <2>4
  <1> QED BY <1>a, <1>b, <1>c, Outcomes

(* send_buffer becomes the write in progress.                              *)
LEMMA TakeBuffer ==
    ASSUME TypeOK, Buffers, closes = 0, usage # "sync", write_mutex = NoThread,
           NEW l \in Nat, Placed(l, <<>>, wire, send_buffer)
    PROVE  \E m \in Nat : Placed(m, send_buffer, wire, <<>>)
  <1>1. /\ Len(send_buffer) \in Nat /\ accepted \in Nat /\ Len(<<>>) = 0
        /\ send_buffer \in Seq(Nat) /\ \A i \in 1..Len(send_buffer) : send_buffer[i] \in Nat
        /\ wire \in Seq(Nat) /\ \A i \in 1..Len(wire) : wire[i] \in Nat
    BY LenProperties, ElementOfSeq DEF TypeOK
  <1>2. /\ Len(send_buffer) <= accepted
        /\ \A i \in 1..Len(send_buffer) : send_buffer[i] + Len(send_buffer) = accepted + i
    BY DEF Buffers, Last
  <1>3. /\ l + Len(<<>>) + Len(send_buffer) <= accepted /\ Follows(l, <<>>, wire)
        /\ ~reconn_flag => Len(wire) = l /\ l + Len(<<>>) + Len(send_buffer) = accepted
    BY DEF Placed
  <1>4. \A t \in Senders : pc[t] # "pushing"
    BY ConstantsAssumption DEF Buffers, Threads
  <1> DEFINE m == accepted - Len(send_buffer)
  <1>5. m \in Nat /\ m + Len(send_buffer) = accepted /\ l <= m /\ (~reconn_flag => l = m)
    BY <1>1, <1>2, <1>3
  <1> HIDE DEF m
  <1>6. Follows(m, send_buffer, wire)
    <2>1. ASSUME NEW i \in 1..Len(send_buffer) PROVE send_buffer[i] = m + i
      <3>1. send_buffer[i] + Len(send_buffer) = accepted + i /\ send_buffer[i] \in Nat
        BY <1>1, <1>2
      <3>2. \A a, b \in Nat : a + b = accepted + i /\ m + b = accepted => a = m + i
        BY <1>1, <1>5
      <3> QED BY <1>1, <1>5, <3>1, <3>2
    <2>2. ASSUME NEW i \in 1..Len(wire) PROVE wire[i] <= m
      <3>1. wire[i] <= l /\ wire[i] \in Nat
        BY <1>1, <1>3 DEF Follows
      <3> QED BY <1>5, <3>1
    <2> QED BY <2>1, <2>2 DEF Follows
  <1>7. m + Len(send_buffer) + Len(<<>>) = accepted /\ (~reconn_flag => Len(wire) = m)
    BY <1>1, <1>3, <1>5
  <1>8. m + Len(send_buffer) + Len(<<>>) <= accepted
    BY <1>1, <1>7
  <1>9. Placed(m, send_buffer, wire, <<>>)
    BY <1>4, <1>6, <1>7, <1>8 DEF Placed
  <1> QED BY <1>5, <1>9

LEMMA WriterFlow ==
    ASSUME TypeOK, TypeOK', Used, Buffers, Flow, closes = 0, usage # "sync", connection,
           UNCHANGED <<usage, reconn_flag>>, OnSend \/ OnWrite
    PROVE  Flow' /\ (Goes \/ UNCHANGED wire)
  <1> DEFINE q == Tail(ready)
  <1>0. /\ ready \in Seq(Handler) /\ ready # <<>> /\ q \in Seq(Handler) /\ rem \in Seq(Nat)
        /\ Head(ready).k \in {"SEND", "WRITE"} /\ UNCHANGED appVars
        /\ send_buffer \in Seq(Nat) /\ <<>> \in Seq(Nat)
    BY RunningType, EmptySeq DEF OnSend, OnWrite, Running, TypeOK
  <1>1. PICK l \in Nat, r \in Seq(Nat) : InFlight(r) /\ Placed(l, r, wire, send_buffer)
    BY DEF Flow
  <1>2. ASSUME NEW t \in Senders
        PROVE  pc'[t] = "pushing" => pc[t] = "pushing" /\ snapshot'[t] = snapshot[t]
    BY <1>0 DEF appVars
  <1>3. ASSUME None(q, {"WRITE"}), writes = <<>>, r = <<>>, TakeSendBuffer(<<>>),
               \E x \in do_async_write(<<>>, q) :
                   wire' = x.wire /\ writes' = x.writes /\ ready' = x.q
        PROVE  Flow' /\ (Goes \/ UNCHANGED wire)
    <2>1. /\ write_mutex = NoThread /\ send_buffer' = <<>> /\ cache_buffer' = send_buffer
          /\ is_writting' = (send_buffer # <<>>)
      BY <1>3 DEF TakeSendBuffer, Swapped
    <2>2. CASE send_buffer = <<>>
      <3>1. UNCHANGED <<wire, writes>> /\ ready' = q
        BY <1>3, <2>2 DEF do_async_write, Swapped
      <3>2. InFlight(<<>>)'
        BY <1>3, <2>1, <2>2, <3>1 DEF InFlight, None
      <3>3. Placed(l, <<>>, wire, send_buffer)'
        BY <1>0, <1>1, <1>3, <2>1, <2>2, <3>1 DEF Placed, appVars
      <3> QED BY <1>0, <2>1, <2>2, <3>1, <3>2, <3>3 DEF Flow
    <2>3. CASE send_buffer # <<>>
      <3>1. PICK x \in StartWrite(send_buffer, q) :
                wire' = x.wire /\ writes' = x.writes /\ ready' = x.q
        BY <1>3, <2>3 DEF do_async_write, Swapped
      <3>2. PICK m \in Nat : Placed(m, send_buffer, wire, <<>>)
        BY <1>1, <1>3, <2>1, TakeBuffer
      <3>3. Placed(m, send_buffer, wire, send_buffer')
        BY <2>1, <3>2
      <3>4. is_writting'
        BY <2>1, <2>3
      <3>5. Goes
        BY <1>0, <1>3, <3>1, <3>3, <3>4, StartGoes
      <3> QED BY <1>0, <3>4, <3>5, GoesFlow
    <2> QED BY <2>2, <2>3
  <1>4. CASE OnSend
    <2>1. Head(ready).k \notin {"WRITE"}
      BY <1>4 DEF OnSend, Running
    <2>2. Keeps(ready, q, {"WRITE"})
      BY <1>0, <2>1, KeepsTail
    <2>3. CASE is_writting
      <3>1. ready' = q /\ UNCHANGED <<bufVars, writes, wire>>
        BY <1>4, <2>3 DEF OnSend
      <3> HIDE DEF q
      <3>2. Flow'
        BY <1>0, <1>2, <2>2, <3>1, QuietFlow DEF bufVars, appVars
      <3> QED BY <3>1, <3>2
    <2>4. CASE ~is_writting
      <3>1. r = <<>> /\ writes = <<>> /\ None(ready, {"WRITE"}) /\ cache_buffer = <<>>
        BY <1>1, <2>4 DEF InFlight, Flow
      <3>2. None(q, {"WRITE"})
        BY <2>2, <3>1 DEF Keeps
      <3>3. /\ TakeSendBuffer(<<>>)
            /\ \E x \in do_async_write(<<>>, q) :
                   wire' = x.wire /\ writes' = x.writes /\ ready' = x.q
        BY <1>4, <2>4, <3>1 DEF OnSend
      <3> QED BY <1>3, <3>1, <3>2, <3>3
    <2> QED BY <2>3, <2>4
  <1>5. CASE OnWrite
    <2>1. Head(ready).k \in {"WRITE"}
      BY <1>5 DEF OnWrite, Running
    <2>2. ~None(ready, {"WRITE"})
      BY <1>0, <2>1, NoneTail
    <2>3. PICK b \in BOOLEAN : One(ready, {"WRITE"}, HW(b, r))
      BY <1>1, <2>2 DEF InFlight
    <2>4. Head(ready) = HW(b, r) /\ None(q, {"WRITE"})
      BY <1>0, <2>1, <2>3, TakeOne
    <2>5. rem = r /\ writes = <<>> /\ is_writting
      BY <1>1, <2>2, <2>4 DEF rem, HW, InFlight
    <2>6. CASE rem # <<>>
      <3>1. PICK x \in StartWrite(r, q) : wire' = x.wire /\ writes' = x.writes /\ ready' = x.q
        BY <1>5, <2>5, <2>6 DEF OnWrite
      <3>2. is_writting' /\ send_buffer' = send_buffer
        BY <1>5, <2>5, <2>6 DEF OnWrite, bufVars
      <3>3. Placed(l, r, wire, send_buffer')
        BY <1>1, <3>2
      <3>4. Goes
        BY <1>0, <2>4, <2>5, <3>1, <3>2, <3>3, StartGoes
      <3> QED BY <1>0, <3>2, <3>4, GoesFlow
    <2>7. CASE rem = <<>>
      <3>1. /\ TakeSendBuffer(<<>>)
            /\ \E x \in do_async_write(<<>>, q) :
                   wire' = x.wire /\ writes' = x.writes /\ ready' = x.q
        BY <1>5, <2>7 DEF OnWrite
      <3> QED BY <1>3, <2>4, <2>5, <2>7, <3>1
    <2> QED BY <2>6, <2>7
  <1> QED BY <1>4, <1>5

LEMMA WriteReadyFlow ==
    ASSUME TypeOK, TypeOK', Flow, closes = 0, usage # "sync", connection, WriteReady
    PROVE  Flow' /\ Goes
  <1>1. PICK l \in Nat, r \in Seq(Nat) : InFlight(r) /\ Placed(l, r, wire, send_buffer)
    BY DEF Flow
  <1>2. is_writting /\ writes = <<r>> /\ None(ready, {"WRITE"}) /\ ready \in Seq(Handler)
    BY <1>1 DEF InFlight, WriteReady, TypeOK
  <1>3. Head(writes) = r /\ Tail(writes) = <<>>
    BY <1>2
  <1>4. /\ writes' = <<>> /\ is_writting' /\ UNCHANGED <<appVars, bufVars, reconn_flag>>
        /\ send_buffer' = send_buffer
    BY <1>2, <1>3 DEF WriteReady, bufVars, cfgVars
  <1>5. \A b \in BOOLEAN, s \in Seq(Nat) : HW(b, s) \in Handler /\ HW(b, s).k \in {"WRITE"}
    BY HandlerType DEF HW
  <1>6. /\ 0 \in 0..Len(r) /\ Len(r) \in Nat /\ wire \in Seq(Nat)
        /\ \A n \in 1..Len(r) : n \in 0..Len(r)
    BY LenProperties DEF TypeOK
  <1>7. ASSUME NEW n \in 0..Len(r), wire' = wire \o Prefix(r, n), InFlight(Rest(r, n))'
        PROVE  Goes
    BY <1>1, <1>4, <1>7 DEF Goes
  <1>8. Goes
    <2>1. CASE \E n \in 1..Len(r) : /\ wire' = wire \o Prefix(r, n)
                                    /\ ready' = Append(ready, HW(TRUE, Rest(r, n)))
      <3>1. PICK n \in 1..Len(r) : /\ wire' = wire \o Prefix(r, n)
                                   /\ ready' = Append(ready, HW(TRUE, Rest(r, n)))
        BY <2>1
      <3>2. n \in 0..Len(r)
        BY <1>6
      <3>3. Rest(r, n) \in Seq(Nat)
        BY <3>2, PrefixRestType
      <3>4. HW(TRUE, Rest(r, n)) \in Handler /\ HW(TRUE, Rest(r, n)).k \in {"WRITE"}
        BY <1>5, <3>3
      <3>5. One(ready', {"WRITE"}, HW(TRUE, Rest(r, n)))
        BY <1>2, <3>1, <3>4, AddOne
      <3>6. InFlight(Rest(r, n))'
        BY <1>4, <3>5 DEF InFlight, One
      <3> QED BY <1>7, <3>1, <3>2, <3>6
    <2>2. CASE ready' = Append(ready, HW(FALSE, r)) /\ UNCHANGED wire
      <3>1. HW(FALSE, r) \in Handler /\ HW(FALSE, r).k \in {"WRITE"}
        BY <1>5
      <3>2. One(ready', {"WRITE"}, HW(FALSE, r))
        BY <1>2, <2>2, <3>1, AddOne
      <3>3. InFlight(r)'
        BY <1>4, <3>2 DEF InFlight, One
      <3>4. Rest(r, 0) = r
        BY <1>6 DEF Rest
      <3>5. Prefix(r, 0) = <<>>
        BY SubSeqEmpty DEF Prefix
      <3>6. wire' = wire \o Prefix(r, 0)
        BY <1>6, <2>2, <3>5, ConcatEmptySeq
      <3> QED BY <1>6, <1>7, <3>3, <3>4, <3>6
    <2> QED BY <1>3, <2>1, <2>2 DEF WriteReady
  <1> QED BY <1>4, <1>8, GoesFlow

LEMMA SenderFlow ==
    ASSUME TypeOK, TypeOK', Buffers, Flow, closes = 0, usage # "sync", connection,
           UNCHANGED <<usage, reconn_flag>>, NEW t \in Senders, Msend(t)
    PROVE  Flow'
  <1>0. /\ t \in Threads /\ Senders \subseteq Threads /\ NoThread \notin Threads
        /\ pc \in [Threads -> {"idle", "checked", "pushing", "pushed",
                               "appending", "writing", "clearing"}]
        /\ snapshot \in [Threads -> Seq(Nat)] /\ accepted \in Nat
    BY ConstantsAssumption DEF TypeOK, Threads
  <1>1. Keeps(ready, ready', {"WRITE"})
    BY SenderAppends
  <1>2. CASE MsendCheck(t) \/ MsendPost(t) \/ MsendLock(t)
    <2>1. /\ UNCHANGED <<is_writting, writes, wire, accepted, cache_buffer, send_buffer>>
          /\ \A u \in Senders : pc'[u] = "pushing" =>
               \/ pc[u] = "pushing" /\ snapshot'[u] = snapshot[u]
               \/ snapshot'[u] = send_buffer
      BY <1>0, <1>2 DEF MsendCheck, MsendPost, MsendLock, Goto, BeginAppend, bufVars, opVars
    <2> QED BY <1>1, <2>1, QuietFlow
  <1>3. CASE MsendPush(t)
    <2>1. PICK l \in Nat, r \in Seq(Nat) : InFlight(r) /\ Placed(l, r, wire, send_buffer)
      BY DEF Flow
    <2>2. /\ accepted' = accepted + 1 /\ send_buffer' = Append(snapshot[t], accepted + 1)
          /\ pc[t] = "pushing" /\ pc'[t] = "pushed" /\ \A u \in Senders : u # t => pc'[u] = pc[u]
          /\ UNCHANGED <<is_writting, cache_buffer, writes, wire>>
      BY <1>0, <1>3 DEF MsendPush, Goto, EndAppend, opVars
    <2>3. \A u \in Senders : pc'[u] # "pushing"
      BY <2>2 DEF Buffers
    <2>4. InFlight(r)'
      BY <1>1, <2>1, <2>2, InFlightSame
    <2>5. /\ snapshot[t] \in Seq(Nat) /\ Len(snapshot[t]) \in Nat /\ Len(r) \in Nat
          /\ Len(send_buffer') = Len(snapshot[t]) + 1
      BY <1>0, <2>2, AppendProperties, LenProperties
    <2>6. /\ l + Len(r) + Len(snapshot[t]) <= accepted
          /\ ~reconn_flag => Len(wire) = l /\ l + Len(r) + Len(snapshot[t]) = accepted
      BY <2>1, <2>2 DEF Placed, Buffers
    <2>7. /\ l + Len(r) + Len(send_buffer') <= accepted'
          /\ ~reconn_flag => l + Len(r) + Len(send_buffer') = accepted'
      <3>1. \A a, b, c \in Nat :
                /\ a + b + c <= accepted => a + b + (c + 1) <= accepted + 1
                /\ a + b + c = accepted => a + b + (c + 1) = accepted + 1
        BY <1>0
      <3>2. /\ l + Len(r) + (Len(snapshot[t]) + 1) <= accepted + 1
            /\ ~reconn_flag => l + Len(r) + (Len(snapshot[t]) + 1) = accepted + 1
        BY <2>1, <2>5, <2>6, <3>1, Zenon
      <3> QED BY <2>2, <2>5, <3>2
    <2>8. Follows(l, r, wire)
      BY <2>1 DEF Placed
    <2>9. Placed(l, r, wire, send_buffer)'
      BY <2>2, <2>3, <2>6, <2>7, <2>8 DEF Placed, Follows
    <2>10. ~is_writting' => cache_buffer' = <<>>
      BY <2>2 DEF Flow
    <2> QED BY <2>4, <2>9, <2>10 DEF Flow
  <1> QED BY <1>2, <1>3 DEF Msend

LEMMA WriteErrorFlow ==
    ASSUME TypeOK, ReleaseInv, Used, Chain, Unsent, Flow, closes = 0, usage # "sync", connection,
           connection', UNCHANGED reconn_flag, OnWriteError
    PROVE  Flow'
  <1>0. /\ ready \in Seq(Handler) /\ ready # <<>> /\ Head(ready).k \in {"WRITE"}
        /\ do_close(Tail(ready), 0) /\ UNCHANGED <<appVars, is_writting, wire>>
        /\ cache_buffer' = <<>>
    BY DEF OnWriteError, Running, TypeOK
  <1>1. ~None(ready, {"WRITE"})
    BY <1>0, NoneTail
  <1>2. reconn_flag
    <2> SUFFICES ASSUME ~reconn_flag PROVE FALSE
      OBVIOUS
    <2>1. socket_status \in {"CLOSING", "CLOSED"}
      BY <1>0, DoCloseEnds
    <2>2. NoSends
      BY <2>1 DEF Unsent
    <2> QED BY <1>1, <2>2 DEF NoSends, None
  <1>3. PICK l \in Nat, r \in Seq(Nat) : InFlight(r) /\ Placed(l, r, wire, send_buffer)
    BY DEF Flow
  <1>4. PICK b \in BOOLEAN : One(ready, {"WRITE"}, HW(b, r))
    BY <1>1, <1>3 DEF InFlight
  <1>5. None(Tail(ready), {"WRITE"}) /\ writes = <<>>
    BY <1>0, <1>1, <1>3, <1>4, TakeOne DEF InFlight
  <1>6. /\ ready' = Tail(ready) /\ writes' = writes
        /\ send_buffer' = send_buffer \/ send_buffer' = <<>>
    BY <1>0 DEF do_close, Released
  <1>7. InFlight(<<>>)'
    BY <1>2, <1>5, <1>6 DEF InFlight, None
  <1>8. /\ Len(r) \in Nat /\ Len(send_buffer) \in Nat /\ accepted \in Nat /\ Len(<<>>) = 0
        /\ snapshot \in [Threads -> Seq(Nat)] /\ Senders \subseteq Threads
    BY LenProperties DEF TypeOK, Threads
  <1>9. \A a, b2 \in Nat : l + Len(r) + a <= accepted /\ (b2 = a \/ b2 = 0)
                             => l + Len(<<>>) + b2 <= accepted
    BY <1>3, <1>8
  <1>10. l + Len(<<>>) + Len(send_buffer') <= accepted
    <2>1. l + Len(r) + Len(send_buffer) <= accepted
      BY <1>3 DEF Placed
    <2>2. Len(send_buffer') = Len(send_buffer) \/ Len(send_buffer') = 0
      BY <1>6
    <2> QED BY <1>8, <1>9, <2>1, <2>2
  <1>11. ASSUME NEW t \in Senders, pc[t] = "pushing"
         PROVE  l + Len(<<>>) + Len(snapshot[t]) <= accepted
    <2>1. l + Len(r) + Len(snapshot[t]) <= accepted
      BY <1>3, <1>11 DEF Placed
    <2>2. Len(snapshot[t]) \in Nat
      BY <1>8, LenProperties
    <2> QED BY <1>9, <2>1, <2>2
  <1>12. Follows(l, <<>>, wire)
    BY <1>3 DEF Placed, Follows
  <1>13. Placed(l, <<>>, wire, send_buffer)'
    BY <1>0, <1>2, <1>10, <1>11, <1>12 DEF Placed, appVars, Follows
  <1> QED BY <1>0, <1>3, <1>7, <1>13, EmptySeq DEF Flow

LEMMA FlowStep ==
    ASSUME TypeOK, TypeOK', TlsType, ReleaseInv, Used, Chain, Unsent, Buffers, Flow,
           Moves, UNCHANGED usage
    PROVE  Flow'
  <1> SUFFICES ASSUME closes' = 0, usage # "sync", connection' PROVE Flow'
    BY DEF Flow
  <1>0. closes = 0 /\ ~Asks /\ connection /\ UNCHANGED reconn_flag
    BY NotAsked, Steady
  <1>1. ready \in Seq(Handler)
    BY DEF TypeOK
  <1>2. ASSUME NEW k, Running(k), k # "WRITE" PROVE Keeps(ready, Tail(ready), {"WRITE"})
    BY <1>1, <1>2, KeepsTail DEF Running
  <1>3. ASSUME Keeps(ready, ready', {"WRITE"}), UNCHANGED <<appVars, bufVars, writes, wire>>
        PROVE  Flow'
    BY <1>0, <1>3, QuietFlow DEF appVars, bufVars
  <1>4. ASSUME NEW k, Running(k), k # "WRITE", CloseSock(Tail(ready), writes),
               UNCHANGED <<appVars, bufVars, wire>>
        PROVE  Flow'
    BY <1>0, <1>4, AbortFlow DEF CloseSock
  <1>5. ASSUME NEW k, Running(k), k # "WRITE", NEW r, do_close(Tail(ready), r),
               UNCHANGED <<appVars, is_writting, wire>>,
               cache_buffer' = cache_buffer \/ cache_buffer' = <<>>
        PROVE  Flow'
    <2>1. /\ ready' = Tail(ready) /\ writes' = writes
          /\ send_buffer' = send_buffer \/ (send_buffer' = <<>> /\ reconn_flag)
      BY <1>0, <1>5 DEF do_close, Released, need_reconnect
    <2>2. Keeps(ready, ready', {"WRITE"})
      BY <1>2, <1>5, <2>1
    <2> QED BY <1>0, <1>5, <2>1, <2>2, QuietFlow DEF appVars
  <1>a. ASSUME NEW k \in {"INIT", "CONNECT"}, ComesUp(k) PROVE Flow'
    <2>0. UNCHANGED <<appVars, bufVars, wire>> /\ Running(k)
      BY <1>a DEF ComesUp
    <2>1. CASE ready' = Tail(ready) /\ UNCHANGED writes
      BY <1>2, <1>3, <2>0, <2>1
    <2>2. CASE CloseSock(Tail(ready), writes)
      BY <1>4, <2>0, <2>2
    <2> QED BY <1>a, <2>1, <2>2 DEF ComesUp, init_read, opVars
  <1>b. CASE OnShake
    <2>0. UNCHANGED <<appVars, bufVars, wire>> /\ Running("SHAKE")
      BY <1>b DEF OnShake
    <2>1. CASE ready' = Tail(ready) /\ UNCHANGED writes
      BY <1>2, <1>3, <2>0, <2>1
    <2>2. CASE CloseSock(Tail(ready), writes)
      BY <1>4, <2>0, <2>2
    <2> QED BY <1>b, <2>1, <2>2 DEF OnShake, opVars
  <1>c. CASE ShakeReady
    <2>1. PICK b \in BOOLEAN : ready' = Append(ready, H("SHAKE", b))
      BY <1>c DEF ShakeReady
    <2>2. H("SHAKE", b) \in Handler /\ H("SHAKE", b).k \notin {"WRITE"}
      BY EmptySeq DEF H, Handler
    <2>3. Keeps(ready, ready', {"WRITE"})
      BY <1>1, <2>1, <2>2, KeepsAppend
    <2> QED BY <1>c, <1>3, <2>3 DEF ShakeReady, opVars
  <1>d. CASE OnRead
    <2>1. CASE ready' = Tail(ready) /\ UNCHANGED <<bufVars, writes>>
      BY <1>d, <1>2, <1>3, <2>1 DEF OnRead
    <2>2. CASE /\ \E r \in {0, 1} : do_close(Tail(ready), r)
               /\ cache_buffer' = cache_buffer \/ cache_buffer' = <<>>
               /\ UNCHANGED is_writting
      BY <1>d, <1>5, <2>2 DEF OnRead
    <2> QED BY <1>d, <2>1, <2>2 DEF OnRead
  <1>e. CASE OnReadError
    BY <1>e, <1>5 DEF OnReadError
  <1>f. CASE OnWriteError
    BY <1>f, <1>0, WriteErrorFlow
  <1>g. CASE OnSend \/ OnWrite
    BY <1>g, <1>0, WriterFlow
  <1>h. ~OnClose
    <2>1. None(ready, {"CLOSE"})
      BY <1>0 DEF Used
    <2>2. OnClose => ready # <<>> /\ Head(ready).k \in {"CLOSE"}
      BY DEF OnClose, Running
    <2> QED BY <1>1, <2>1, <2>2, NoneTail
  <1>i. CASE OnTimerConnect
    <2>1. /\ ready' = Tail(ready) \o Aborted(reads, writes, connecting) /\ writes' = <<>>
          /\ wire' = <<>> /\ reconn_flag /\ Running("TIMER")
          /\ UNCHANGED <<appVars, bufVars>>
      BY <1>i DEF OnTimerConnect, connect
    <2> QED BY <1>0, <2>1, AbortFlow
  <1>j. CASE OnTimerIdle
    BY <1>j, <1>2, <1>3 DEF OnTimerIdle, opVars
  <1>k. CASE WriteReady
    BY <1>k, <1>0, WriteReadyFlow
  <1>l. CASE (Kernel \/ PeerDown) /\ ~WriteReady
    <2>1. Keeps(ready, ready', {"WRITE"})
      BY <1>l, KernelAppends
    <2> QED BY <1>l, <1>3, <2>1
            DEF Kernel, PeerDown, ReadReady, ConnectReady, TimerReady, opVars
  <1>m. ASSUME NEW t \in Senders, Msend(t) PROVE Flow'
    BY <1>m, <1>0, SenderFlow
  <1> QED BY <1>0, <1>a, <1>b, <1>c, <1>d, <1>e, <1>f, <1>g, <1>h, <1>i, <1>j, <1>k, <1>l, <1>m
          DEF Moves

(* What a step can do to the wire.                                         *)
LEMMA WireMoves ==
    ASSUME TypeOK, TypeOK', TlsType, ReleaseInv, Used, Chain, Buffers, Flow, Moves, UNCHANGED usage,
           closes' = 0, usage # "sync"
    PROVE  \/ wire' = wire
           \/ wire' = <<>> /\ reconn_flag
           \/ (OnSend \/ OnWrite \/ WriteReady) /\ connection /\ tcp_sock # "closed" /\ Goes
  <1>0. closes = 0 /\ ~Asks /\ UNCHANGED reconn_flag
    BY NotAsked, Steady
  <1>1. ~OnClose
    <2>1. None(ready, {"CLOSE"}) /\ ready \in Seq(Handler)
      BY <1>0 DEF Used, TypeOK
    <2>2. OnClose => ready # <<>> /\ Head(ready).k \in {"CLOSE"}
      BY DEF OnClose, Running
    <2> QED BY <2>1, <2>2, NoneTail
  <1>2. CASE OnSend \/ OnWrite
    <2>1. CASE tcp_sock = "closed"
      <3>1. /\ cache_buffer \in Seq(Nat) /\ <<>> \in Seq(Nat) /\ rem \in Seq(Nat)
            /\ Tail(ready) \in Seq(Handler)
        BY <1>2, RunningType, EmptySeq DEF TypeOK, OnSend, OnWrite
      <3>2. ASSUME NEW s \in Seq(Nat), NEW x \in do_async_write(s, Tail(ready)) PROVE x.wire = wire
        <4>1. Swapped(s) \in Seq(Nat)
          BY <3>1, AsyncWriteType
        <4> QED BY <2>1, <3>1, <3>2, <4>1, NothingOnClosedSocket DEF do_async_write
      <3>3. ASSUME NEW x \in StartWrite(rem, Tail(ready)) PROVE x.wire = wire
        BY <2>1, <3>1, <3>3, NothingOnClosedSocket
      <3> QED BY <1>2, <3>1, <3>2, <3>3 DEF OnSend, OnWrite
    <2>2. CASE tcp_sock # "closed"
      <3>1. connection
        BY <2>2 DEF ReleaseInv, ReleasedProperly
      <3>2. Goes \/ UNCHANGED wire
        BY <1>0, <1>2, <3>1, WriterFlow
      <3> QED BY <1>2, <2>2, <3>1, <3>2
    <2> QED BY <2>1, <2>2
  <1>3. CASE WriteReady
    <2>1. tcp_sock # "closed"
      BY <1>3 DEF WriteReady
    <2>2. connection
      BY <2>1 DEF ReleaseInv, ReleasedProperly
    <2> QED BY <1>0, <1>3, <2>1, <2>2, WriteReadyFlow
  <1>4. OnTimerConnect => wire' = <<>> /\ reconn_flag
    BY DEF OnTimerConnect, connect
  <1>5. OnTimerIdle \/ OnRead \/ OnReadError \/ OnWriteError \/ OnShake \/ ShakeReady \/ PeerDown
          => wire' = wire
    BY DEF OnTimerIdle, OnRead, OnReadError, OnWriteError, OnShake, ShakeReady, PeerDown
  <1>6. Kernel /\ ~WriteReady => wire' = wire
    BY DEF Kernel, ReadReady, ConnectReady, TimerReady
  <1>7. ASSUME NEW k, ComesUp(k) PROVE wire' = wire
    BY <1>7 DEF ComesUp
  <1>8. ASSUME NEW t, Msend(t) PROVE wire' = wire
    BY <1>8 DEF Msend, MsendCheck, MsendLock, MsendPush, MsendPost
  <1> QED BY <1>0, <1>1, <1>2, <1>3, <1>4, <1>5, <1>6, <1>7, <1>8 DEF Moves

----------------------------------------------------------------------------
(* The synchronous sender.                                                 *)

Single == \A t, u \in SyncSenders : t = u

LEMMA HasConcat ==
    ASSUME NEW w \in Seq(Nat), NEW v \in Seq(Nat), NEW b \in Nat, Has(w, b)
    PROVE  /\ Has(w \o v, b)
           /\ (\A i \in 1..Len(v) : v[i] = b + i) => Has(w \o v, b + Len(v))
  <1>0. Len(w) \in Nat /\ Len(v) \in Nat
    BY LenProperties
  <1>1. /\ Len(w \o v) = Len(w) + Len(v)
        /\ \A i \in 1..(Len(w) + Len(v)) :
             (w \o v)[i] = IF i <= Len(w) THEN w[i] ELSE v[i - Len(w)]
    BY ConcatNat
  <1>2. ASSUME NEW u \in 1..b PROVE \E j \in 1..Len(w \o v) : (w \o v)[j] = u
    <2>1. PICK j \in 1..Len(w) : w[j] = u
      BY DEF Has
    <2>2. j \in 1..(Len(w) + Len(v)) /\ j <= Len(w)
      BY <1>0
    <2> QED BY <1>1, <2>1, <2>2
  <1>3. ASSUME \A i \in 1..Len(v) : v[i] = b + i, NEW u \in 1..(b + Len(v)), u > b
        PROVE  \E j \in 1..Len(w \o v) : (w \o v)[j] = u
    <2>1. u - b \in 1..Len(v) /\ b + (u - b) = u
      BY <1>0, <1>3
    <2>2. v[u - b] = u
      BY <1>3, <2>1
    <2>3. /\ Len(w) + (u - b) \in 1..(Len(w) + Len(v)) /\ ~(Len(w) + (u - b) <= Len(w))
          /\ (Len(w) + (u - b)) - Len(w) = u - b
      BY <1>0, <2>1
    <2> QED BY <1>1, <2>2, <2>3
  <1>4. \A u \in 1..(b + Len(v)) : u \in 1..b \/ u > b
    BY <1>0
  <1> QED BY <1>2, <1>3, <1>4 DEF Has

LEMMA QuietSync ==
    ASSUME SyncFlow, UNCHANGED <<usage, appVars, wire, torn>>, usage = "sync",
           ~is_writting', writes' = <<>>, cache_buffer' = <<>>, None(ready', {"WRITE"}),
           tcp_sock' # "closed" => tcp_sock # "closed" /\ send_buffer' = send_buffer
    PROVE  SyncFlow'
  BY DEF SyncFlow, appVars, None, Written, Buffered, Has

LEMMA SyncSenderFlow ==
    ASSUME TypeOK, SyncFlow, Single, UNCHANGED usage, usage = "sync",
           NEW t \in SyncSenders, SyncMsend(t)
    PROVE  SyncFlow'
  <1>0. /\ t \in Threads /\ SyncSenders = {t} /\ SyncSenders \subseteq Threads
        /\ pc \in [Threads -> {"idle", "checked", "pushing", "pushed",
                               "appending", "writing", "clearing"}]
        /\ snapshot \in [Threads -> Seq(Nat)] /\ accepted \in Nat
        /\ wire \in Seq(Nat) /\ send_buffer \in Seq(Nat)
    BY DEF TypeOK, Threads, Single
  <1>1. /\ Len(wire) \in Nat /\ Len(send_buffer) \in Nat /\ Len(<<>>) = 0
    BY <1>0, LenProperties
  <1>2. UNCHANGED <<is_writting, writes, cache_buffer, ready, tcp_sock>>
    BY DEF SyncMsend, SyncBegin, SyncAppend, SyncWrite, SyncClear, opVars, bufVars
  <1>3. /\ ~is_writting' /\ writes' = <<>> /\ cache_buffer' = <<>> /\ None(ready', {"WRITE"})
    BY <1>2 DEF SyncFlow, None
  <1> SUFFICES ASSUME tcp_sock # "closed"
               PROVE  /\ IF pc'[t] = "clearing" THEN Written(accepted)'
                         ELSE \E b \in Nat : Buffered(b)' /\ Written(b)'
                      /\ pc'[t] = "appending" => snapshot'[t] = send_buffer'
    BY <1>0, <1>2, <1>3 DEF SyncFlow, None, Written, Buffered
  <1>4. /\ IF pc[t] = "clearing" THEN Written(accepted)
           ELSE \E b \in Nat : Buffered(b) /\ Written(b)
        /\ pc[t] = "appending" => snapshot[t] = send_buffer
    BY <1>0 DEF SyncFlow
  <1>5. ASSUME UNCHANGED <<wire, torn, accepted, send_buffer>>
        PROVE  \A b : (Buffered(b)' <=> Buffered(b)) /\ (Written(b)' <=> Written(b))
    BY <1>5 DEF Buffered, Written, Has
  <1>a. CASE SyncBegin(t)
    <2>1. /\ pc[t] = "idle" /\ pc'[t] = "appending" /\ snapshot'[t] = send_buffer
          /\ UNCHANGED <<wire, torn, accepted, send_buffer>>
      BY <1>0, <1>a DEF SyncBegin, Goto, BeginAppend, bufVars, cfgVars
    <2> QED BY <1>4, <1>5, <2>1
  <1>b. CASE SyncAppend(t)
    <2>1. /\ pc[t] = "appending" /\ pc'[t] = "writing" /\ UNCHANGED <<wire, torn>>
          /\ accepted' = accepted + 1 /\ send_buffer' = Append(snapshot[t], accepted + 1)
      BY <1>0, <1>b DEF SyncAppend, Goto, EndAppend, cfgVars
    <2>2. send_buffer' = Append(send_buffer, accepted + 1)
      BY <1>4, <2>1
    <2>3. /\ Len(send_buffer') = Len(send_buffer) + 1
          /\ \A i \in 1..Len(send_buffer) : send_buffer'[i] = send_buffer[i]
          /\ send_buffer'[Len(send_buffer) + 1] = accepted + 1
      BY <1>0, <2>2, AppendProperties
    <2>4. PICK b \in Nat : Buffered(b) /\ Written(b)
      BY <1>4, <2>1
    <2>5. b + Len(send_buffer) = accepted /\ \A i \in 1..Len(send_buffer) : send_buffer[i] = b + i
      BY <2>4 DEF Buffered
    <2>6. ASSUME NEW i \in 1..Len(send_buffer') PROVE send_buffer'[i] = b + i
      <3>1. CASE i \in 1..Len(send_buffer)
        BY <2>3, <2>5, <3>1
      <3>2. CASE i = Len(send_buffer) + 1
        <4>1. send_buffer'[i] = accepted + 1
          BY <2>3, <3>2
        <4>2. accepted + 1 = b + i
          BY <1>0, <1>1, <2>5, <3>2
        <4> QED BY <4>1, <4>2
      <3>3. i \in 1..Len(send_buffer) \/ i = Len(send_buffer) + 1
        BY <1>1, <2>3
      <3> QED BY <3>1, <3>2, <3>3
    <2>7. b + Len(send_buffer') = accepted'
      <3>1. \A x, y, z \in Nat : x + y = z => x + (y + 1) = z + 1
        OBVIOUS
      <3>2. b + (Len(send_buffer) + 1) = accepted + 1
        BY <1>0, <1>1, <2>5, <3>1, Zenon
      <3> QED BY <2>1, <2>3, <3>2, Zenon
    <2>8. Buffered(b)'
      BY <2>6, <2>7 DEF Buffered
    <2>9. Written(b)'
      BY <2>1, <2>4 DEF Written, Has
    <2> QED BY <2>1, <2>8, <2>9
  <1>c. CASE SyncWrite(t)
    <2>0. pc[t] = "writing" /\ UNCHANGED <<accepted, send_buffer, snapshot>>
      BY <1>c DEF SyncWrite, Goto, bufVars
    <2>1. PICK b \in Nat : Buffered(b) /\ Written(b)
      BY <1>4, <2>0
    <2>2. CASE pc'[t] = "clearing" /\ wire' = wire \o send_buffer /\ torn' = torn
      <3>1. Len(wire') = Len(wire) + Len(send_buffer)
        BY <1>0, <2>2, ConcatNat
      <3>2. Has(wire', accepted)
        BY <1>0, <2>1, <2>2, HasConcat DEF Buffered, Written
      <3>3. Written(accepted)'
        BY <2>0, <2>1, <2>2, <3>1, <3>2 DEF Buffered, Written, Has
      <3> QED BY <2>2, <3>3
    <2>3. CASE pc'[t] = "idle" /\ wire' = wire /\ torn' = torn
      BY <1>4, <1>5, <2>0, <2>3
    <2>4. CASE /\ pc'[t] = "idle" /\ torn' = TRUE
               /\ \E n \in 1..Len(send_buffer) : wire' = wire \o Prefix(send_buffer, n)
      <3>1. PICK n \in 1..Len(send_buffer) : wire' = wire \o Prefix(send_buffer, n)
        BY <2>4
      <3>2. n \in 0..Len(send_buffer)
        BY <1>1
      <3>3. Prefix(send_buffer, n) \in Seq(Nat)
        BY <1>0, <3>2, PrefixRestType
      <3>4. Has(wire', b)
        BY <1>0, <2>1, <3>1, <3>3, HasConcat DEF Written
      <3>5. Written(b)'
        BY <2>4, <3>4, Zenon DEF Written, Has
      <3>6. Buffered(b)'
        BY <2>0, <2>1 DEF Buffered
      <3> QED BY <2>4, <3>5, <3>6
    <2> QED BY <1>0, <1>c, <2>2, <2>3, <2>4 DEF SyncWrite, Goto
  <1>d. CASE SyncClear(t)
    <2>1. /\ pc[t] = "clearing" /\ pc'[t] = "idle" /\ send_buffer' = <<>>
          /\ UNCHANGED <<wire, torn, accepted>>
      BY <1>0, <1>d DEF SyncClear, Goto, cfgVars
    <2>2. Written(accepted)' /\ Buffered(accepted)'
      <3>1. Written(accepted)'
        BY <1>4, <2>1 DEF Written, Has
      <3>2. Buffered(accepted)'
        BY <1>0, <1>1, <2>1 DEF Buffered
      <3> QED BY <3>1, <3>2
    <2>3. \E b \in Nat : Buffered(b)' /\ Written(b)'
      BY <1>0, <2>1, <2>2 DEF Buffered, Written, Has
    <2> QED BY <2>1, <2>3
  <1> QED BY <1>a, <1>b, <1>c, <1>d DEF SyncMsend

LEMMA SyncFlowStep ==
    ASSUME TypeOK, TlsType, ReleaseInv, Used, Used', Chain, SyncFlow, Single, Moves, UNCHANGED usage
    PROVE  SyncFlow'
  <1> SUFFICES ASSUME usage = "sync" PROVE SyncFlow'
    BY DEF SyncFlow
  <1>0. /\ ~reconn_flag /\ closes' = 0 /\ None(ready, {"SEND"}) /\ None(ready, {"CLOSE"})
        /\ ready \in Seq(Handler) /\ writes \in Seq(Seq(Nat))
    BY DEF Used, TypeOK
  <1>1. ~is_writting /\ writes = <<>> /\ cache_buffer = <<>> /\ None(ready, {"WRITE"})
    BY DEF SyncFlow
  <1>2. ASSUME NEW k, Running(k)
        PROVE  /\ Tail(ready) \in Seq(Handler) /\ None(Tail(ready), {"WRITE"})
               /\ k \notin {"SEND", "WRITE", "CLOSE"}
    <2>1. ready # <<>> /\ Head(ready).k = k
      BY <1>2 DEF Running
    <2> QED BY <1>0, <1>1, <1>2, <2>1, RunningType, NoneTail
  <1>3. ASSUME CloseSock(Tail(ready), writes), Tail(ready) \in Seq(Handler), None(Tail(ready), {"WRITE"})
        PROVE  None(ready', {"WRITE"}) /\ writes' = <<>> /\ tcp_sock' = "closed"
    BY <1>0, <1>1, <1>3, AbortNone DEF CloseSock
  <1>4. ASSUME NEW k, Running(k), NEW r \in {0, 1}, do_close(Tail(ready), r),
               UNCHANGED <<appVars, is_writting, wire, torn>>,
               cache_buffer' = cache_buffer \/ cache_buffer' = <<>>
        PROVE  SyncFlow'
    <2>1. None(ready', {"WRITE"})
      BY <1>1, <1>2, <1>4, DoCloseNone
    <2>2. writes' = <<>>
      BY <1>1, <1>4 DEF do_close, CloseSock
    <2>3. tcp_sock' = "closed"
      BY <1>0, <1>4, DoCloseEnds
    <2> QED BY <1>1, <1>4, <2>1, <2>2, <2>3, QuietSync
  <1>5. ~OnSend /\ ~OnWrite /\ ~OnWriteError /\ ~OnClose /\ ~OnTimerConnect /\ ~WriteReady /\ ~Asks
    <2>1. ~Asks
      BY <1>0, NotAsked
    <2> QED BY <1>0, <1>1, <1>2, <2>1
            DEF OnSend, OnWrite, OnWriteError, OnClose, OnTimerConnect, WriteReady
  <1>a. ASSUME NEW k, ComesUp(k) PROVE SyncFlow'
    <2>0. /\ Tail(ready) \in Seq(Handler) /\ None(Tail(ready), {"WRITE"})
          /\ UNCHANGED <<appVars, bufVars, wire, torn>>
      BY <1>a, <1>2 DEF ComesUp, cfgVars
    <2>1. CASE ready' = Tail(ready) /\ UNCHANGED <<writes, tcp_sock>>
      BY <1>1, <2>0, <2>1, QuietSync DEF bufVars
    <2>2. CASE CloseSock(Tail(ready), writes)
      BY <1>1, <1>3, <2>0, <2>2, QuietSync DEF bufVars
    <2> QED BY <1>a, <2>1, <2>2 DEF ComesUp, init_read, opVars
  <1>b. CASE OnRead
    <2>1. CASE ready' = Tail(ready) /\ UNCHANGED <<bufVars, writes, tcp_sock>>
      <3>1. None(ready', {"WRITE"}) /\ UNCHANGED <<appVars, wire, torn>>
        BY <1>b, <1>2, <2>1 DEF OnRead, cfgVars
      <3> QED BY <1>1, <2>1, <3>1, QuietSync DEF bufVars
    <2>2. CASE /\ \E r \in {0, 1} : do_close(Tail(ready), r)
               /\ cache_buffer' = cache_buffer \/ cache_buffer' = <<>>
               /\ UNCHANGED is_writting
      BY <1>b, <1>4, <2>2 DEF OnRead, cfgVars
    <2> QED BY <1>b, <2>1, <2>2 DEF OnRead
  <1>c. CASE OnReadError
    BY <1>c, <1>4 DEF OnReadError, cfgVars
  <1>d. CASE OnTimerIdle
    <2>1. None(ready', {"WRITE"}) /\ UNCHANGED <<appVars, bufVars, opVars, wire, torn>>
      BY <1>d, <1>2 DEF OnTimerIdle, cfgVars
    <2> QED BY <1>1, <2>1, QuietSync DEF bufVars, opVars
  <1>e. CASE Kernel \/ PeerDown
    <2>1. None(ready', {"WRITE"})
      BY <1>1, <1>5, <1>e, KernelAppends DEF Keeps
    <2>2. /\ UNCHANGED <<appVars, bufVars, writes, wire, torn>>
          /\ tcp_sock' # "closed" => tcp_sock # "closed"
      BY <1>5, <1>e DEF Kernel, PeerDown, ReadReady, ConnectReady, TimerReady, opVars, cfgVars
    <2> QED BY <1>1, <2>1, <2>2, QuietSync DEF bufVars
  <1>f. ASSUME NEW t \in SyncSenders, SyncMsend(t) PROVE SyncFlow'
    BY <1>f, SyncSenderFlow
  <1> QED BY <1>5, <1>a, <1>b, <1>c, <1>d, <1>e, <1>f DEF Moves

LEMMA SyncWireMoves ==
    ASSUME TypeOK, Used, Used', SyncFlow, Moves, usage = "sync", UNCHANGED usage
    PROVE  (wire' = wire /\ torn' = torn) \/ \E t \in SyncSenders : SyncWrite(t)
  <1>0. /\ ~reconn_flag /\ None(ready, {"SEND"}) /\ None(ready, {"CLOSE"}) /\ None(ready, {"WRITE"})
        /\ ready \in Seq(Handler) /\ writes = <<>>
    BY DEF Used, SyncFlow, TypeOK
  <1>1. ~OnSend /\ ~OnWrite /\ ~OnClose /\ ~OnTimerConnect /\ ~WriteReady
    <2>1. ASSUME NEW k, Running(k) PROVE k \notin {"SEND", "WRITE", "CLOSE"}
      <3>1. ready # <<>> /\ Head(ready).k = k
        BY <2>1 DEF Running
      <3> QED BY <1>0, <3>1, NoneTail
    <2> QED BY <1>0, <2>1 DEF OnSend, OnWrite, OnClose, OnTimerConnect, WriteReady
  <1>2. OnTimerIdle \/ OnRead \/ OnReadError \/ OnWriteError \/ PeerDown \/ Asks
          => wire' = wire /\ torn' = torn
    BY DEF OnTimerIdle, OnRead, OnReadError, OnWriteError, PeerDown, Asks, cfgVars
  <1>3. Kernel => wire' = wire /\ torn' = torn
    BY <1>1 DEF Kernel, ReadReady, ConnectReady, TimerReady, cfgVars
  <1>4. ASSUME NEW k, ComesUp(k) PROVE wire' = wire /\ torn' = torn
    BY <1>4 DEF ComesUp, cfgVars
  <1>5. ASSUME NEW t \in SyncSenders, SyncMsend(t) PROVE (wire' = wire /\ torn' = torn) \/ SyncWrite(t)
    BY <1>5 DEF SyncMsend, SyncBegin, SyncAppend, SyncClear, cfgVars
  <1> QED BY <1>1, <1>2, <1>3, <1>4, <1>5 DEF Moves

----------------------------------------------------------------------------
(* The wire.                                                               *)

LEMMA OrderForm ==
    ASSUME TypeOK
    PROVE  WireInOrder <=> Increasing(wire) /\ (~reconn_flag => Counted(wire))
  <1>1. DOMAIN wire = 1..Len(wire)
    BY LenProperties DEF TypeOK
  <1> QED BY <1>1 DEF WireInOrder, Increasing, Counted

LEMMA CountedIncreasing ==
    ASSUME NEW w \in Seq(Nat), Counted(w)
    PROVE  Increasing(w)
  <1>1. Len(w) \in Nat
    BY LenProperties
  <1>2. \A i \in 1..Len(w) : i < Len(w) => i + 1 \in 1..Len(w) /\ i < i + 1
    BY <1>1
  <1> QED BY <1>1, <1>2 DEF Counted, Increasing

(* Only a synchronous write tears a stream, and nothing mends it.          *)
LEMMA TornMoves ==
    ASSUME Moves, usage # "sync"
    PROVE  torn' = torn
  <1> USE DEF cfgVars
  <1>1. ASSUME NEW k, ComesUp(k) PROVE torn' = torn
    BY <1>1 DEF ComesUp
  <1>2. OnShake \/ ShakeReady \/ OnRead \/ OnReadError \/ OnSend \/ OnWrite => torn' = torn
    BY DEF OnShake, ShakeReady, OnRead, OnReadError, OnSend, OnWrite
  <1>3. OnWriteError \/ OnClose \/ OnTimerConnect \/ OnTimerIdle \/ Asks => torn' = torn
    BY DEF OnWriteError, OnClose, OnTimerConnect, OnTimerIdle, Asks
  <1>4. Kernel \/ PeerDown => torn' = torn
    BY DEF Kernel, PeerDown, ReadReady, WriteReady, ConnectReady, TimerReady
  <1>5. ASSUME NEW t \in Senders, Msend(t) PROVE torn' = torn
    BY <1>5 DEF Msend, MsendCheck, MsendLock, MsendPush, MsendPost
  <1> QED BY <1>1, <1>2, <1>3, <1>4, <1>5 DEF Moves

LEMMA TornStays ==
    ASSUME TypeOK, Used, Used', SyncFlow, Moves, UNCHANGED usage, ~torn'
    PROVE  ~torn
  <1>1. CASE usage = "sync"
    <2>1. ASSUME NEW t \in SyncSenders, SyncWrite(t) PROVE ~torn
      BY <2>1, Zenon DEF SyncWrite
    <2> QED BY <1>1, <2>1, SyncWireMoves
  <1>2. CASE usage # "sync"
    BY <1>2, TornMoves
  <1> QED BY <1>1, <1>2

LEMMA OrderedStep ==
    ASSUME TypeOK, TypeOK', TlsType, ReleaseInv, Used, Used', Chain, Buffers, Flow, SyncFlow, Ordered,
           Single, Moves, UNCHANGED usage
    PROVE  Ordered'
  <1> SUFFICES ASSUME closes' = 0, ~torn' PROVE WireInOrder'
    BY DEF Ordered
  <1>t. ~torn
    BY TornStays
  <1>0. closes = 0 /\ UNCHANGED reconn_flag /\ wire \in Seq(Nat) /\ wire' \in Seq(Nat)
    BY NotAsked, Steady DEF TypeOK
  <1>1. Increasing(wire) /\ (~reconn_flag => Counted(wire))
    BY <1>0, <1>t, OrderForm DEF Ordered
  <1>2. Increasing(wire') /\ (~reconn_flag => Counted(wire'))
    <2>1. CASE wire' = wire
      BY <1>1, <2>1
    <2>2. CASE wire' = <<>>
      BY <2>2 DEF Increasing, Counted
    <2>3. CASE Goes
      <3>1. PICK l \in Nat, r \in Seq(Nat) : \E n \in 0..Len(r) :
                /\ wire' = wire \o Prefix(r, n) /\ Placed(l, r, wire, send_buffer')
        BY <2>3 DEF Goes
      <3>2. PICK n \in 0..Len(r) : wire' = wire \o Prefix(r, n) /\ Placed(l, r, wire, send_buffer')
        BY <3>1
      <3>3. Follows(l, r, wire) /\ (~reconn_flag => Len(wire) = l)
        BY <3>2 DEF Placed
      <3>4. Advanced(l, r, wire, n, wire')
        BY <1>0, <3>2, <3>3, Advance
      <3> QED BY <1>1, <3>3, <3>4 DEF Advanced
    <2>4. CASE usage = "sync" /\ \E t \in SyncSenders : SyncWrite(t)
      <3>1. PICK t \in SyncSenders : SyncWrite(t)
        BY <2>4
      <3>2. CASE wire' = wire \o send_buffer /\ tcp_sock # "closed" /\ pc[t] = "writing"
        <4>1. \A u \in SyncSenders : pc[u] # "clearing"
          BY <3>2 DEF Single
        <4>2. \A i \in 1..Len(send_buffer) : send_buffer[i] = Len(wire) + i
          BY <1>t, <2>4, <3>2, <4>1 DEF SyncFlow, Buffered, Written
        <4>3. /\ Len(wire') = Len(wire) + Len(send_buffer)
              /\ \A i \in 1..(Len(wire) + Len(send_buffer)) :
                   wire'[i] = IF i <= Len(wire) THEN wire[i] ELSE send_buffer[i - Len(wire)]
          BY <1>0, <3>2, ConcatNat DEF TypeOK
        <4>4. Len(wire) \in Nat /\ Len(send_buffer) \in Nat
          BY LenProperties DEF TypeOK
        <4>5. Counted(wire)
          BY <1>1, <2>4 DEF Used
        <4>6. ASSUME NEW i \in 1..Len(wire') PROVE wire'[i] = i
          <5>1. i \in 1..(Len(wire) + Len(send_buffer))
            BY <4>3
          <5>2. CASE i <= Len(wire)
            BY <4>3, <4>4, <4>5, <5>1, <5>2 DEF Counted
          <5>3. CASE ~(i <= Len(wire))
            <6>1. i - Len(wire) \in 1..Len(send_buffer) /\ Len(wire) + (i - Len(wire)) = i
              BY <4>4, <5>1, <5>3
            <6>2. send_buffer[i - Len(wire)] = Len(wire) + (i - Len(wire))
              BY <4>2, <6>1
            <6> QED BY <4>3, <5>1, <5>3, <6>1, <6>2
          <5> QED BY <5>2, <5>3
        <4>7. Counted(wire')
          BY <4>6 DEF Counted
        <4> QED BY <1>0, <4>7, CountedIncreasing
      <3>3. CASE wire' = wire
        BY <2>1, <3>3
      <3> QED BY <3>1, <3>2, <3>3 DEF SyncWrite, Goto
    <2>5. CASE usage = "sync"
      BY <2>1, <2>4, <2>5, SyncWireMoves
    <2>6. CASE usage # "sync"
      BY <2>1, <2>2, <2>3, <2>6, WireMoves
    <2> QED BY <2>5, <2>6
  <1>3. WireInOrder' <=> (Increasing(wire') /\ (~reconn_flag' => Counted(wire')))
    <2>1. DOMAIN wire' = 1..Len(wire')
      BY <1>0, LenProperties
    <2> QED BY <2>1 DEF WireInOrder, Increasing, Counted
  <1> QED BY <1>0, <1>2, <1>3

----------------------------------------------------------------------------
(* The invariant.                                                          *)

StreamInv == /\ TypeOK /\ TlsType /\ ReleaseInv /\ Used /\ Chain
             /\ Unsent /\ Shaken /\ Buffers /\ Flow

LEMMA InitChain ==
    ASSUME MCInit
    PROVE  Used /\ Chain
  <1>0. /\ reads = 0 /\ shaking = FALSE /\ phase = "created" /\ connection /\ dataPhase = "up"
        /\ closes = 0
    BY DEF MCInit, Init, TlsInit
  <1>1. \A t \in Threads : pc[t] = "idle"
    BY DEF MCInit, Init
  <1>2. CASE ready = <<H("INIT", TRUE)>> /\ tcp_sock = "connected" /\ connecting = 0
             /\ socket_status = "INIT" /\ ~reconn_flag /\ passive_mode
    <2>1. DOMAIN ready = {1} /\ ready[1] = H("INIT", TRUE) /\ H("INIT", TRUE) \in Handler
      <3>1. H("INIT", TRUE) \in Handler
        BY EmptySeq, HandlerType
      <3>2. DOMAIN ready = {1} /\ ready[1] = H("INIT", TRUE)
        BY <1>2 DEF H
      <3> QED BY <3>1, <3>2
    <2>2. One(ready, Chained, H("INIT", TRUE)) /\ H("INIT", TRUE).k = "INIT"
      BY <2>1 DEF One, Chained, H
    <2>3. Operations = 0
      BY <1>0, <1>2 DEF Operations
    <2>4. Link
      BY <1>0, <2>1, <2>2, <2>3 DEF Link
    <2>5. None(ready, {"CLOSE"}) /\ None(ready, {"SEND"}) /\ None(ready, {"SHAKE"})
      BY <2>1, <2>2 DEF None
    <2>6. Chain
      BY <1>0, <1>2, <2>4 DEF Chain
    <2> QED BY <1>0, <1>1, <1>2, <2>5, <2>6 DEF Used, MCInit, Threads
  <1>3. CASE ready = <<>> /\ tcp_sock = "opening" /\ connecting = 1
             /\ socket_status = "CONNECTING" /\ ~passive_mode
    <2>1. \A K : None(ready, K)
      BY <1>3 DEF None
    <2>2. Operations = 1
      BY <1>0, <1>3 DEF Operations
    <2>3. Link
      BY <1>0, <2>1, <2>2 DEF Link
    <2>4. Chain
      BY <1>0, <1>3, <2>3 DEF Chain
    <2> QED BY <1>0, <1>1, <1>3, <2>1, <2>4 DEF Used, MCInit, Threads
  <1> QED BY <1>2, <1>3 DEF MCInit, Init

LEMMA InitEmpty ==
    ASSUME MCInit
    PROVE  Unsent /\ Shaken /\ Buffers /\ Flow /\ SyncFlow /\ Ordered
  <1>0. /\ ~is_writting /\ writes = <<>> /\ send_buffer = <<>> /\ cache_buffer = <<>>
        /\ wire = <<>> /\ accepted = 0 /\ phase = "created" /\ socket_status # "OPEN"
        /\ \A t \in Threads : pc[t] = "idle"
    BY DEF MCInit, Init
  <1>1. \A t \in Senders : pc[t] = "idle"
    BY <1>0 DEF Threads
  <1>2. \A t \in SyncSenders : pc[t] = "idle"
    BY <1>0 DEF Threads
  <1>3. None(ready, {"WRITE", "SEND"}) /\ None(ready, {"WRITE"})
    <2>1. CASE ready = <<>>
      BY <2>1 DEF None
    <2>2. CASE ready = <<H("INIT", TRUE)>>
      <3>1. DOMAIN ready = {1} /\ ready[1].k = "INIT"
        BY <2>2 DEF H
      <3> QED BY <3>1 DEF None
    <2> QED BY <2>1, <2>2 DEF MCInit, Init
  <1>4. NoSends
    BY <1>0, <1>1, <1>3 DEF NoSends
  <1>5. Len(<<>>) = 0 /\ <<>> \in Seq(Nat) /\ 0 \in Nat
    BY EmptySeq
  <1>6. Last(send_buffer, accepted)
    BY <1>0, <1>5 DEF Last
  <1>7. InFlight(<<>>)
    BY <1>0, <1>3 DEF InFlight
  <1>8. Placed(0, <<>>, wire, send_buffer)
    BY <1>0, <1>1, <1>5 DEF Placed, Follows
  <1>9. Flow
    BY <1>0, <1>5, <1>7, <1>8 DEF Flow
  <1>10. SyncFlow
    <2>1. Buffered(0) /\ Written(0)
      BY <1>0, <1>5 DEF Buffered, Written, Has
    <2> QED BY <1>0, <1>2, <1>3, <1>5, <2>1 DEF SyncFlow
  <1>11. Ordered
    BY <1>0 DEF Ordered, WireInOrder
  <1> QED BY <1>0, <1>1, <1>4, <1>6, <1>9, <1>10, <1>11 DEF Unsent, Shaken, Buffers

LEMMA InitInv == MCInit => StreamInv
  <1> SUFFICES ASSUME MCInit PROVE StreamInv
    OBVIOUS
  <1>1. TypeOK /\ ReleaseInv /\ TlsType
    BY InitType, InitRelease DEF MCInit, TlsInit, TlsType
  <1> QED BY <1>1, InitChain, InitEmpty DEF StreamInv

LEMMA StepInv == StreamInv /\ [MCNext]_mcvars => StreamInv'
  <1> SUFFICES ASSUME StreamInv, [MCNext]_mcvars PROVE StreamInv'
    OBVIOUS
  <1>0. TypeOK /\ TlsType /\ ReleaseInv /\ Used /\ Chain /\ Unsent /\ Shaken /\ Buffers /\ Flow
    BY DEF StreamInv
  <1>1. CASE MCNext
    <2>1. Moves /\ UNCHANGED usage /\ Used'
      BY <1>0, <1>1, Cases, UsedStep DEF MCNext
    <2>2. TypeOK' /\ TlsType' /\ ReleaseInv'
      BY <1>0, <2>1, MoveType, MoveRelease
    <2>3. Chain' /\ Unsent' /\ Shaken'
      BY <1>0, <2>1, ChainStep, UnsentStep, ShakenStep
    <2>4. Buffers' /\ Flow'
      BY <1>0, <2>1, <2>2, BuffersStep, FlowStep
    <2> QED BY <2>1, <2>2, <2>3, <2>4 DEF StreamInv
  <1>2. CASE UNCHANGED mcvars
    <2> USE DEF mcvars, vars, tlsVars, appVars, opVars, bufVars, lifeVars, cfgVars
    <2>1. TypeOK' /\ TlsType' /\ ReleaseInv'
      <3>1. TypeOK'
        BY <1>0, <1>2 DEF TypeOK
      <3>2. ReleaseInv'
        BY <1>0, <1>2, QuietRelease
      <3> QED BY <1>0, <1>2, <3>1, <3>2 DEF TlsType
    <2>2. Used' /\ Chain'
      BY <1>0, <1>2 DEF Used, Chain, Link, Operations, None, One
    <2>3. Unsent' /\ Shaken' /\ Buffers'
      BY <1>0, <1>2 DEF Unsent, Shaken, NoSends, None, Buffers, Last
    <2>4. Flow'
      <3>1. \A r : InFlight(r)' <=> InFlight(r)
        BY <1>2 DEF InFlight, None, One
      <3>2. \A l, r : Placed(l, r, wire, send_buffer)' <=> Placed(l, r, wire, send_buffer)
        BY <1>2 DEF Placed, Follows
      <3> QED BY <1>0, <1>2, <3>1, <3>2, Zenon DEF Flow
    <2> QED BY <2>1, <2>2, <2>3, <2>4 DEF StreamInv
  <1> QED BY <1>1, <1>2

LEMMA StreamInvariant == MCSpec => []StreamInv
  BY InitInv, StepInv, PTL DEF MCSpec

----------------------------------------------------------------------------
(* How many handlers of a kind wait.                                       *)

LEMMA CountNone ==
    ASSUME NEW k, NEW K, k \in K, None(ready, K)
    PROVE  Queued(k) = {} /\ Cardinality(Queued(k)) = 0
  <1>1. Queued(k) = {}
    BY DEF Queued, None
  <1> QED BY <1>1, FS_EmptySet

LEMMA CountOne ==
    ASSUME NEW K, NEW h, One(ready, K, h)
    PROVE  /\ \E i \in DOMAIN ready : Queued(h.k) = {i} /\ ready[i] = h
           /\ Cardinality(Queued(h.k)) = 1
  <1>1. PICK i \in DOMAIN ready : ready[i] = h /\ \A j \in DOMAIN ready : ready[j].k \in K => j = i
    BY DEF One
  <1>2. h.k \in K
    BY DEF One
  <1>3. Queued(h.k) = {i}
    BY <1>1, <1>2 DEF Queued
  <1>4. Cardinality({i}) = 1
    BY FS_Singleton
  <1> QED BY <1>1, <1>3, <1>4

LEMMA CountRead ==
    ASSUME StreamInv, ~reconn_flag, phase = "up"
    PROVE  ~shaking /\ reads + Cardinality(Queued("READ")) = 1
  <1>0. /\ connection /\ reads \in Nat /\ connecting \in Nat /\ shaking \in BOOLEAN
    BY DEF StreamInv, ReleaseInv, ReleasedProperly, TypeOK, TlsType
  <1>1. Link
    BY <1>0 DEF StreamInv, Chain
  <1>2. CASE Operations = 0 /\ \E h \in Handler :
                 One(ready, Chained, h) /\ phase = IF h.k = "READ" THEN "up" ELSE "created"
    <2>1. PICK h \in Handler :
                 One(ready, Chained, h) /\ phase = IF h.k = "READ" THEN "up" ELSE "created"
      BY <1>2
    <2>2. h.k = "READ"
      BY <2>1
    <2>3. Cardinality(Queued("READ")) = 1
      BY <2>1, <2>2, CountOne
    <2>4. reads = 0 /\ ~shaking
      BY <1>0, <1>2 DEF Operations
    <2> QED BY <2>3, <2>4
  <1>3. CASE Operations = 1 /\ None(ready, Chained) /\ phase = IF reads = 1 THEN "up" ELSE "created"
    <2>1. reads = 1
      BY <1>3
    <2>2. ~shaking
      BY <1>0, <1>3, <2>1 DEF Operations
    <2>3. Cardinality(Queued("READ")) = 0
      BY <1>3, CountNone DEF Chained
    <2> QED BY <2>1, <2>2, <2>3
  <1> QED BY <1>1, <1>2, <1>3 DEF Link

(* A connection that is up and will not be opened again has exactly one    *)
(* read outstanding, so that it sees its peer close, and handle_data is    *)
(* never called after EVT_DISCONNECT.  Over TLS nothing is announced or    *)
(* written before a handshake has succeeded.                               *)
THEOREM OpenIsRead == MCSpec => []UpIsRead
  <1>1. StreamInv => UpIsRead
    <2> SUFFICES ASSUME StreamInv PROVE UpIsRead
      OBVIOUS
    <2>1. OneReader
      <3> SUFFICES ASSUME socket_status = "OPEN", ~reconn_flag
                   PROVE  reads + Cardinality(Queued("READ")) = 1
        BY DEF OneReader
      <3>1. phase = "up"
        BY DEF StreamInv, Chain
      <3> QED BY <3>1, CountRead
    <2>2. ~reconn_flag => DataOnlyWhileUp
      BY DEF StreamInv, Chain, DataOnlyWhileUp
    <2>3. usage = "tls" => (phase = "up" \/ wire # <<>> => ssl_shakehand)
      BY DEF StreamInv, Shaken, NoSends
    <2>4. phase = "up" /\ ~reconn_flag => ~shaking /\ reads + Cardinality(Queued("READ")) = 1
      BY CountRead
    <2> QED BY <2>1, <2>2, <2>3, <2>4 DEF UpIsRead
  <1> QED BY <1>1, StreamInvariant, PTL

----------------------------------------------------------------------------
(* Nothing is stranded.                                                    *)

LEMMA MoveAttended ==
    ASSUME TypeOK, Attended, Moves, usage # "sync"
    PROVE  Attended'
  <1> USE DEF appVars, bufVars, lifeVars
  <1>0. ready \in Seq(Handler) /\ <<>> \in Seq(Nat)
    BY EmptySeq DEF TypeOK
  <1>1. ASSUME NEW k, Running(k) PROVE Tail(ready) \in Seq(Handler)
    BY <1>1, RunningType
  <1>2. ASSUME NEW k, Running(k), k # "SEND", CloseSock(Tail(ready), writes), HasSend(ready)
        PROVE  HasSend(ready')
    BY <1>1, <1>2, HasSendTail, CloseSockAttended
  <1>a. ASSUME NEW k \in {"INIT", "CONNECT"}, ComesUp(k) PROVE Attended'
    <2>1. Running(k) /\ k # "SEND" /\ UNCHANGED <<send_buffer, is_writting, pc, connection>>
      BY <1>a DEF ComesUp, init_read
    <2>2. HasSend(ready) => HasSend(ready')
      BY <1>2, <1>a, <2>1, HasSendTail DEF ComesUp, init_read
    <2> QED BY <2>1, <2>2, QuietAttended
  <1>b. CASE OnShake
    <2>1. Running("SHAKE") /\ UNCHANGED <<send_buffer, is_writting, pc, connection>>
      BY <1>b DEF OnShake
    <2>2. HasSend(ready) => HasSend(ready')
      BY <1>2, <1>b, <2>1, HasSendTail DEF OnShake
    <2> QED BY <2>1, <2>2, QuietAttended
  <1>c. CASE ShakeReady
    <2>1. PICK b \in BOOLEAN : ready' = Append(ready, H("SHAKE", b))
      BY <1>c DEF ShakeReady
    <2>2. H("SHAKE", b) \in Handler
      BY <1>0 DEF H, Handler
    <2>3. HasSend(ready) => HasSend(ready')
      BY <1>0, <2>1, <2>2, HasSendAppend
    <2> QED BY <1>c, <2>3, QuietAttended DEF ShakeReady
  <1>d. CASE Asks
    <2>1. H("CLOSE", TRUE) \in Handler
      BY <1>0, HandlerType
    <2>2. HasSend(ready) => HasSend(ready')
      BY <1>0, <1>d, <2>1, HasSendAppend DEF Asks
    <2> QED BY <1>d, <2>2, QuietAttended DEF Asks
  <1>e. CASE OnRead \/ OnReadError \/ OnSend \/ OnWrite \/ OnWriteError \/ OnClose
             \/ OnTimerConnect \/ OnTimerIdle
    BY <1>e, WorkerAttended DEF Worker
  <1>f. CASE Kernel \/ PeerDown
    BY <1>f, KernelAttended
  <1> QED BY <1>a, <1>b, <1>c, <1>d, <1>e, <1>f, SendersAttended DEF Moves

(* Without reconnect is_writting means that a write is outstanding.        *)
Busy(w, q) == w # <<>> \/ Holds(q, "WRITE")
Writing == usage # "sync" /\ ~reconn_flag /\ connection /\ is_writting => Busy(writes, ready)

LEMMA StartBusy ==
    ASSUME TypeOK, NEW s \in Seq(Nat), NEW q \in Seq(Handler), NEW x \in StartWrite(s, q)
    PROVE  Busy(x.writes, x.q)
  <1>1. HW(FALSE, s) \in Handler /\ HW(FALSE, s).k = "WRITE"
    BY HandlerType DEF HW
  <1>2. ASSUME NEW n \in 1..Len(s)
        PROVE  HW(TRUE, Rest(s, n)) \in Handler /\ HW(TRUE, Rest(s, n)).k = "WRITE"
    <2>1. n \in 0..Len(s)
      BY LenProperties
    <2> QED BY <2>1, PrefixRestType, HandlerType DEF HW
  <1>3. \/ x = Result(0, s, Append(writes, s), q)
        \/ x = Result(0, s, writes, Append(q, HW(FALSE, s)))
        \/ \E n \in 1..Len(s) : x = Result(n, s, writes, Append(q, HW(TRUE, Rest(s, n))))
    BY DEF StartWrite
  <1>4. CASE x = Result(0, s, Append(writes, s), q)
    <2>1. x.writes = Append(writes, s) /\ writes \in Seq(Seq(Nat))
      BY <1>4 DEF Result, TypeOK
    <2>2. Append(writes, s) # <<>>
      BY <2>1, AppendProperties
    <2> QED BY <2>1, <2>2 DEF Busy
  <1>5. CASE x = Result(0, s, writes, Append(q, HW(FALSE, s)))
    <2>1. x.q = Append(q, HW(FALSE, s))
      BY <1>5 DEF Result
    <2> QED BY <1>1, <2>1, HoldsAppend DEF Busy
  <1>6. ASSUME NEW n \in 1..Len(s), x = Result(n, s, writes, Append(q, HW(TRUE, Rest(s, n))))
        PROVE  Busy(x.writes, x.q)
    <2>1. x.q = Append(q, HW(TRUE, Rest(s, n)))
      BY <1>6 DEF Result
    <2> QED BY <1>2, <2>1, HoldsAppend DEF Busy
  <1> QED BY <1>3, <1>4, <1>5, <1>6

LEMMA TakeBusy ==
    ASSUME TypeOK, NEW cache \in Seq(Nat), NEW q \in Seq(Handler), TakeSendBuffer(cache),
           NEW x \in do_async_write(cache, q), is_writting'
    PROVE  Busy(x.writes, x.q)
  <1>1. Swapped(cache) # <<>>
    BY DEF TakeSendBuffer
  <1>2. x \in StartWrite(Swapped(cache), q) /\ Swapped(cache) \in Seq(Nat)
    BY <1>1, AsyncWriteType DEF do_async_write
  <1> QED BY <1>2, StartBusy

LEMMA QuietWriting ==
    ASSUME Writing, UNCHANGED <<usage, reconn_flag, is_writting>>, connection' => connection,
           Busy(writes, ready) => Busy(writes', ready')
    PROVE  Writing'
  BY DEF Writing, Busy, Holds

(* A connection that is not open has nothing outstanding.                  *)
LEMMA IdleWriting ==
    ASSUME Unsent, usage # "sync", ~reconn_flag, connection => socket_status # "OPEN",
           UNCHANGED is_writting, connection' => connection
    PROVE  Writing'
  BY DEF Unsent, NoSends, Writing

LEMMA DoCloseWriting ==
    ASSUME TypeOK, ReleaseInv, Used, Chain, Unsent, usage # "sync", ~reconn_flag,
           NEW q, NEW r \in {0, 1}, do_close(q, r), UNCHANGED is_writting
    PROVE  Writing'
  <1>1. CASE ~connection'
    BY <1>1 DEF Writing
  <1>2. CASE socket_status \in {"CLOSING", "CLOSED"} /\ UNCHANGED lifeVars
    BY <1>2, IdleWriting DEF lifeVars
  <1> QED BY <1>1, <1>2, DoCloseEnds

LEMMA WritingStep ==
    ASSUME TypeOK, TlsType, ReleaseInv, Used, Chain, Unsent, Writing, Moves, UNCHANGED usage
    PROVE  Writing'
  <1>0. /\ UNCHANGED reconn_flag /\ (connection' => connection)
        /\ ready \in Seq(Handler) /\ <<>> \in Seq(Nat)
    BY Steady, EmptySeq DEF TypeOK
  <1> SUFFICES ASSUME usage # "sync", ~reconn_flag PROVE Writing'
    BY <1>0 DEF Writing
  <1>1. ASSUME NEW k, Running(k) PROVE Tail(ready) \in Seq(Handler)
    BY <1>1, RunningType
  <1>2. ASSUME NEW k, Running(k), k # "WRITE", Busy(writes, ready) PROVE Busy(writes, Tail(ready))
    BY <1>2, HoldsTail DEF Busy
  <1>3. ASSUME NEW h \in Handler PROVE Busy(writes, ready) => Busy(writes, Append(ready, h))
    BY <1>0, HoldsAppend DEF Busy
  <1>a. ASSUME NEW k \in {"INIT", "CONNECT"}, ComesUp(k) PROVE Writing'
    <2>1. Running(k) /\ UNCHANGED is_writting /\ k \in Chained
      BY <1>a DEF ComesUp, bufVars, Chained
    <2>2. connection => socket_status # "OPEN"
      <3> SUFFICES ASSUME connection, socket_status = "OPEN" PROVE FALSE
        OBVIOUS
      <3>1. phase = "up"
        BY DEF Chain
      <3>2. Link
        <4>1. ready # <<>> /\ Head(ready).k \in Chained
          BY <2>1 DEF Running
        <4>2. ~None(ready, Chained)
          BY <1>0, <4>1, NoneTail
        <4> QED BY <4>2 DEF Chain
      <3>3. phase # "up"
        BY <2>1, <3>2, LinkCases
      <3> QED BY <3>1, <3>3
    <2> QED BY <1>0, <2>1, <2>2, IdleWriting
  <1>b. CASE OnShake
    <2>1. Running("SHAKE") /\ UNCHANGED is_writting
      BY <1>b DEF OnShake, bufVars
    <2>2. CASE ready' = Tail(ready) /\ UNCHANGED writes
      BY <1>0, <1>2, <2>1, <2>2, QuietWriting
    <2>3. CASE CloseSock(Tail(ready), writes)
      <3>1. connection => socket_status # "OPEN"
        <4> SUFFICES ASSUME connection, socket_status = "OPEN" PROVE FALSE
          OBVIOUS
        <4>1. phase = "up"
          BY DEF Chain
        <4>2. ready # <<>> /\ Head(ready).k \in Chained /\ "SHAKE" \in Chained
          BY <2>1 DEF Running, Chained
        <4>3. ~None(ready, Chained)
          BY <1>0, <4>2, NoneTail
        <4>4. Link
          BY <4>3 DEF Chain
        <4>5. phase # "up"
          BY <2>1, <4>2, <4>4, LinkCases
        <4> QED BY <4>1, <4>5
      <3> QED BY <1>0, <2>1, <3>1, IdleWriting
    <2> QED BY <1>b, <2>2, <2>3 DEF OnShake, opVars
  <1>c. CASE ShakeReady
    <2>1. PICK b \in BOOLEAN : ready' = Append(ready, H("SHAKE", b))
      BY <1>c DEF ShakeReady
    <2>2. H("SHAKE", b) \in Handler
      BY <1>0 DEF H, Handler
    <2>3. UNCHANGED <<writes, is_writting>>
      BY <1>c DEF ShakeReady, opVars, bufVars
    <2> QED BY <1>0, <1>3, <2>1, <2>2, <2>3, QuietWriting
  <1>d. CASE Asks
    <2>1. H("CLOSE", TRUE) \in Handler
      BY <1>0, HandlerType
    <2>2. UNCHANGED <<writes, is_writting>> /\ (ready' = ready \/ ready' = Append(ready, H("CLOSE", TRUE)))
      BY <1>d DEF Asks, opVars, bufVars
    <2> QED BY <1>0, <1>3, <2>1, <2>2, QuietWriting
  <1>e. CASE OnRead
    <2>1. CASE ready' = Tail(ready) /\ UNCHANGED <<bufVars, writes>>
      BY <1>0, <1>2, <1>e, <2>1, QuietWriting DEF OnRead, bufVars
    <2>2. CASE (\E r \in {0, 1} : do_close(Tail(ready), r)) /\ UNCHANGED is_writting
      BY <2>2, DoCloseWriting
    <2> QED BY <1>e, <2>1, <2>2 DEF OnRead
  <1>f. CASE OnReadError \/ OnWriteError
    BY <1>f, DoCloseWriting DEF OnReadError, OnWriteError
  <1>g. CASE OnSend
    <2>1. CASE is_writting
      <3>1. Running("SEND") /\ ready' = Tail(ready) /\ UNCHANGED <<is_writting, writes>>
        BY <1>g, <2>1 DEF OnSend, bufVars
      <3> QED BY <1>0, <1>2, <3>1, QuietWriting
    <2>2. CASE ~is_writting
      <3>1. cache_buffer \in Seq(Nat) /\ Tail(ready) \in Seq(Handler)
        BY <1>1, <1>g DEF OnSend, TypeOK
      <3>2. TakeSendBuffer(cache_buffer)
        BY <1>g, <2>2 DEF OnSend
      <3>3. PICK x \in do_async_write(cache_buffer, Tail(ready)) : writes' = x.writes /\ ready' = x.q
        BY <1>g, <2>2 DEF OnSend
      <3>4. is_writting' => Busy(x.writes, x.q)
        BY <3>1, <3>2, TakeBusy
      <3> QED BY <3>3, <3>4 DEF Writing, Busy, Holds
    <2> QED BY <2>1, <2>2
  <1>h. CASE OnWrite
    <2>0. Tail(ready) \in Seq(Handler) /\ rem \in Seq(Nat)
      BY <1>h, RunningType DEF OnWrite
    <2>1. CASE rem # <<>>
      <3>1. PICK x \in StartWrite(rem, Tail(ready)) : writes' = x.writes /\ ready' = x.q
        BY <1>h, <2>1 DEF OnWrite
      <3>2. Busy(x.writes, x.q)
        BY <2>0, StartBusy
      <3> QED BY <3>1, <3>2 DEF Writing, Busy, Holds
    <2>2. CASE rem = <<>>
      <3>1. TakeSendBuffer(<<>>)
        BY <1>h, <2>2 DEF OnWrite
      <3>2. PICK x \in do_async_write(<<>>, Tail(ready)) : writes' = x.writes /\ ready' = x.q
        BY <1>h, <2>2 DEF OnWrite
      <3>3. is_writting' => Busy(x.writes, x.q)
        BY <1>0, <2>0, <3>1, TakeBusy
      <3> QED BY <3>2, <3>3 DEF Writing, Busy, Holds
    <2> QED BY <2>1, <2>2
  <1>i. CASE OnClose
    <2>1. ~connection'
      BY <1>0, <1>i DEF OnClose, need_reconnect, Released
    <2> QED BY <2>1 DEF Writing
  <1>j. CASE OnTimerConnect \/ OnTimerIdle
    <2>1. Running("TIMER") /\ ready' = Tail(ready) /\ UNCHANGED <<is_writting, writes>>
      BY <1>j DEF OnTimerConnect, OnTimerIdle, bufVars, opVars
    <2> QED BY <1>0, <1>2, <2>1, QuietWriting
  <1>k. CASE Kernel \/ PeerDown
    <2>0. UNCHANGED is_writting
      BY <1>k DEF Kernel, PeerDown, ReadReady, WriteReady, ConnectReady, TimerReady, bufVars
    <2>1. CASE WriteReady
      <3>1. writes # <<>> /\ writes \in Seq(Seq(Nat))
        BY <2>1 DEF WriteReady, TypeOK
      <3>2. Head(writes) \in Seq(Nat)
        BY <3>1, HeadTailProperties
      <3>3. HW(FALSE, Head(writes)) \in Handler /\ HW(FALSE, Head(writes)).k = "WRITE"
        BY <3>2, HandlerType DEF HW
      <3>4. ASSUME NEW n \in 1..Len(Head(writes))
            PROVE  /\ HW(TRUE, Rest(Head(writes), n)) \in Handler
                   /\ HW(TRUE, Rest(Head(writes), n)).k = "WRITE"
        <4>1. n \in 0..Len(Head(writes))
          BY <3>2, LenProperties
        <4> QED BY <3>2, <4>1, PrefixRestType, HandlerType DEF HW
      <3>5. PICK h \in Handler : h.k = "WRITE" /\ ready' = Append(ready, h)
        BY <2>1, <3>3, <3>4 DEF WriteReady
      <3>6. Holds(ready', "WRITE")
        BY <1>0, <3>5, HoldsAppend
      <3> QED BY <3>6 DEF Writing, Busy
    <2>2. CASE ~WriteReady
      <3>1. UNCHANGED writes
        BY <1>k, <2>2 DEF Kernel, PeerDown, ReadReady, ConnectReady, TimerReady, opVars
      <3>2. \A b \in BOOLEAN : /\ H("READ", b) \in Handler /\ H("CONNECT", b) \in Handler
                               /\ H("TIMER", b) \in Handler
        BY <1>0, HandlerType
      <3>3. ready' = ready \/ \E h \in Handler : ready' = Append(ready, h)
        <4>1. ReadReady => \E h \in Handler : ready' = Append(ready, h)
          BY <3>2 DEF ReadReady
        <4>2. ConnectReady => \E h \in Handler : ready' = Append(ready, h)
          BY <3>2 DEF ConnectReady
        <4>3. TimerReady => \E h \in Handler : ready' = Append(ready, h)
          BY <3>2 DEF TimerReady
        <4> QED BY <1>k, <2>2, <4>1, <4>2, <4>3 DEF Kernel, PeerDown
      <3> QED BY <1>0, <1>3, <2>0, <3>1, <3>3, QuietWriting
    <2> QED BY <2>1, <2>2
  <1>l. ASSUME NEW t \in Senders, Msend(t) PROVE Writing'
    <2>1. H("SEND", TRUE) \in Handler
      BY <1>0, HandlerType
    <2>2. /\ UNCHANGED <<is_writting, writes>>
          /\ ready' = ready \/ ready' = Append(ready, H("SEND", TRUE))
      BY <1>l DEF Msend, MsendCheck, MsendLock, MsendPush, MsendPost, bufVars, opVars
    <2> QED BY <1>0, <1>3, <2>1, <2>2, QuietWriting
  <1> QED BY <1>a, <1>b, <1>c, <1>d, <1>e, <1>f, <1>g, <1>h, <1>i, <1>j, <1>k, <1>l DEF Moves

(* In every usage with asynchronous senders, over TLS and with a user who  *)
(* closes included, and without reconnect: a unit in send_buffer has an    *)
(* outstanding write, a posted do_send() or a sender about to post one.    *)
THEOREM NothingIsStranded == MCSpec => []NothingStranded
  <1> DEFINE Kept == (usage # "sync" => Attended) /\ Writing
  <1>1. MCInit => Kept
    BY DEF MCInit, Init, Attended, Writing
  <1>2. StreamInv /\ Kept /\ [MCNext]_mcvars => Kept'
    <2> SUFFICES ASSUME StreamInv, Kept, [MCNext]_mcvars PROVE Kept'
      OBVIOUS
    <2>1. CASE MCNext
      <3>1. TypeOK /\ Moves /\ UNCHANGED usage
        BY <2>1, Cases DEF StreamInv, MCNext
      <3>2. Writing'
        BY <3>1, WritingStep DEF StreamInv
      <3> QED BY <3>1, <3>2, MoveAttended
    <2>2. CASE UNCHANGED mcvars
      <3> USE <2>2 DEF mcvars, vars, appVars, opVars, bufVars, lifeVars, cfgVars
      <3>1. usage' # "sync" => Attended'
        BY DEF Attended, HasSend, Holds
      <3>2. Writing'
        BY DEF Writing, Busy, Holds
      <3> QED BY <3>1, <3>2
    <2> QED BY <2>1, <2>2
  <1>3. Kept => NothingStranded
    <2>1. Holds(ready, "WRITE") => Queued("WRITE") # {}
      BY DEF Holds, Queued
    <2>2. HasSend(ready) => Queued("SEND") # {}
      BY DEF HasSend, Holds, Queued
    <2> QED BY <2>1, <2>2 DEF NothingStranded, NoStrandedData, Attended, Writing, Busy
  <1> HIDE DEF Kept
  <1> QED BY <1>1, <1>2, <1>3, StreamInvariant, PTL DEF MCSpec

----------------------------------------------------------------------------
(* The stream.                                                             *)

LEMMA InflightIs ==
    ASSUME TypeOK, NEW r \in Seq(Nat), InFlight(r), ~reconn_flag
    PROVE  /\ Inflight = r
           /\ Len(writes) + Cardinality(Queued("WRITE")) = IF is_writting THEN 1 ELSE 0
  <1>0. Len(<<>>) = 0 /\ "WRITE" \in {"WRITE"}
    OBVIOUS
  <1>1. CASE r = <<>> /\ writes = <<>> /\ None(ready, {"WRITE"}) /\ ~is_writting
    <2>1. Queued("WRITE") = {} /\ Cardinality(Queued("WRITE")) = 0
      BY <1>0, <1>1, CountNone
    <2> QED BY <1>0, <1>1, <2>1 DEF Inflight
  <1>2. CASE is_writting /\ writes = <<r>> /\ None(ready, {"WRITE"})
    <2>1. Cardinality(Queued("WRITE")) = 0
      BY <1>0, <1>2, CountNone
    <2>2. writes # <<>> /\ Head(writes) = r /\ Len(writes) = 1
      BY <1>2
    <2> QED BY <1>2, <2>1, <2>2 DEF Inflight
  <1>3. CASE is_writting /\ writes = <<>> /\ \E b \in BOOLEAN : One(ready, {"WRITE"}, HW(b, r))
    <2>1. PICK b \in BOOLEAN : One(ready, {"WRITE"}, HW(b, r))
      BY <1>3
    <2>2. HW(b, r).k = "WRITE" /\ HW(b, r).rem = r
      BY DEF HW
    <2>3. /\ \E i \in DOMAIN ready : Queued("WRITE") = {i} /\ ready[i] = HW(b, r)
          /\ Cardinality(Queued("WRITE")) = 1
      BY <2>1, <2>2, CountOne
    <2>4. PICK i \in DOMAIN ready : Queued("WRITE") = {i} /\ ready[i] = HW(b, r)
      BY <2>3
    <2>5. (CHOOSE j \in Queued("WRITE") : TRUE) = i
      BY <2>4
    <2>6. Inflight = r
      BY <1>3, <2>2, <2>4, <2>5 DEF Inflight
    <2> QED BY <1>0, <1>3, <2>3, <2>6
  <1> QED BY <1>1, <1>2, <1>3 DEF InFlight

LEMMA JoinCounted ==
    ASSUME NEW w \in Seq(Nat), NEW r \in Seq(Nat), NEW s \in Seq(Nat), NEW n \in Nat,
           Counted(w), \A i \in 1..Len(r) : r[i] = Len(w) + i, Last(s, n),
           Len(w) + Len(r) + Len(s) = n
    PROVE  w \o r \o s = [i \in 1..n |-> i]
  <1>0. Len(w) \in Nat /\ Len(r) \in Nat /\ Len(s) \in Nat
    BY LenProperties
  <1> DEFINE v == w \o r
             u == v \o s
  <1>1. /\ v \in Seq(Nat) /\ Len(v) = Len(w) + Len(r)
        /\ \A i \in 1..(Len(w) + Len(r)) : v[i] = IF i <= Len(w) THEN w[i] ELSE r[i - Len(w)]
    BY ConcatProperties
  <1> HIDE DEF v
  <1>2. Counted(v)
    <2>1. ASSUME NEW i \in 1..Len(v) PROVE v[i] = i
      <3>0. i \in 1..(Len(w) + Len(r))
        BY <1>1
      <3>1. CASE i <= Len(w)
        <4>1. i \in 1..Len(w)
          BY <1>0, <3>0, <3>1
        <4> QED BY <1>1, <3>0, <3>1, <4>1 DEF Counted
      <3>2. CASE ~(i <= Len(w))
        <4>1. i - Len(w) \in 1..Len(r) /\ Len(w) + (i - Len(w)) = i
          BY <1>0, <3>0, <3>2
        <4>2. r[i - Len(w)] = Len(w) + (i - Len(w))
          BY <4>1
        <4> QED BY <1>1, <3>0, <3>2, <4>1, <4>2
      <3> QED BY <3>1, <3>2
    <2> QED BY <2>1 DEF Counted
  <1>3. /\ u \in Seq(Nat) /\ Len(u) = Len(v) + Len(s)
        /\ \A i \in 1..(Len(v) + Len(s)) : u[i] = IF i <= Len(v) THEN v[i] ELSE s[i - Len(v)]
    <2>1. v \in Seq(Nat)
      BY <1>1
    <2> QED BY <2>1, ConcatNat DEF u
  <1>4. Len(v) + Len(s) = n /\ Len(v) \in Nat
    BY <1>0, <1>1
  <1>5. \A i \in 1..Len(s) : s[i] = Len(v) + i
    <2>1. ASSUME NEW i \in 1..Len(s) PROVE s[i] = Len(v) + i
      <3>1. s[i] \in Nat /\ s[i] + Len(s) = n + i
        BY DEF Last
      <3> DEFINE a == s[i]
                 b == Len(s)
                 e == Len(v)
      <3>2. a \in Nat /\ b \in Nat /\ e \in Nat /\ i \in Nat /\ a + b = n + i /\ e + b = n
        BY <1>0, <1>4, <3>1
      <3> HIDE DEF a, b, e
      <3>3. a = e + i
        BY <3>2
      <3> QED BY <3>3 DEF a, e
    <2> QED BY <2>1
  <1> HIDE DEF u
  <1>6. ASSUME NEW i \in 1..n PROVE u[i] = i
    <2>0. i \in 1..(Len(v) + Len(s))
      BY <1>4
    <2>1. CASE i <= Len(v)
      <3>1. i \in 1..Len(v)
        BY <1>4, <2>0, <2>1
      <3> QED BY <1>2, <1>3, <2>0, <2>1, <3>1 DEF Counted
    <2>2. CASE ~(i <= Len(v))
      <3>1. i - Len(v) \in 1..Len(s) /\ Len(v) + (i - Len(v)) = i
        BY <1>0, <1>4, <2>0, <2>2
      <3>2. s[i - Len(v)] = Len(v) + (i - Len(v))
        BY <1>5, <3>1
      <3> QED BY <1>3, <2>0, <2>2, <3>1, <3>2
    <2> QED BY <2>1, <2>2
  <1>7. u = [i \in 1..n |-> i]
    <2>1. u = [i \in 1..n |-> u[i]]
      BY <1>3, <1>4
    <2> QED BY <1>6, <2>1
  <1> QED BY <1>7 DEF u, v

LEMMA StreamIsKept ==
    ASSUME StreamInv, Ordered, ~torn, usage = "stream"
    PROVE  OneWriter /\ StreamIntact
  <1>0. ~reconn_flag /\ closes = 0 /\ TypeOK
    BY DEF StreamInv, Used
  <1> SUFFICES ASSUME connection
               PROVE  /\ Len(writes) + Cardinality(Queued("WRITE")) = IF is_writting THEN 1 ELSE 0
                      /\ wire \o Inflight \o send_buffer = [i \in 1..accepted |-> i]
    BY DEF OneWriter, StreamIntact
  <1>1. PICK l \in Nat, r \in Seq(Nat) : InFlight(r) /\ Placed(l, r, wire, send_buffer)
    BY <1>0 DEF StreamInv, Flow
  <1>2. /\ Inflight = r
        /\ Len(writes) + Cardinality(Queued("WRITE")) = IF is_writting THEN 1 ELSE 0
    BY <1>0, <1>1, InflightIs
  <1>3. /\ Len(wire) = l /\ l + Len(r) + Len(send_buffer) = accepted
        /\ \A i \in 1..Len(r) : r[i] = l + i
    BY <1>0, <1>1 DEF Placed, Follows
  <1>4. Last(send_buffer, accepted)
    BY <1>0 DEF StreamInv, Buffers
  <1>5. Counted(wire)
    BY <1>0, OrderForm DEF Ordered
  <1>6. wire \in Seq(Nat) /\ send_buffer \in Seq(Nat) /\ accepted \in Nat
    BY <1>0 DEF TypeOK
  <1>7. wire \o r \o send_buffer = [i \in 1..accepted |-> i]
    <2>1. /\ \A i \in 1..Len(r) : r[i] = Len(wire) + i
          /\ Len(wire) + Len(r) + Len(send_buffer) = accepted
      BY <1>3
    <2> QED BY <1>1, <1>4, <1>5, <1>6, <2>1, JoinCounted
  <1> QED BY <1>2, <1>7

LEMMA SyncIsKept ==
    ASSUME StreamInv, SyncFlow, usage = "sync"
    PROVE  NothingLost
  <1>0. ~reconn_flag /\ closes = 0 /\ TypeOK /\ accepted \in Nat
    BY DEF StreamInv, Used, TypeOK
  <1> SUFFICES ASSUME socket_status = "OPEN", NEW i \in 1..accepted
               PROVE  i \in Units(wire) \/ i \in Units(send_buffer)
    BY DEF NothingLost
  <1>1. tcp_sock # "closed"
    BY <1>0 DEF StreamInv, Chain
  <1>3. /\ DOMAIN wire = 1..Len(wire) /\ DOMAIN send_buffer = 1..Len(send_buffer)
        /\ Len(wire) \in Nat /\ Len(send_buffer) \in Nat
    BY <1>0, LenProperties DEF TypeOK
  <1>4. \A b \in Nat : i <= b /\ Written(b) => i \in Units(wire)
    <2> SUFFICES ASSUME NEW b \in Nat, i <= b, Written(b) PROVE i \in Units(wire)
      OBVIOUS
    <2>1. i \in 1..b
      BY <1>0
    <2>2. PICK j \in 1..Len(wire) : wire[j] = i
      BY <2>1 DEF Written, Has
    <2> QED BY <1>3, <2>2 DEF Units
  <1>5. CASE \E t \in SyncSenders : pc[t] = "clearing"
    <2>1. Written(accepted) /\ i <= accepted
      BY <1>0, <1>1, <1>5 DEF SyncFlow
    <2> QED BY <1>0, <1>4, <2>1
  <1>6. CASE ~\E t \in SyncSenders : pc[t] = "clearing"
    <2>1. PICK b \in Nat : Buffered(b) /\ Written(b)
      BY <1>1, <1>6 DEF SyncFlow
    <2>2. CASE i <= b
      BY <1>4, <2>1, <2>2
    <2>3. CASE ~(i <= b)
      <3>1. i - b \in 1..Len(send_buffer) /\ b + (i - b) = i
        BY <1>0, <1>3, <2>1, <2>3 DEF Buffered
      <3>2. send_buffer[i - b] = i
        BY <2>1, <3>1 DEF Buffered
      <3> QED BY <1>3, <3>1, <3>2 DEF Units
    <2> QED BY <2>2, <2>3
  <1> QED BY <1>5, <1>6

(* Without close() and reconnect the wire, the write in progress and       *)
(* send_buffer hold together all accepted units in order, and is_writting  *)
(* says whether a write is outstanding; one synchronous sender loses       *)
(* nothing while its connection is open; and no socket's wire repeats a    *)
(* unit or puts one before an earlier one until the user calls close() or  *)
(* a synchronous write fails half-way.                                     *)
THEOREM StreamIsFaithful == Single /\ MCSpec => []StreamKept
  <1> SUFFICES ASSUME Single PROVE MCSpec => []StreamKept
    OBVIOUS
  <1> DEFINE More == SyncFlow /\ Ordered /\ (usage # "sync" => ~torn)
  <1>1. MCInit => More
    BY InitEmpty DEF MCInit, Init
  <1>2. StreamInv /\ StreamInv' /\ More /\ [MCNext]_mcvars => More'
    <2> SUFFICES ASSUME StreamInv, StreamInv', More, [MCNext]_mcvars PROVE More'
      OBVIOUS
    <2>1. CASE MCNext
      <3>1. /\ TypeOK /\ TlsType /\ ReleaseInv /\ Used /\ Chain /\ Buffers /\ Flow
            /\ TypeOK' /\ Used'
        BY DEF StreamInv
      <3>2. Moves /\ UNCHANGED usage
        BY <2>1, <3>1, Cases DEF MCNext
      <3>3. usage' # "sync" => ~torn'
        BY <3>2, TornMoves
      <3> QED BY <3>1, <3>2, <3>3, SyncFlowStep, OrderedStep
    <2>2. CASE UNCHANGED mcvars
      <3> USE <2>2 DEF mcvars, vars, appVars, opVars, bufVars, cfgVars
      <3>1. Ordered'
        BY DEF Ordered, WireInOrder
      <3>2. SyncFlow'
        BY DEF SyncFlow, None, Written, Buffered, Has
      <3>3. usage' # "sync" => ~torn'
        OBVIOUS
      <3> QED BY <3>1, <3>2, <3>3
    <2> QED BY <2>1, <2>2
  <1>3. StreamInv /\ More => StreamKept
    BY StreamIsKept, SyncIsKept DEF StreamKept, Ordered
  <1> HIDE DEF More
  <1> QED BY <1>1, <1>2, <1>3, StreamInvariant, PTL DEF MCSpec

----------------------------------------------------------------------------
(* The abstract connection.                                                *)

(* The units accepted and those a sender is about to append stay within    *)
(* the bound.                                                              *)
Bounded == usage = "stream" => accepted + Cardinality(Begun) <= MaxUnits

LEMMA SendsOnly ==
    ASSUME TypeOK, Moves, usage # "sync"
    PROVE  UNCHANGED <<pc, accepted>> \/ \E t \in Senders : Msend(t)
  <1> USE DEF appVars
  <1>1. ASSUME NEW k, ComesUp(k) PROVE UNCHANGED <<pc, accepted>>
    BY <1>1 DEF ComesUp
  <1>2. OnShake \/ ShakeReady \/ OnRead \/ OnReadError \/ OnSend \/ OnWrite => UNCHANGED <<pc, accepted>>
    BY DEF OnShake, ShakeReady, OnRead, OnReadError, OnSend, OnWrite
  <1>3. OnWriteError \/ OnClose \/ OnTimerConnect \/ OnTimerIdle \/ Kernel \/ PeerDown \/ Asks
          => UNCHANGED <<pc, accepted>>
    BY DEF OnWriteError, OnClose, OnTimerConnect, OnTimerIdle, PeerDown, Asks, Kernel,
           ReadReady, WriteReady, ConnectReady, TimerReady
  <1> QED BY <1>1, <1>2, <1>3 DEF Moves

LEMMA BegunFinite ==
    IsFiniteSet(Begun) /\ Cardinality(Begun) \in Nat
  <1>1. Begun \in SUBSET Threads /\ IsFiniteSet(Threads)
    BY ConstantsAssumption DEF Begun
  <1> QED BY <1>1, FS_Subset, FS_CardinalityType

LEMMA BoundedStep ==
    ASSUME TypeOK, Bounded, Moves, UNCHANGED usage
    PROVE  Bounded'
  <1> SUFFICES ASSUME usage = "stream" PROVE accepted' + Cardinality(Begun') <= MaxUnits
    BY DEF Bounded
  <1>0. /\ accepted \in Nat /\ MaxUnits \in Nat /\ Cardinality(Begun) \in Nat /\ IsFiniteSet(Begun)
        /\ accepted + Cardinality(Begun) <= MaxUnits
        /\ pc \in [Threads -> {"idle", "checked", "pushing", "pushed",
                               "appending", "writing", "clearing"}]
    BY BegunFinite, ConstantsAssumption DEF TypeOK, Bounded
  <1>1. CASE UNCHANGED <<pc, accepted>>
    <2>1. Begun' = Begun
      BY <1>1 DEF Begun
    <2> QED BY <1>0, <1>1, <2>1
  <1>2. ASSUME NEW t \in Senders, Msend(t) PROVE accepted' + Cardinality(Begun') <= MaxUnits
    <2>0. t \in Threads
      BY DEF Threads
    <2>1. CASE MsendCheck(t)
      <3>1. accepted' = accepted /\ accepted + Cardinality(Begun) < MaxUnits /\ t \notin Begun
        BY <2>1 DEF MsendCheck, Goto, Begun
      <3>2. Begun' = Begun \cup {t}
        BY <1>0, <2>0, <2>1 DEF MsendCheck, Goto, Begun
      <3>3. Cardinality(Begun') = Cardinality(Begun) + 1
        BY <1>0, <3>1, <3>2, FS_AddElement
      <3> QED BY <1>0, <3>1, <3>3
    <2>2. CASE MsendLock(t)
      <3>1. accepted' = accepted /\ Begun' = Begun
        BY <1>0, <2>0, <2>2 DEF MsendLock, Goto, Begun
      <3> QED BY <1>0, <3>1
    <2>3. CASE MsendPush(t)
      <3>1. accepted' = accepted + 1 /\ t \in Begun
        BY <2>0, <2>3 DEF MsendPush, Goto, EndAppend, Begun
      <3>2. Begun' = Begun \ {t}
        BY <1>0, <2>0, <2>3 DEF MsendPush, Goto, Begun
      <3>3. Cardinality(Begun') = Cardinality(Begun) - 1
        BY <1>0, <3>1, <3>2, FS_RemoveElement
      <3> QED BY <1>0, <3>1, <3>3
    <2>4. CASE MsendPost(t)
      <3>1. accepted' = accepted /\ Begun' = Begun
        BY <1>0, <2>0, <2>4 DEF MsendPost, Goto, Begun
      <3> QED BY <1>0, <3>1
    <2> QED BY <1>2, <2>1, <2>2, <2>3, <2>4 DEF Msend
  <1> QED BY <1>1, <1>2, SendsOnly

(* Before it is up, a connection has taken no unit and lets none go.       *)
LEMMA CreatedIsQuiet ==
    ASSUME StreamInv, usage = "stream", phase = "created"
    PROVE  socket_status # "OPEN" /\ NoSends
  <1>1. ~reconn_flag /\ connection
    BY DEF StreamInv, Used, ReleaseInv, ReleasedProperly
  <1>2. socket_status # "OPEN"
    BY <1>1 DEF StreamInv, Chain
  <1> QED BY <1>1, <1>2 DEF StreamInv, Unsent

LEMMA PhaseMoves ==
    ASSUME StreamInv, StreamInv', Moves, usage = "stream", UNCHANGED usage
    PROVE  \/ phase' = phase
           \/ phase = "created" /\ phase' = "up"
           \/ phase \in {"created", "up"} /\ phase' = "released"
  <1>0. /\ ~reconn_flag /\ ~reconn_flag' /\ (connection' => connection)
        /\ connection <=> phase # "released"
        /\ connection' <=> phase' # "released"
    BY Steady DEF StreamInv, Used, ReleaseInv, ReleasedProperly
  <1>1. connection => phase \in {"created", "up"}
    BY <1>0 DEF StreamInv, Chain, Link
  <1>2. connection' => phase' \in {"created", "up"}
    BY <1>0 DEF StreamInv, Chain, Link
  <1>3. connection /\ connection' /\ phase = "up" => phase' = "up"
    <2> SUFFICES ASSUME connection, connection', phase = "up" PROVE phase' = "up"
      OBVIOUS
    <2>1. socket_status = "OPEN"
      BY <1>0 DEF StreamInv, Chain
    <2>2. socket_status' = "OPEN"
      BY <1>0, <2>1, StaysOpen DEF StreamInv
    <2> QED BY <1>0, <2>2 DEF StreamInv, Chain
  <1> QED BY <1>0, <1>1, <1>2, <1>3

LEMMA TransmitStep ==
    ASSUME StreamInv, StreamInv', Moves, usage = "stream", UNCHANGED usage, wire' # wire
    PROVE  Promise!Transmit
  <1>0. /\ ~reconn_flag /\ closes' = 0 /\ dataPhase = "up" /\ dataPhase' = "up" /\ TypeOK /\ Used
        /\ connection <=> phase # "released"
    BY Steady DEF StreamInv, Used, Chain, ReleaseInv, ReleasedProperly
  <1>1. (OnSend \/ OnWrite \/ WriteReady) /\ connection /\ Goes
    BY <1>0, WireMoves DEF StreamInv
  <1>2. UNCHANGED <<phase, accepted>>
    BY <1>1 DEF OnSend, OnWrite, WriteReady, lifeVars, appVars
  <1>3. phase = "up"
    <2>1. phase # "created"
      <3> SUFFICES ASSUME phase = "created" PROVE FALSE
        OBVIOUS
      <3>1. NoSends /\ NoSends'
        BY <1>0, CreatedIsQuiet, NoSendsStays
      <3> QED BY <3>1 DEF NoSends
    <2> QED BY <1>0, <1>1, <2>1 DEF StreamInv, Chain, Link
  <1>4. PICK l \in Nat, r \in Seq(Nat) : \E n \in 0..Len(r) :
            wire' = wire \o Prefix(r, n) /\ Placed(l, r, wire, send_buffer')
    BY <1>1 DEF Goes
  <1>5. PICK n \in 0..Len(r) : wire' = wire \o Prefix(r, n) /\ Placed(l, r, wire, send_buffer')
    BY <1>4
  <1>6. /\ Len(wire) = l /\ Follows(l, r, wire) /\ l + Len(r) + Len(send_buffer') <= accepted
    BY <1>0, <1>5 DEF Placed
  <1>7. /\ wire \in Seq(Nat) /\ wire' \in Seq(Nat) /\ accepted \in Nat /\ Len(r) \in Nat /\ n \in Nat
        /\ send_buffer' \in Seq(Nat) /\ Len(send_buffer') \in Nat
    BY LenProperties DEF StreamInv, TypeOK
  <1>8. Advanced(l, r, wire, n, wire')
    BY <1>5, <1>6, <1>7, Advance
  <1>9. /\ Len(wire') = l + n
        /\ \A i \in 1..(l + n) : wire'[i] = IF i <= Len(wire) THEN wire[i] ELSE l + (i - l)
    BY <1>6, <1>8 DEF Advanced
  <1>10. \A i \in 1..(l + n) : l + (i - l) = i
    BY <1>7
  <1>11. wire' = [i \in 1..(l + n) |-> IF i <= Len(wire) THEN wire[i] ELSE i]
    <2>1. wire' = [i \in 1..(l + n) |-> wire'[i]]
      BY <1>7, <1>9
    <2>2. \A i \in 1..(l + n) : wire'[i] = IF i <= Len(wire) THEN wire[i] ELSE i
      BY <1>9, <1>10
    <2> QED BY <2>1, <2>2
  <1>12. n # 0
    <2> SUFFICES ASSUME n = 0 PROVE FALSE
      OBVIOUS
    <2>1. Prefix(r, n) = <<>>
      BY SubSeqEmpty DEF Prefix
    <2> QED BY <1>5, <1>7, <2>1, ConcatEmptySeq
  <1>13. l + n \in (Len(wire) + 1)..accepted
    <2>1. \A b \in Nat : l + Len(r) + b <= accepted => l + n <= accepted
      BY <1>7
    <2>2. l + n <= accepted
      BY <1>6, <1>7, <2>1
    <2> QED BY <1>6, <1>7, <1>12, <2>2
  <1> QED BY <1>0, <1>2, <1>3, <1>11, <1>13 DEF Promise!Transmit

LEMMA AcceptStep ==
    ASSUME StreamInv, StreamInv', Bounded, usage = "stream", NEW t \in Senders, MsendPush(t)
    PROVE  Promise!Accept
  <1>1. UNCHANGED <<phase, wire, dataPhase>> /\ accepted' = accepted + 1 /\ pc[t] = "pushing"
    BY DEF MsendPush, EndAppend, Goto, lifeVars
  <1>2. phase # "created"
    BY <1>1, CreatedIsQuiet DEF NoSends
  <1>3. accepted < MaxUnits
    <2>1. t \in Begun
      BY <1>1 DEF Begun, Threads
    <2>2. Cardinality(Begun) # 0
      BY <2>1, BegunFinite, FS_EmptySet
    <2>3. /\ accepted \in Nat /\ MaxUnits \in Nat /\ Cardinality(Begun) \in Nat
          /\ accepted + Cardinality(Begun) <= MaxUnits
      BY BegunFinite, ConstantsAssumption DEF Bounded, StreamInv, TypeOK
    <2>4. \A a, b, c \in Nat : a + b <= c /\ b # 0 => a < c
      OBVIOUS
    <2> QED BY <2>2, <2>3, <2>4, Zenon
  <1> QED BY <1>1, <1>2, <1>3 DEF Promise!Accept

LEMMA PromiseStep ==
    ASSUME StreamInv, StreamInv', Bounded, MCNext, usage = "stream"
    PROVE  Promise!Next \/ UNCHANGED Promise!vars
  <1>1. Moves /\ UNCHANGED usage /\ TypeOK
    BY Cases DEF StreamInv, MCNext
  <1>2. dataPhase' = dataPhase
    BY <1>1, Steady DEF StreamInv, Used, Chain
  <1>3. CASE wire' # wire
    BY <1>1, <1>3, TransmitStep DEF Promise!Next
  <1>4. CASE accepted' # accepted
    <2>1. PICK t \in Senders : Msend(t)
      BY <1>1, <1>4, SendsOnly
    <2>2. MsendPush(t)
      BY <1>4, <2>1 DEF Msend, MsendCheck, MsendLock, MsendPost
    <2> QED BY <2>2, AcceptStep DEF Promise!Next
  <1>5. CASE wire' = wire /\ accepted' = accepted
    <2>1. \/ phase' = phase
          \/ phase = "created" /\ phase' = "up"
          \/ phase \in {"created", "up"} /\ phase' = "released"
      BY <1>1, PhaseMoves
    <2> QED BY <1>2, <1>5, <2>1 DEF Promise!Next, Promise!Connect, Promise!Release, Promise!vars
  <1> QED BY <1>3, <1>4, <1>5

(* Two or more senders and a connection that nobody closes locally and     *)
(* that is not opened again implement the abstract connection: it comes up *)
(* once and ends once, data is handed over only in between, and the peer   *)
(* is given the accepted units in order, without gap or repetition, and    *)
(* only while the connection is up.                                        *)
THEOREM ImplementsConnection == MCSpec => ImplementsConnectionSpec
  <1>1. MCInit => Bounded /\ Promise!Init
    <2> SUFFICES ASSUME MCInit PROVE Bounded /\ Promise!Init
      OBVIOUS
    <2>1. Promise!Init
      BY DEF MCInit, Init, Promise!Init
    <2>2. Begun = {} /\ accepted = 0
      BY DEF MCInit, Init, Begun
    <2>3. Bounded
      BY <2>2, FS_EmptySet, ConstantsAssumption DEF Bounded
    <2> QED BY <2>1, <2>3
  <1>2. StreamInv /\ Bounded /\ [MCNext]_mcvars => Bounded'
    <2> SUFFICES ASSUME StreamInv, Bounded, [MCNext]_mcvars PROVE Bounded'
      OBVIOUS
    <2>1. CASE MCNext
      <3>1. TypeOK /\ Moves /\ UNCHANGED usage
        BY <2>1, Cases DEF StreamInv, MCNext
      <3> QED BY <3>1, BoundedStep
    <2>2. CASE UNCHANGED mcvars
      BY <2>2 DEF mcvars, vars, appVars, Bounded, Begun
    <2> QED BY <2>1, <2>2
  <1>3. StreamInv /\ StreamInv' /\ Bounded /\ [MCNext]_mcvars
            => [usage = "stream" => Promise!Next]_(Promise!vars)
    <2>1. UNCHANGED mcvars => UNCHANGED Promise!vars
      BY DEF mcvars, vars, appVars, lifeVars, Promise!vars
    <2> QED BY <2>1, PromiseStep
  <1> QED BY <1>1, <1>2, <1>3, StreamInvariant, PTL DEF MCSpec, ImplementsConnectionSpec
=============================================================================
