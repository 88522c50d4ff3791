-------------------------------- MODULE Ikcp --------------------------------
(***************************************************************************)
(* The KCP protocol of ikcp.c: two control blocks that exchange datagrams  *)
(* over a network which loses, duplicates and reorders them.               *)
(*                                                                         *)
(* A control block is the record kcp[p]; the ikcp_ functions are operators *)
(* from a block to a block, and the public calls are the actions.  Time is *)
(* abstract: which segments are due for resending (resendts reached, or    *)
(* enough fastacks) and whether the probe timer ran out is chosen at each  *)
(* flush, so rx_rto, ts and ts_probe are left out, as are cwnd, ssthresh   *)
(* and incr, which nocwnd = 1 (kcp_connection.hpp) disconnects.  stream is *)
(* 0, the only value knet uses.                                            *)
(***************************************************************************)
EXTENDS Integers, Sequences, FiniteSets, SequencesExt, FiniteSetsExt

CONSTANTS
  A, B,        \* the two ends
  Word,        \* sequence numbers are taken modulo Word (2^32 in the code)
  FrgMod,      \* frg is sent as one byte (2^8 in the code)
  WndMod,      \* wnd is sent as two bytes (2^16 in the code)
  SndWnd,      \* snd_wnd
  RcvWnd,      \* rcv_wnd, and IKCP_WND_RCV, its least value
  DatagramSegs, \* how many segments fit in one mtu
  RecvBuf,     \* the buffer knet gives ikcp_recv (4096 bytes), in multiples of mss
  Sizes,       \* sizes of the messages users send, in multiples of mss
  Start,       \* sequence numbers at which a quiet connection may stand
  MaxMsgs,     \* bound: messages sent by each end, [{A, B} -> Nat]
  MaxFaults,   \* bound: datagrams lost or duplicated
  NetCap,      \* bound: an end with so many datagrams under way waits
  AckCap       \* bound: acks that wait for a flush

Peer == {A, B}
Other(p) == CHOOSE q \in Peer : q # p

ASSUME IkcpAssumption ==
  /\ A # B
  /\ {Word, FrgMod, WndMod, RcvWnd, DatagramSegs} \subseteq Nat \ {0}
  /\ {SndWnd, RecvBuf, MaxFaults, NetCap, AckCap} \subseteq Nat
  /\ RcvWnd < WndMod /\ RcvWnd <= FrgMod
  /\ Start \subseteq 0..(Word - 1) /\ Sizes \subseteq Nat
  /\ MaxMsgs \in [Peer -> Nat]

\* The network may hold a datagram back for as long as the session lasts, and
\* ikcp.c has nothing but sn to tell an old segment from a new one: while it
\* does, no more than half the sequence numbers are used.  (With Word = 2^32
\* an end sends 2^31 fragments, less a window.)
ASSUME SessionAssumption == \A p \in Peer : 2 * RcvWnd * (MaxMsgs[p] + 1) <= Word

VARIABLES
  kcp,       \* [Peer -> control block]
  net,       \* [Peer -> Seq of the datagrams on their way to it, oldest first]
  faults,    \* datagrams lost or duplicated so far
  sent,      \* [Peer -> Seq(Message)], accepted by ikcp_send
  received   \* [Peer -> Seq(Message)], returned by ikcp_recv

vars == <<kcp, net, faults, sent, received>>

\* The i-th message of a peer, of n fragments.
Message == [id : 1..Max({MaxMsgs[p] : p \in Peer}), size : Sizes]

(***************************************************************************)
(* Sequence numbers, and what the codecs keep of a segment.                *)
(***************************************************************************)

\* _itimediff: the difference as a signed word.
Diff(later, earlier) ==
  LET d == (later - earlier) % Word IN IF 2 * d >= Word THEN d - Word ELSE d

Encode(s) == [s EXCEPT !.frg = @ % FrgMod, !.wnd = @ % WndMod, !.sn = @ % Word,
                       !.una = @ % Word]

(***************************************************************************)
(* The queues of a control block k.                                        *)
(***************************************************************************)

\* ikcp_create.
Create(sn) == [snd_una |-> sn, snd_nxt |-> sn, rcv_nxt |-> sn, rmt_wnd |-> RcvWnd,
               snd_queue |-> <<>>, snd_buf |-> <<>>, rcv_buf |-> <<>>,
               rcv_queue |-> <<>>, acklist |-> <<>>, probe |-> {},
               probe_wait |-> FALSE]

\* Mutant: fragments are numbered from 0 up.
FragmentsMutant(m) == [i \in 1..m.size |-> [frg |-> i - 1, data |-> <<m, i>>]]

\* ikcp_send cuts a message into fragments numbered down to 0.
Fragments(m) ==
  LET count == Max({1, m.size})
  IN  [i \in 1..count |-> [frg |-> count - i, data |-> <<m, i>>]]

\* Whether the head message of rcv_queue is complete: ikcp_peeksize is not -1.
Peek(k) == /\ k.rcv_queue # <<>>
           /\ Len(k.rcv_queue) >= Head(k.rcv_queue).frg + 1

\* The length of the head message in fragments: those up to frg = 0.
HeadLen(k) == Min({i \in 1..Len(k.rcv_queue) :
                     k.rcv_queue[i].frg = 0 \/ i = Len(k.rcv_queue)})

HeadMessage(k) == [i \in 1..HeadLen(k) |-> k.rcv_queue[i].data]

\* What is next in sequence moves from rcv_buf to rcv_queue while it has room.
MoveReady(k) ==
  LET n == Max({0} \cup {i \in 1..Len(k.rcv_buf) :
                  /\ Len(k.rcv_queue) + i <= RcvWnd
                  /\ \A j \in 1..i : k.rcv_buf[j].sn = (k.rcv_nxt + j - 1) % Word})
  IN  [k EXCEPT !.rcv_queue = @ \o SubSeq(k.rcv_buf, 1, n),
                !.rcv_buf = SubSeq(@, n + 1, Len(@)),
                !.rcv_nxt = (@ + n) % Word]

\* ikcp_parse_una: everything before una has arrived.
ParseUna(k, una) ==
  LET n == Max({0} \cup {i \in 1..Len(k.snd_buf) :
                  \A j \in 1..i : Diff(una, k.snd_buf[j].sn) > 0})
  IN  [k EXCEPT !.snd_buf = SubSeq(@, n + 1, Len(@))]

\* ikcp_shrink_buf: snd_una is the first segment still waiting for its ack.
ShrinkBuf(k) ==
  [k EXCEPT !.snd_una = IF k.snd_buf = <<>> THEN k.snd_nxt ELSE Head(k.snd_buf).sn]

\* ikcp_parse_ack: the segment sn has arrived.
ParseAck(k, sn) ==
  IF Diff(sn, k.snd_una) < 0 \/ Diff(sn, k.snd_nxt) >= 0 THEN k
  ELSE [k EXCEPT !.snd_buf = RemoveFirstMatch(@, LAMBDA s : s.sn = sn)]

\* ikcp_ack_push; the list grows as it needs to.
AckPush(k, sn) == [k EXCEPT !.acklist = Append(@, sn)]

\* ikcp_parse_data: the segment goes to its place in rcv_buf, once.
ParseData(k, s) ==
  LET below == Max({0} \cup {i \in 1..Len(k.rcv_buf) : Diff(s.sn, k.rcv_buf[i].sn) >= 0})
      repeat == below > 0 /\ k.rcv_buf[below].sn = s.sn
      new == [sn |-> s.sn, frg |-> s.frg, data |-> s.data]
  IN  IF Diff(s.sn, k.rcv_nxt + RcvWnd) >= 0 \/ Diff(s.sn, k.rcv_nxt) < 0 THEN k
      ELSE MoveReady(IF repeat THEN k
                     ELSE [k EXCEPT !.rcv_buf = InsertAt(@, below + 1, new)])

(***************************************************************************)
(* ikcp_input, one segment and then a whole datagram.                      *)
(***************************************************************************)

InputPush(k, s) ==
  IF Diff(s.sn, k.rcv_nxt + RcvWnd) >= 0 THEN k
  ELSE LET acked == AckPush(k, s.sn)
       IN  IF Diff(s.sn, k.rcv_nxt) >= 0 THEN ParseData(acked, s) ELSE acked

InputSegment(k, s) ==
  LET una == ShrinkBuf(ParseUna([k EXCEPT !.rmt_wnd = s.wnd], s.una))
  IN  CASE s.cmd = "ACK"  -> ShrinkBuf(ParseAck(una, s.sn))
        [] s.cmd = "PUSH" -> InputPush(una, s)
        [] s.cmd = "WASK" -> [una EXCEPT !.probe = @ \cup {"tell"}]
        [] s.cmd = "WINS" -> una

\* The loop over the segments of the datagram d.
Input(k, d) ==
  LET after[n \in 0..Len(d)] ==
        IF n = 0 THEN k ELSE InputSegment(after[n - 1], d[n])
  IN  after[Len(d)]

(***************************************************************************)
(* ikcp_flush.                                                             *)
(***************************************************************************)

\* ikcp_wnd_unused.
WndUnused(k) == Max({0, RcvWnd - Len(k.rcv_queue)})

Segment(k, cmd, sn) ==
  Encode([cmd |-> cmd, frg |-> 0, wnd |-> WndUnused(k), sn |-> sn,
          una |-> k.rcv_nxt, data |-> <<>>])

\* Mutant: the peer is never asked.
ProbeMutant(k, due) == [k EXCEPT !.probe_wait = k.rmt_wnd = 0]

\* The probe timer: started when the remote window is 0, and asking when due.
Probe(k, due) ==
  IF k.rmt_wnd # 0 THEN [k EXCEPT !.probe_wait = FALSE]
  ELSE [k EXCEPT !.probe_wait = TRUE,
                 !.probe = IF k.probe_wait /\ due THEN @ \cup {"send"} ELSE @]

\* What the windows let through moves from snd_queue to snd_buf.
Fill(k) ==
  LET room == Min({SndWnd, k.rmt_wnd}) - Diff(k.snd_nxt, k.snd_una)
      n == Max({0, Min({room, Len(k.snd_queue)})})
      new == [i \in 1..n |-> [sn |-> (k.snd_nxt + i - 1) % Word,
                              frg |-> k.snd_queue[i].frg, data |-> k.snd_queue[i].data]]
  IN  [k EXCEPT !.snd_buf = @ \o new, !.snd_nxt = (@ + n) % Word,
                !.snd_queue = SubSeq(@, n + 1, Len(@))]

\* The block after a flush in which the segments `late' are due again.
Flush(k, due) == [Fill(Probe(k, due)) EXCEPT !.acklist = <<>>, !.probe = {}]

\* The segments of snd_buf with the numbers `nums', in its order.
Pushes(k, nums) ==
  LET push(s) == [Segment(k, "PUSH", s.sn) EXCEPT !.frg = s.frg % FrgMod, !.data = s.data]
      upTo[n \in 0..Len(k.snd_buf)] ==
        IF n = 0 THEN <<>>
        ELSE IF k.snd_buf[n].sn \in nums THEN Append(upTo[n - 1], push(k.snd_buf[n]))
        ELSE upTo[n - 1]
  IN  upTo[Len(k.snd_buf)]

Numbers(q) == {q[i].sn : i \in 1..Len(q)}

\* What that flush sends: acks, probes, then new and late data.
Output(k, late, due) ==
  LET asks == Probe(k, due).probe
      full == Fill(k)
      new == Numbers(full.snd_buf) \ Numbers(k.snd_buf)
      lastAck == IF k.acklist = <<>> THEN 0 ELSE Last(k.acklist)
  IN  [i \in 1..Len(k.acklist) |-> Segment(k, "ACK", k.acklist[i])]
      \o (IF "send" \in asks THEN <<Segment(k, "WASK", lastAck)>> ELSE <<>>)
      \o (IF "tell" \in asks THEN <<Segment(k, "WINS", lastAck)>> ELSE <<>>)
      \o Pushes(full, new \cup late)

\* ikcp_output: as many segments in a datagram as the mtu holds.
Datagrams(out) ==
  [i \in 1..((Len(out) + DatagramSegs - 1) \div DatagramSegs) |->
     SubSeq(out, (i - 1) * DatagramSegs + 1, Min({i * DatagramSegs, Len(out)}))]

-----------------------------------------------------------------------------
Init == /\ \E sn \in Start : kcp = [p \in Peer |-> Create(sn)]
        /\ net = [p \in Peer |-> <<>>]
        /\ faults = 0
        /\ sent = [p \in Peer |-> <<>>]
        /\ received = [p \in Peer |-> <<>>]

\* Mutant: the size of a message is not limited.
ikcp_sendMutant(p, m) ==
  /\ Len(sent[p]) < MaxMsgs[p]
  /\ kcp' = [kcp EXCEPT ![p].snd_queue = @ \o Fragments(m)]
  /\ sent' = [sent EXCEPT ![p] = Append(@, m)]
  /\ UNCHANGED <<net, faults, received>>

\* ikcp_send returns -2 for a message that a receive window cannot hold.
ikcp_send(p, m) ==
  /\ Len(sent[p]) < MaxMsgs[p]
  /\ Len(Fragments(m)) < RcvWnd
  /\ kcp' = [kcp EXCEPT ![p].snd_queue = @ \o Fragments(m)]
  /\ sent' = [sent EXCEPT ![p] = Append(@, m)]
  /\ UNCHANGED <<net, faults, received>>

\* ikcp_recv takes the head message, refills the queue and, when it was
\* full, promises the peer word of the new window.  A message that is longer
\* than the reader's buffer stays (-3), and with it all that follow.
ikcp_recv(p) ==
  LET k == kcp[p]
      rest == MoveReady([k EXCEPT !.rcv_queue = SubSeq(@, HeadLen(k) + 1, Len(@))])
      recover == Len(k.rcv_queue) >= RcvWnd /\ Len(rest.rcv_queue) < RcvWnd
  IN  /\ Peek(k)
      /\ HeadLen(k) <= RecvBuf
      /\ kcp' = [kcp EXCEPT ![p] =
                   IF recover THEN [rest EXCEPT !.probe = @ \cup {"tell"}] ELSE rest]
      /\ received' = [received EXCEPT ![p] = Append(@, HeadMessage(k))]
      /\ UNCHANGED <<net, faults, sent>>

\* ikcp_update at a time when a flush is due.
ikcp_update(p, late, due) ==
  /\ Len(net[Other(p)]) < NetCap
  /\ kcp' = [kcp EXCEPT ![p] = Flush(@, due)]
  /\ \E out \in {Output(kcp[p], late, due)} :
       net' = [net EXCEPT ![Other(p)] = @ \o Datagrams(out)]
  /\ UNCHANGED <<faults, sent, received>>

\* The i-th datagram under way arrives; a copy may stay behind.
ikcp_input(p, i, copy) ==
  /\ i \in 1..Len(net[p])
  /\ copy => faults < MaxFaults
  /\ Len(kcp[p].acklist) + Len(net[p][i]) <= AckCap
  /\ kcp' = [kcp EXCEPT ![p] = Input(@, net[p][i])]
  /\ net' = [net EXCEPT ![p] = IF copy THEN @ ELSE RemoveAt(@, i)]
  /\ faults' = IF copy THEN faults + 1 ELSE faults
  /\ UNCHANGED <<sent, received>>

Lose(p, i) ==
  /\ faults < MaxFaults
  /\ net' = [net EXCEPT ![p] = RemoveAt(@, i)]
  /\ faults' = faults + 1
  /\ UNCHANGED <<kcp, sent, received>>

Waiting(p) == Numbers(kcp[p].snd_buf)

Next == \E p \in Peer :
          \/ \E size \in Sizes : ikcp_send(p, [id |-> Len(sent[p]) + 1, size |-> size])
          \/ ikcp_recv(p)
          \/ \E late \in SUBSET Waiting(p), due \in BOOLEAN : ikcp_update(p, late, due)
          \/ \E i \in 1..Len(net[p]) :
               (\E copy \in BOOLEAN : ikcp_input(p, i, copy)) \/ Lose(p, i)

\* knet calls ikcp_update from a timer, so flushes go on and timers run out;
\* the oldest datagram that is not lost arrives.  (Only ikcp_input and Lose
\* shorten net in this way.)  Nobody has to read: KcpConnection calls ikcp_recv
\* when a datagram comes that is no ack, and may leave messages behind.
Arrives(p) == /\ net[p] # <<>>
              /\ Len(kcp[p].acklist) + Len(net[p][1]) <= AckCap
              /\ net' = [net EXCEPT ![p] = Tail(@)]

Fairness ==
  \A p \in Peer : /\ WF_net(Arrives(p))
                  /\ WF_vars(ikcp_update(p, Waiting(p), TRUE))

Spec == Init /\ [][Next]_vars /\ Fairness
-----------------------------------------------------------------------------
\* Every block and every datagram has its shape.
TypeOK ==
  /\ \A p \in Peer :
       /\ {kcp[p].snd_una, kcp[p].snd_nxt, kcp[p].rcv_nxt} \subseteq 0..(Word - 1)
       /\ kcp[p].rmt_wnd \in 0..RcvWnd
       /\ kcp[p].probe \subseteq {"send", "tell"}
       /\ \A i \in 1..Len(net[p]) : Len(net[p][i]) \in 1..DatagramSegs
  /\ faults \in 0..MaxFaults

\* No fragment that ikcp_send accepted ever disappears: those the sender has
\* let go of, by a cumulative or by a selective ack, are with the receiver.
NothingLost ==
  \A p \in Peer :
    LET q == Other(p)
        nums == {Diff(sn, kcp[q].rcv_nxt) : sn \in Numbers(kcp[p].snd_buf)
                                             \cup Numbers(kcp[q].rcv_buf)}
    IN  0..(Diff(kcp[p].snd_nxt, kcp[q].rcv_nxt) - 1) \subseteq nums

\* Whatever arrives, rcv_queue stays within the window and rcv_buf holds
\* distinct segments of the window, in order.
WithinWindow ==
  \A p \in Peer :
    LET k == kcp[p] IN
    /\ Len(k.rcv_queue) <= RcvWnd
    /\ \A i \in 1..Len(k.rcv_buf) :
         /\ Diff(k.rcv_buf[i].sn, k.rcv_nxt) \in 0..(RcvWnd - 1)
         /\ i > 1 => Diff(k.rcv_buf[i].sn, k.rcv_buf[i - 1].sn) > 0

\* A full rcv_queue always holds a whole message, so that a reader whose buffer
\* is large enough can make room: this is what the limit on the size of a
\* message in ikcp_send is for.
NeverWedged == \A p \in Peer : Len(kcp[p].rcv_queue) >= RcvWnd => Peek(kcp[p])

\* The two windows, whatever the network loses, repeats or holds back.
WindowSound == TypeOK /\ NothingLost /\ WithinWindow /\ NeverWedged

\* What ikcp_recv returned, as the messages it was put together from.
Whole(f) == IF f = [i \in 1..Len(f) |-> <<f[1][1], i>>] /\ Len(f) = Max({1, f[1][1].size})
            THEN f[1][1] ELSE [id |-> 0, size |-> 0]

Channel == INSTANCE FifoChannel WITH
  accepted <- sent,
  handed <- [p \in Peer |-> [i \in 1..Len(received[Other(p)]) |->
                              Whole(received[Other(p)][i])]]

\* KCP turns an unreliable network into a reliable channel: messages come out
\* whole, once and in order.
ImplementsChannel == Channel!Spec

\* A message that was accepted and not yet received does not stay under way:
\* in the end it is received, or some whole message lies ready for a reader
\* that has not taken it.  This holds also when the window shuts, the reader
\* makes room and the segment that says so is lost.
AllArrive == \A p \in Peer : \A n \in 1..MaxMsgs[p] :
               (Len(sent[p]) >= n) ~> \/ Len(received[Other(p)]) >= n
                                      \/ Peek(kcp[Other(p)])
=============================================================================
