----------------------------- MODULE IkcpProofs -----------------------------
(***************************************************************************)
(* Proofs about Ikcp, for every value of its constants: the windows stay   *)
(* sound (WindowSound), and the protocol implements a reliable channel     *)
(* (ImplementsChannel), whatever the network loses, repeats or reorders.   *)
(***************************************************************************)
EXTENDS Ikcp, SequenceTheorems, WellFoundedInduction, TLAPS

(***************************************************************************)
(* Induction: every set of naturals has a least element, and from this the *)
(* greatest element of a bounded set, and induction over an interval.      *)
(***************************************************************************)

LEMMA NatLeast ==
  ASSUME NEW T, T \subseteq Nat, T # {}
  PROVE  \E x \in T : \A y \in T : x <= y
<1> DEFINE R == {ss \in Nat \X Nat : ss[1] < ss[2]}
<1>1. IsWellFoundedOn(R, Nat)
  BY NatLessThanWellFounded DEF OpToRel
<1>2. \A x, y \in Nat : y < x => <<y, x>> \in R
  OBVIOUS
<1> HIDE DEF R
<1>3. \E x \in T : \A y \in T : ~(<<y, x>> \in R)
  BY <1>1, WFMin
<1>4. PICK x \in T : \A y \in T : ~(<<y, x>> \in R)
  BY <1>3
<1>5. \A y \in T : x <= y
  <2> TAKE y \in T
  <2>1. x \in Nat /\ y \in Nat
    OBVIOUS
  <2>2. ~ (y < x)
    BY <2>1, <1>2, <1>4
  <2> QED BY <2>1, <2>2
<1> QED BY <1>4, <1>5

LEMMA MinFact ==
  ASSUME NEW S, S \subseteq Nat, S # {}
  PROVE  Min(S) \in S /\ \A y \in S : Min(S) <= y
  BY NatLeast DEF Min

LEMMA MaxFact ==
  ASSUME NEW n \in Nat, NEW S, S \subseteq 0..n, S # {}
  PROVE  Max(S) \in S /\ \A y \in S : y <= Max(S)
<1> DEFINE T == {m \in Nat : n - m \in S}
<1>1. T # {}
  <2>1. PICK y : y \in S OBVIOUS
  <2>2. n - y \in Nat /\ n - (n - y) = y BY <2>1
  <2> QED BY <2>1, <2>2
<1>2. PICK x \in T : \A y \in T : x <= y
  <2>1. T \subseteq Nat OBVIOUS
  <2> HIDE DEF T
  <2> QED BY <2>1, <1>1, NatLeast
<1>3. n - x \in S /\ \A y \in S : y <= n - x
  <2>1. x \in Nat /\ n - x \in S
    OBVIOUS
  <2> SUFFICES ASSUME NEW y \in S PROVE y <= n - x
    BY <2>1
  <2>2. y \in Nat /\ n - y \in Nat /\ n - (n - y) = y
    OBVIOUS
  <2>3. n - y \in T BY <2>2
  <2>4. x <= n - y BY <2>3, <1>2
  <2> QED BY <2>1, <2>2, <2>4
<1>4. \A y \in S : n - x >= y
  BY <1>3
<1> QED BY <1>3, <1>4 DEF Max

LEMMA SetInduction ==
  ASSUME NEW n \in Nat, NEW S, 0 \in S, \A i \in 0..(n - 1) : i \in S => i + 1 \in S
  PROVE  0..n \subseteq S
<1> SUFFICES ASSUME NEW z \in 0..n, z \notin S PROVE FALSE
  OBVIOUS
<1> DEFINE T == {i \in 0..n : i \notin S}
<1>1. z \in T /\ T \subseteq Nat
  OBVIOUS
<1>2. PICK x \in T : \A y \in T : x <= y
  <2> HIDE DEF T
  <2> QED BY <1>1, NatLeast
<1>3. x \in 0..n /\ x # 0 /\ x \notin S
  BY <1>2
<1>4. x - 1 \in 0..(n - 1) /\ x - 1 \in 0..n /\ (x - 1) + 1 = x /\ ~ (x <= x - 1)
  BY <1>3
<1>5. x - 1 \notin S
  BY <1>3, <1>4
<1>6. x - 1 \in T
  BY <1>4, <1>5
<1> QED BY <1>6, <1>2, <1>4

\* The larger and the smaller of two numbers.
LEMMA MaxOfTwo == ASSUME NEW x \in Int, NEW y \in Int
                  PROVE  Max({x, y}) = IF x >= y THEN x ELSE y
<1> DEFINE m == IF x >= y THEN x ELSE y
<1>1. m \in {x, y} /\ \A z \in {x, y} : m >= z
  OBVIOUS
<1>2. \A w \in {x, y} : (\A z \in {x, y} : w >= z) => w = m
  OBVIOUS
<1> HIDE DEF m
<1>3. Max({x, y}) = m
  BY <1>1, <1>2 DEF Max
<1> QED BY <1>3 DEF m

LEMMA MinOfTwo == ASSUME NEW x \in Int, NEW y \in Int
                  PROVE  Min({x, y}) = IF x <= y THEN x ELSE y
<1> DEFINE m == IF x <= y THEN x ELSE y
<1>1. m \in {x, y} /\ \A z \in {x, y} : m <= z
  OBVIOUS
<1>2. \A w \in {x, y} : (\A z \in {x, y} : w <= z) => w = m
  OBVIOUS
<1> HIDE DEF m
<1>3. Min({x, y}) = m
  BY <1>1, <1>2 DEF Min
<1> QED BY <1>3 DEF m

(***************************************************************************)
(* Sequence numbers.  At(b, x) is how far x is past the number b at which  *)
(* the session started.                                                    *)
(***************************************************************************)

Num == 0..(Word - 1)
At(b, x) == (x - b) % Word

LEMMA Constants ==
  /\ A # B
  /\ Word \in Nat \ {0} /\ FrgMod \in Nat \ {0} /\ WndMod \in Nat \ {0}
  /\ RcvWnd \in Nat \ {0} /\ DatagramSegs \in Nat \ {0}
  /\ SndWnd \in Nat /\ MaxFaults \in Nat /\ NetCap \in Nat /\ AckCap \in Nat
  /\ RcvWnd < WndMod /\ RcvWnd <= FrgMod
  /\ Start \subseteq Num /\ Sizes \subseteq Nat
  /\ MaxMsgs \in [Peer -> Nat]
  BY IkcpAssumption DEF Num

LEMMA ModIs ==
  ASSUME NEW a \in Int, NEW n \in Nat \ {0}, NEW q \in Int, NEW r \in 0..(n - 1),
         a = n * q + r
  PROVE  a % n = r
<1>1. a \div n \in Int /\ a % n \in 0..(n - 1) /\ a = n * (a \div n) + (a % n)
  OBVIOUS
<1> DEFINE d == a \div n
           t == a % n
<1>2. d \in Int /\ t \in 0..(n - 1) /\ n * d + t = n * q + r
  BY <1>1
<1> HIDE DEF d, t
<1>3. n * (d - q) = r - t
  BY <1>2
<1>4. d - q \in Int /\ r - t < n /\ r - t > -n
  BY <1>2
<1>5. \A x, y \in Int : x < n /\ x > -n /\ n * y = x => y = 0
  <2> TAKE x, y \in Int
  <2> HAVE x < n /\ x > -n /\ n * y = x
  <2>1. y >= 1 => n * y >= n
    OBVIOUS
  <2>2. y <= -1 => n * y <= -n
    OBVIOUS
  <2> QED BY <2>1, <2>2
<1>6. d - q = 0
  BY <1>2, <1>3, <1>4, <1>5
<1>7. t = r
  BY <1>2, <1>6
<1> QED BY <1>7 DEF t

LEMMA ModNear ==
  ASSUME NEW z \in Int
  PROVE  /\ z \in 0..(Word - 1) => z % Word = z
         /\ z + Word \in 0..(Word - 1) => z % Word = z + Word
         /\ z + 2 * Word \in 0..(Word - 1) => z % Word = z + 2 * Word
         /\ z - Word \in 0..(Word - 1) => z % Word = z - Word
<1>0. Word \in Nat \ {0}
  BY Constants
<1>1. z = Word * 0 + z /\ z = Word * (-1) + (z + Word)
      /\ z = Word * (-2) + (z + 2 * Word) /\ z = Word * 1 + (z - Word)
  BY <1>0
<1> QED BY <1>0, <1>1, ModIs

LEMMA AtIs ==
  ASSUME NEW b \in Num, NEW x \in Num
  PROVE  At(b, x) = (IF x >= b THEN x - b ELSE x - b + Word) /\ At(b, x) \in Num
<1>0. Word \in Nat \ {0}
  BY Constants
<1>1. x - b \in Int /\ (x >= b => x - b \in 0..(Word - 1))
      /\ (x < b => (x - b) + Word \in 0..(Word - 1))
  BY <1>0 DEF Num
<1>2. At(b, x) = IF x >= b THEN x - b ELSE x - b + Word
  BY <1>0, <1>1, ModNear DEF At, Num
<1> QED BY <1>0, <1>1, <1>2 DEF Num

LEMMA AtInjective ==
  ASSUME NEW b \in Num, NEW x \in Num, NEW y \in Num, At(b, x) = At(b, y)
  PROVE  x = y
<1>0. Word \in Nat \ {0}
  BY Constants
<1>1. /\ At(b, x) = (IF x >= b THEN x - b ELSE x - b + Word)
      /\ At(b, y) = (IF y >= b THEN y - b ELSE y - b + Word)
  BY AtIs
<1>2. /\ x \in Int /\ b \in Int /\ 0 <= x /\ x < Word /\ 0 <= b /\ b < Word
      /\ y \in Int /\ 0 <= y /\ y < Word
  BY <1>0 DEF Num
<1>3. (IF x >= b THEN x - b ELSE x - b + Word) = (IF y >= b THEN y - b ELSE y - b + Word)
  BY <1>1
<1> QED BY <1>0, <1>2, <1>3

LEMMA AtPlus ==
  ASSUME NEW b \in Num, NEW x \in Num, NEW n \in Nat, At(b, x) + n < Word
  PROVE  (x + n) % Word \in Num /\ At(b, (x + n) % Word) = At(b, x) + n
<1>0. Word \in Nat \ {0}
  BY Constants
<1>1. At(b, x) = (IF x >= b THEN x - b ELSE x - b + Word)
  BY AtIs
<1>2. x \in Int /\ b \in Int /\ 0 <= x /\ x < Word /\ 0 <= b /\ b < Word
  BY <1>0 DEF Num
<1> DEFINE y == IF x + n < Word THEN x + n ELSE x + n - Word
<1>3. y \in Num /\ y = (IF x + n < Word THEN x + n ELSE x + n - Word)
  BY <1>0, <1>1, <1>2 DEF Num
<1>4. (x + n) % Word = y
  BY <1>0, <1>3, ModNear, <1>2 DEF Num
<1> HIDE DEF y
<1>5. At(b, y) = (IF y >= b THEN y - b ELSE y - b + Word)
  BY <1>3, AtIs
<1>6. At(b, y) = At(b, x) + n
  BY <1>0, <1>1, <1>2, <1>3, <1>5 DEF Num
<1> QED BY <1>3, <1>4, <1>6

\* Within half of the numbers Diff is the difference.
LEMMA DiffIs ==
  ASSUME NEW b \in Num, NEW x \in Num, NEW y \in Num, NEW n \in 0..Word,
         2 * (At(b, x) - At(b, y) - n) < Word, 2 * (At(b, x) - At(b, y) - n) >= -Word
  PROVE  Diff(x, y + n) = At(b, x) - At(b, y) - n
<1>0. Word \in Nat \ {0}
  BY Constants
<1>1. /\ At(b, x) = (IF x >= b THEN x - b ELSE x - b + Word)
      /\ At(b, y) = (IF y >= b THEN y - b ELSE y - b + Word)
  BY AtIs
<1>2. /\ x \in Int /\ b \in Int /\ 0 <= x /\ x < Word /\ 0 <= b /\ b < Word
      /\ y \in Int /\ 0 <= y /\ y < Word /\ n \in Int /\ 0 <= n /\ n <= Word
  BY <1>0 DEF Num
<1> DEFINE z == x - (y + n)
           e == At(b, x) - At(b, y) - n
<1>3. z \in Int /\ e \in Int /\ (e = z \/ e = z + Word \/ e = z - Word)
  BY <1>0, <1>1, <1>2
<1>4. 2 * e < Word /\ 2 * e >= -Word
  OBVIOUS
<1>5. z < Word /\ z >= -2 * Word
  BY <1>0, <1>2
<1>5a. z % Word = (x - (y + n)) % Word
  OBVIOUS
<1> HIDE DEF z, e
<1>6. z % Word = IF e >= 0 THEN e ELSE e + Word
  BY <1>0, <1>3, <1>4, <1>5, ModNear
<1>7. (IF 2 * (z % Word) >= Word THEN (z % Word) - Word ELSE z % Word) = e
  BY <1>0, <1>3, <1>4, <1>6
<1>8. Diff(x, y + n) = e
  BY <1>5a, <1>7 DEF Diff
<1> QED BY <1>8 DEF e

LEMMA DiffIs0 ==
  ASSUME NEW b \in Num, NEW x \in Num, NEW y \in Num,
         2 * (At(b, x) - At(b, y)) < Word, 2 * (At(b, x) - At(b, y)) >= -Word
  PROVE  Diff(x, y) = At(b, x) - At(b, y)
<1>0. Word \in Nat \ {0}
  BY Constants
<1>1. y + 0 = y /\ At(b, x) \in Int /\ At(b, y) \in Int /\ 0 \in 0..Word
  BY <1>0, AtIs DEF Num
<1>2. At(b, x) - At(b, y) - 0 = At(b, x) - At(b, y)
  BY <1>1
<1> QED BY <1>1, <1>2, DiffIs

(***************************************************************************)
(* The inductive invariant.  Of the fragments that one end ever accepted,  *)
(* F is the sequence and E[j] the number in the first j messages.  X, R    *)
(* and D count those that were given a number, that arrived in sequence,   *)
(* and that were read: D <= R <= X <= Len(F).                              *)
(***************************************************************************)

Data == Message \X Nat
Frag == [frg : Nat, data : Data]
Piece == [sn : Num, frg : Nat, data : Data]
Seg == [cmd : {"ACK", "PUSH", "WASK", "WINS"}, frg : Nat, wnd : 0..RcvWnd, sn : Num,
        una : Num, data : Data \cup {<<>>}]
Block == [snd_una : Num, snd_nxt : Num, rcv_nxt : Num, rmt_wnd : 0..RcvWnd,
          snd_queue : Seq(Frag), snd_buf : Seq(Piece), rcv_buf : Seq(Piece),
          rcv_queue : Seq(Piece), acklist : Seq(Num), probe : SUBSET {"send", "tell"},
          probe_wait : BOOLEAN]

Shape == /\ kcp \in [Peer -> Block]
         /\ net \in [Peer -> Seq(Seq(Seg))]
         /\ faults \in 0..MaxFaults
         /\ sent \in [Peer -> Seq(Message)]
         /\ received \in [Peer -> Seq(Seq(Data))]

\* Two fragments with the same place in the same message.
Same(f, g) == f.frg = g.frg /\ f.data = g.data

\* Whether a buffer has the a-th fragment, or the number x.
Holds(b, buf, a) == \E i \in 1..Len(buf) : At(b, buf[i].sn) = a

\* The block k has received the fragment numbered x.
Has(b, k, x) == At(b, x) < At(b, k.rcv_nxt) \/ Holds(b, k.rcv_buf, At(b, x))

\* A buffer of numbered fragments holds what the numbers say.
Numbered(b, F, buf, X) ==
  \A i \in 1..Len(buf) :
    /\ At(b, buf[i].sn) < X
    /\ Same(buf[i], F[At(b, buf[i].sn) + 1])

SenderOK(b, F, k) ==
  /\ At(b, k.snd_nxt) + Len(k.snd_queue) = Len(F)
  /\ \A i \in 1..Len(k.snd_queue) : k.snd_queue[i] = F[At(b, k.snd_nxt) + i]
  /\ Numbered(b, F, k.snd_buf, At(b, k.snd_nxt))

\* rcv_queue continues what was read, and rcv_buf is ahead of it in the window.
QueueOK(b, F, D, k) ==
  /\ D + Len(k.rcv_queue) = At(b, k.rcv_nxt)
  /\ Len(k.rcv_queue) <= RcvWnd
  /\ \A i \in 1..Len(k.rcv_queue) : Same(k.rcv_queue[i], F[D + i])

BufferOK(b, k) ==
  /\ \A i \in 1..Len(k.rcv_buf) :
       /\ At(b, k.rcv_buf[i].sn) >= At(b, k.rcv_nxt)
       /\ At(b, k.rcv_buf[i].sn) < At(b, k.rcv_nxt) + RcvWnd
  /\ \A i, j \in 1..Len(k.rcv_buf) :
       i < j => At(b, k.rcv_buf[i].sn) < At(b, k.rcv_buf[j].sn)

AcksOK(b, k) == \A i \in 1..Len(k.acklist) : Has(b, k, k.acklist[i])

ReceiverOK(b, F, X, D, k) ==
  /\ At(b, k.rcv_nxt) <= X
  /\ QueueOK(b, F, D, k)
  /\ Numbered(b, F, k.rcv_buf, X)
  /\ BufferOK(b, k)
  /\ AcksOK(b, k)

\* Whatever has a number is with the sender s or with the receiver r.
Covered(b, s, r) ==
  \A a \in At(b, r.rcv_nxt)..(At(b, s.snd_nxt) - 1) :
    Holds(b, s.snd_buf, a) \/ Holds(b, r.rcv_buf, a)

LinkOK(b, F, D, s, r) ==
  SenderOK(b, F, s) /\ ReceiverOK(b, F, At(b, s.snd_nxt), D, r) /\ Covered(b, s, r)

\* A segment on its way from the block o.
SegOK(b, F, o, g) ==
  /\ At(b, g.una) <= At(b, o.rcv_nxt)
  /\ g.cmd = "PUSH" => /\ At(b, g.sn) < At(b, o.snd_nxt)
                       /\ Same(g, F[At(b, g.sn) + 1])
  /\ g.cmd = "ACK" => Has(b, o, g.sn)

DatagramOK(b, F, o, d) == \A j \in 1..Len(d) : SegOK(b, F, o, d[j])

NetOK(b, F, o, q) ==
  \A i \in 1..Len(q) : Len(q[i]) \in 1..DatagramSegs /\ DatagramOK(b, F, o, q[i])

\* F is the messages, cut into fragments.
LogOK(F, E, msgs) ==
  /\ E \in [0..Len(msgs) -> Nat]
  /\ E[0] = 0 /\ E[Len(msgs)] = Len(F)
  /\ \A j \in 1..Len(msgs) :
       /\ Len(Fragments(msgs[j])) < RcvWnd
       /\ E[j] = E[j - 1] + Len(Fragments(msgs[j]))
       /\ E[j] <= Len(F)
       /\ \A i \in 1..Len(Fragments(msgs[j])) :
            F[E[j - 1] + i] = Fragments(msgs[j])[i]

BoundOK(F, msgs, n) == /\ Len(msgs) <= n /\ Len(F) <= Len(msgs) * RcvWnd
                       /\ \A i \in 1..Len(F) : F[i].frg < RcvWnd

\* What was read is the first of the messages, each of them whole.
ReadOK(msgs, rec) ==
  /\ Len(rec) <= Len(msgs)
  /\ \A j \in 1..Len(rec) :
       rec[j] = [i \in 1..Len(Fragments(msgs[j])) |-> <<msgs[j], i>>]

PeerOK(b, F, E, p) ==
  /\ LogOK(F[p], E[p], sent[p])
  /\ BoundOK(F[p], sent[p], MaxMsgs[p])
  /\ ReadOK(sent[p], received[Other(p)])
  /\ LinkOK(b, F[p], E[p][Len(received[Other(p)])], kcp[p], kcp[Other(p)])
  /\ NetOK(b, F[p], kcp[p], net[Other(p)])

IInv(b, F, E) == /\ Shape
                 /\ b \in Num
                 /\ F \in [Peer -> Seq(Frag)]
                 /\ \A p \in Peer : PeerOK(b, F, E, p)

\* The sequence numbers started somewhere, and some F and E say what was sent.
Sound == \E b, F, E : IInv(b, F, E)
-----------------------------------------------------------------------------
(* What the parts of the invariant depend on.                              *)

Fits(F) == 2 * (Len(F) + RcvWnd) <= Word

LEMMA SessionFits ==
  ASSUME NEW p \in Peer, NEW F \in Seq(Frag), NEW msgs \in Seq(Message),
         BoundOK(F, msgs, MaxMsgs[p])
  PROVE  Fits(F)
<1>1. /\ Len(F) \in Nat /\ Len(msgs) \in Nat /\ MaxMsgs[p] \in Nat /\ RcvWnd \in Nat
      /\ Word \in Nat
  BY Constants
<1>2. 2 * RcvWnd * (MaxMsgs[p] + 1) <= Word
  BY SessionAssumption
<1>3. Len(msgs) <= MaxMsgs[p] /\ Len(F) <= Len(msgs) * RcvWnd
  BY DEF BoundOK
<1>4. \A l, n, m, r, w \in Nat : n <= m /\ l <= n * r /\ 2 * r * (m + 1) <= w
        => 2 * (l + r) <= w
  <2> TAKE l, n, m, r, w \in Nat
  <2> HAVE n <= m /\ l <= n * r /\ 2 * r * (m + 1) <= w
  <2>1. n * r <= m * r
    OBVIOUS
  <2>2. 2 * r * (m + 1) = 2 * (m * r) + 2 * r
    OBVIOUS
  <2> QED BY <2>1, <2>2
<1> QED BY <1>1, <1>2, <1>3, <1>4, Zenon DEF Fits

LEMMA AtNat == ASSUME NEW b \in Num, NEW x \in Num
               PROVE  At(b, x) \in Nat /\ At(b, x) < Word
  BY AtIs, Constants DEF Num

LEMMA BlockFacts ==
  ASSUME NEW k \in Block
  PROVE  /\ k.snd_una \in Num /\ k.snd_nxt \in Num /\ k.rcv_nxt \in Num
         /\ k.rmt_wnd \in 0..RcvWnd
         /\ k.snd_queue \in Seq(Frag) /\ k.snd_buf \in Seq(Piece)
         /\ k.rcv_buf \in Seq(Piece) /\ k.rcv_queue \in Seq(Piece)
         /\ k.acklist \in Seq(Num)
         /\ \A i \in 1..Len(k.snd_buf) : k.snd_buf[i] \in Piece /\ k.snd_buf[i].sn \in Num
         /\ \A i \in 1..Len(k.rcv_buf) : k.rcv_buf[i] \in Piece /\ k.rcv_buf[i].sn \in Num
         /\ \A i \in 1..Len(k.acklist) : k.acklist[i] \in Num
<1>1. /\ k.snd_una \in Num /\ k.snd_nxt \in Num /\ k.rcv_nxt \in Num
      /\ k.rmt_wnd \in 0..RcvWnd
      /\ k.snd_queue \in Seq(Frag) /\ k.snd_buf \in Seq(Piece)
      /\ k.rcv_buf \in Seq(Piece) /\ k.rcv_queue \in Seq(Piece)
      /\ k.acklist \in Seq(Num)
  BY DEF Block
<1>2. \A s \in Seq(Piece) : \A i \in 1..Len(s) : s[i] \in Piece
  OBVIOUS
<1>3. \A x \in Piece : x.sn \in Num
  BY DEF Piece
<1>4. \A i \in 1..Len(k.acklist) : k.acklist[i] \in Num
  BY <1>1
<1> QED BY <1>1, <1>2, <1>3, <1>4

LEMMA SenderSame ==
  ASSUME NEW b, NEW F, NEW D, NEW s, NEW t, NEW r, LinkOK(b, F, D, s, r),
         t.snd_nxt = s.snd_nxt, t.snd_queue = s.snd_queue, t.snd_buf = s.snd_buf
  PROVE  LinkOK(b, F, D, t, r)
  BY DEF LinkOK, SenderOK, Covered

LEMMA ReceiverSame ==
  ASSUME NEW b, NEW F, NEW D, NEW s, NEW t, NEW r, LinkOK(b, F, D, s, r),
         t.rcv_nxt = r.rcv_nxt, t.rcv_queue = r.rcv_queue, t.rcv_buf = r.rcv_buf,
         t.acklist = r.acklist
  PROVE  LinkOK(b, F, D, s, t)
<1>1. /\ SenderOK(b, F, s) /\ ReceiverOK(b, F, At(b, s.snd_nxt), D, r) /\ Covered(b, s, r)
  BY DEF LinkOK
<1>2. ReceiverOK(b, F, At(b, s.snd_nxt), D, t)
  BY <1>1 DEF ReceiverOK, QueueOK, BufferOK, AcksOK, Has
<1>3. Covered(b, s, t)
  BY <1>1 DEF Covered
<1> QED BY <1>1, <1>2, <1>3 DEF LinkOK

\* What never shrinks in a block, so that segments under way stay true.
Grows(b, k, l) ==
  /\ At(b, k.rcv_nxt) <= At(b, l.rcv_nxt)
  /\ At(b, k.snd_nxt) <= At(b, l.snd_nxt)
  /\ \A x \in Num : Has(b, k, x) => Has(b, l, x)

LEMMA GrowsSame ==
  ASSUME NEW b \in Num, NEW k \in Block, NEW l,
         l.snd_nxt = k.snd_nxt, l.rcv_nxt = k.rcv_nxt, l.rcv_buf = k.rcv_buf
  PROVE  Grows(b, k, l)
<1>1. At(b, k.rcv_nxt) \in Nat /\ At(b, k.snd_nxt) \in Nat
  BY BlockFacts, AtNat
<1> QED BY <1>1 DEF Grows, Has

LEMMA GrowsTrans ==
  ASSUME NEW b \in Num, NEW k \in Block, NEW l \in Block, NEW m \in Block,
         Grows(b, k, l), Grows(b, l, m)
  PROVE  Grows(b, k, m)
<1>1. /\ At(b, k.rcv_nxt) \in Nat /\ At(b, k.snd_nxt) \in Nat
      /\ At(b, l.rcv_nxt) \in Nat /\ At(b, l.snd_nxt) \in Nat
      /\ At(b, m.rcv_nxt) \in Nat /\ At(b, m.snd_nxt) \in Nat
  BY BlockFacts, AtNat
<1> QED BY <1>1 DEF Grows

\* A longer log says the same of what it already held.
Extends(F, G) == Len(F) <= Len(G) /\ \A i \in 1..Len(F) : G[i] = F[i]

LEMMA SegGrows ==
  ASSUME NEW b \in Num, NEW F \in Seq(Frag), NEW G \in Seq(Frag), Extends(F, G),
         NEW k \in Block, NEW l \in Block, Grows(b, k, l), At(b, k.snd_nxt) <= Len(F),
         NEW g \in Seg, SegOK(b, F, k, g)
  PROVE  SegOK(b, G, l, g)
<1>0. g.una \in Num /\ g.sn \in Num
  BY DEF Seg
<1>1. /\ At(b, k.rcv_nxt) \in Nat /\ At(b, k.snd_nxt) \in Nat
      /\ At(b, l.rcv_nxt) \in Nat /\ At(b, l.snd_nxt) \in Nat
      /\ At(b, g.una) \in Nat /\ At(b, g.sn) \in Nat
  BY BlockFacts, AtNat, <1>0
<1>2. At(b, g.una) <= At(b, l.rcv_nxt)
  BY <1>1 DEF SegOK, Grows
<1>3. ASSUME g.cmd = "PUSH"
      PROVE  At(b, g.sn) < At(b, l.snd_nxt) /\ Same(g, G[At(b, g.sn) + 1])
  <2>1. At(b, g.sn) < At(b, k.snd_nxt) /\ Same(g, F[At(b, g.sn) + 1])
    BY <1>3 DEF SegOK
  <2>2. At(b, k.snd_nxt) <= At(b, l.snd_nxt)
    BY DEF Grows
  <2>3. At(b, g.sn) + 1 \in 1..Len(F)
    BY <1>1, <2>1
  <2>4. G[At(b, g.sn) + 1] = F[At(b, g.sn) + 1]
    BY <2>3 DEF Extends
  <2> QED BY <1>1, <2>1, <2>2, <2>4
<1>4. ASSUME g.cmd = "ACK" PROVE Has(b, l, g.sn)
  BY <1>4, <1>0 DEF SegOK, Grows
<1> QED BY <1>2, <1>3, <1>4 DEF SegOK

LEMMA NetGrows ==
  ASSUME NEW b \in Num, NEW F \in Seq(Frag), NEW G \in Seq(Frag), Extends(F, G),
         NEW k \in Block, NEW l \in Block, Grows(b, k, l), At(b, k.snd_nxt) <= Len(F),
         NEW q \in Seq(Seq(Seg)), NetOK(b, F, k, q)
  PROVE  NetOK(b, G, l, q)
<1> SUFFICES ASSUME NEW i \in 1..Len(q)
             PROVE  Len(q[i]) \in 1..DatagramSegs /\ DatagramOK(b, G, l, q[i])
  BY DEF NetOK
<1>1. Len(q[i]) \in 1..DatagramSegs /\ DatagramOK(b, F, k, q[i]) /\ q[i] \in Seq(Seg)
  BY DEF NetOK
<1>2. ASSUME NEW j \in 1..Len(q[i]) PROVE SegOK(b, G, l, q[i][j])
  <2>1. q[i][j] \in Seg /\ SegOK(b, F, k, q[i][j])
    BY <1>1 DEF DatagramOK
  <2> QED BY <2>1, SegGrows
<1> QED BY <1>1, <1>2 DEF DatagramOK

-----------------------------------------------------------------------------
(* What arrives in a datagram, segment by segment.                         *)

\* A sender may let go of what the receiver has.
LEMMA LetGo ==
  ASSUME NEW b \in Num, NEW F, NEW D, NEW s \in Block, NEW t \in Block, NEW r \in Block,
         LinkOK(b, F, D, s, r), t.snd_nxt = s.snd_nxt, t.snd_queue = s.snd_queue,
         \A i \in 1..Len(t.snd_buf) : \E j \in 1..Len(s.snd_buf) : t.snd_buf[i] = s.snd_buf[j],
         \A j \in 1..Len(s.snd_buf) :
           \/ \E i \in 1..Len(t.snd_buf) : t.snd_buf[i] = s.snd_buf[j]
           \/ Has(b, r, s.snd_buf[j].sn)
  PROVE  LinkOK(b, F, D, t, r)
<1>1. /\ SenderOK(b, F, s) /\ ReceiverOK(b, F, At(b, s.snd_nxt), D, r) /\ Covered(b, s, r)
  BY DEF LinkOK
<1>2. SenderOK(b, F, t)
  <2>1. Numbered(b, F, t.snd_buf, At(b, s.snd_nxt))
    <3> SUFFICES ASSUME NEW i \in 1..Len(t.snd_buf)
                 PROVE  /\ At(b, t.snd_buf[i].sn) < At(b, s.snd_nxt)
                        /\ Same(t.snd_buf[i], F[At(b, t.snd_buf[i].sn) + 1])
      BY DEF Numbered
    <3>1. PICK j \in 1..Len(s.snd_buf) : t.snd_buf[i] = s.snd_buf[j]
      OBVIOUS
    <3> QED BY <3>1, <1>1 DEF SenderOK, Numbered
  <2> QED BY <2>1, <1>1 DEF SenderOK
<1>3. Covered(b, t, r)
  <2> SUFFICES ASSUME NEW a \in At(b, r.rcv_nxt)..(At(b, s.snd_nxt) - 1),
                      ~ Holds(b, r.rcv_buf, a)
               PROVE  Holds(b, t.snd_buf, a)
    BY DEF Covered
  <2>0. At(b, r.rcv_nxt) \in Nat /\ At(b, s.snd_nxt) \in Nat
    BY BlockFacts, AtNat
  <2>1. Holds(b, s.snd_buf, a)
    BY <1>1 DEF Covered
  <2>2. PICK j \in 1..Len(s.snd_buf) : At(b, s.snd_buf[j].sn) = a
    BY <2>1 DEF Holds
  <2>3. ~ Has(b, r, s.snd_buf[j].sn)
    BY <2>0, <2>2 DEF Has
  <2>4. PICK i \in 1..Len(t.snd_buf) : t.snd_buf[i] = s.snd_buf[j]
    BY <2>3
  <2> QED BY <2>2, <2>4 DEF Holds
<1> QED BY <1>1, <1>2, <1>3 DEF LinkOK

LEMMA RemoveAtFacts ==
  ASSUME NEW T, NEW s \in Seq(T), NEW m \in 1..Len(s)
  PROVE  /\ RemoveAt(s, m) \in Seq(T) /\ Len(RemoveAt(s, m)) = Len(s) - 1
         /\ \A i \in 1..(Len(s) - 1) : RemoveAt(s, m)[i] = IF i < m THEN s[i] ELSE s[i + 1]
<1> DEFINE u == SubSeq(s, 1, m - 1)
           v == SubSeq(s, m + 1, Len(s))
<1>0. Len(s) \in Nat /\ m \in Nat
  OBVIOUS
<1>1. u \in Seq(T) /\ Len(u) = m - 1 /\ \A i \in 1..(m - 1) : u[i] = s[i]
  BY <1>0
<1>2. v \in Seq(T) /\ Len(v) = Len(s) - m /\ \A i \in 1..(Len(s) - m) : v[i] = s[m + i]
  BY <1>0
<1>3. RemoveAt(s, m) = u \o v
  BY DEF RemoveAt
<1> HIDE DEF u, v
<1>4a. u \o v \in Seq(T) /\ Len(u \o v) = Len(u) + Len(v)
  BY <1>1, <1>2, ConcatProperties
<1>4. u \o v \in Seq(T) /\ Len(u \o v) = Len(s) - 1
  BY <1>0, <1>1, <1>2, <1>4a
<1>5. ASSUME NEW i \in 1..(Len(s) - 1) PROVE (u \o v)[i] = IF i < m THEN s[i] ELSE s[i + 1]
  <2>1. CASE i < m
    <3>1. i \in 1..Len(u)
      BY <1>0, <1>1, <2>1
    <3>2. (u \o v)[i] = u[i]
      BY <1>1, <1>2, <3>1
    <3> QED BY <1>1, <2>1, <3>1, <3>2
  <2>2. CASE ~ (i < m)
    <3>1. i - Len(u) \in 1..Len(v) /\ m + (i - Len(u)) = i + 1
      BY <1>0, <1>1, <1>2, <2>2
    <3>2. (u \o v)[i] = v[i - Len(u)]
      BY <1>1, <1>2, <3>1
    <3>3. v[i - Len(u)] = s[m + (i - Len(u))]
      BY <1>2, <3>1
    <3> QED BY <2>2, <3>1, <3>2, <3>3
  <2> QED BY <2>1, <2>2
<1> QED BY <1>3, <1>4, <1>5

LEMMA InsertAtFacts ==
  ASSUME NEW T, NEW s \in Seq(T), NEW m \in 1..(Len(s) + 1), NEW e \in T
  PROVE  /\ InsertAt(s, m, e) \in Seq(T) /\ Len(InsertAt(s, m, e)) = Len(s) + 1
         /\ \A i \in 1..(m - 1) : InsertAt(s, m, e)[i] = s[i]
         /\ InsertAt(s, m, e)[m] = e
         /\ \A i \in m..Len(s) : InsertAt(s, m, e)[i + 1] = s[i]
<1> DEFINE u == SubSeq(s, 1, m - 1)
           v == SubSeq(s, m, Len(s))
           w == u \o <<e>>
<1>0. Len(s) \in Nat /\ m \in Nat
  OBVIOUS
<1>1. u \in Seq(T) /\ Len(u) = m - 1 /\ \A i \in 1..(m - 1) : u[i] = s[i]
  BY <1>0
<1>2. /\ v \in Seq(T) /\ Len(v) = Len(s) - m + 1
      /\ \A i \in 1..(Len(s) - m + 1) : v[i] = s[m - 1 + i]
  BY <1>0
<1>3. InsertAt(s, m, e) = w \o v
  BY DEF InsertAt
<1> HIDE DEF u, v
<1>4. /\ w \in Seq(T) /\ Len(w) = m /\ w[m] = e
      /\ \A i \in 1..(m - 1) : w[i] = s[i]
  BY <1>0, <1>1
<1> HIDE DEF w
<1>5a. w \o v \in Seq(T) /\ Len(w \o v) = Len(w) + Len(v)
  BY <1>2, <1>4, ConcatProperties
<1>5. w \o v \in Seq(T) /\ Len(w \o v) = Len(s) + 1
  BY <1>0, <1>2, <1>4, <1>5a
<1>6. ASSUME NEW i \in 1..(m - 1) PROVE (w \o v)[i] = s[i]
  <2>1. i \in 1..Len(w)
    BY <1>0, <1>4
  <2>2. (w \o v)[i] = w[i]
    BY <1>2, <1>4, <2>1
  <2> QED BY <1>4, <2>2
<1>7. (w \o v)[m] = e
  <2>1. m \in 1..Len(w)
    BY <1>0, <1>4
  <2>2. (w \o v)[m] = w[m]
    BY <1>2, <1>4, <2>1
  <2> QED BY <1>4, <2>2
<1>8. ASSUME NEW i \in m..Len(s) PROVE (w \o v)[i + 1] = s[i]
  <2>1. (i + 1) - Len(w) \in 1..Len(v) /\ m - 1 + ((i + 1) - Len(w)) = i
    BY <1>0, <1>2, <1>4
  <2>2. (w \o v)[i + 1] = v[(i + 1) - Len(w)]
    BY <1>0, <1>2, <1>4, <2>1
  <2>3. v[(i + 1) - Len(w)] = s[m - 1 + ((i + 1) - Len(w))]
    BY <1>2, <2>1
  <2> QED BY <2>1, <2>2, <2>3
<1> QED BY <1>3, <1>5, <1>6, <1>7, <1>8

\* A step that leaves the receiving half of a block, and what it has numbered.
SendsOnly(k, l) ==
  /\ l \in Block
  /\ l.snd_nxt = k.snd_nxt /\ l.snd_queue = k.snd_queue
  /\ l.rcv_nxt = k.rcv_nxt /\ l.rcv_queue = k.rcv_queue /\ l.rcv_buf = k.rcv_buf
  /\ l.acklist = k.acklist

LEMMA LinkFacts ==
  ASSUME NEW b \in Num, NEW F \in Seq(Frag), NEW D, NEW s \in Block, NEW r \in Block,
         LinkOK(b, F, D, s, r)
  PROVE  /\ At(b, s.snd_nxt) \in Nat /\ At(b, r.rcv_nxt) \in Nat /\ Len(F) \in Nat
         /\ At(b, r.rcv_nxt) <= At(b, s.snd_nxt) /\ At(b, s.snd_nxt) <= Len(F)
         /\ \A i \in 1..Len(s.snd_buf) : At(b, s.snd_buf[i].sn) \in 0..(At(b, s.snd_nxt) - 1)
         /\ \A i \in 1..Len(r.rcv_buf) : At(b, r.rcv_buf[i].sn) \in 0..(At(b, s.snd_nxt) - 1)
<1>1. /\ At(b, s.snd_nxt) \in Nat /\ At(b, r.rcv_nxt) \in Nat /\ Len(F) \in Nat
      /\ Len(s.snd_queue) \in Nat
  BY BlockFacts, AtNat
<1>2. SenderOK(b, F, s) /\ ReceiverOK(b, F, At(b, s.snd_nxt), D, r)
  BY DEF LinkOK
<1>3. At(b, r.rcv_nxt) <= At(b, s.snd_nxt) /\ At(b, s.snd_nxt) + Len(s.snd_queue) = Len(F)
  BY <1>2 DEF SenderOK, ReceiverOK
<1>4. ASSUME NEW i \in 1..Len(s.snd_buf)
      PROVE  At(b, s.snd_buf[i].sn) \in 0..(At(b, s.snd_nxt) - 1)
  <2>1. At(b, s.snd_buf[i].sn) \in Nat
    BY BlockFacts, AtNat
  <2>2. At(b, s.snd_buf[i].sn) < At(b, s.snd_nxt)
    BY <1>2 DEF SenderOK, Numbered
  <2> QED BY <1>1, <2>1, <2>2
<1>5. ASSUME NEW i \in 1..Len(r.rcv_buf)
      PROVE  At(b, r.rcv_buf[i].sn) \in 0..(At(b, s.snd_nxt) - 1)
  <2>1. At(b, r.rcv_buf[i].sn) \in Nat
    BY BlockFacts, AtNat
  <2>2. At(b, r.rcv_buf[i].sn) < At(b, s.snd_nxt)
    BY <1>2 DEF ReceiverOK, Numbered
  <2> QED BY <1>1, <2>1, <2>2
<1> QED BY <1>1, <1>3, <1>4, <1>5

\* Any two counts of a session are compared rightly by Diff.
LEMMA DiffInSession ==
  ASSUME NEW b \in Num, NEW F \in Seq(Frag), Fits(F), NEW x \in Num, NEW y \in Num,
         At(b, x) <= Len(F), At(b, y) <= Len(F)
  PROVE  /\ Diff(x, y) = At(b, x) - At(b, y)
         /\ Diff(x, y + RcvWnd) = At(b, x) - At(b, y) - RcvWnd
<1>1. /\ At(b, x) \in Nat /\ At(b, y) \in Nat /\ Len(F) \in Nat /\ RcvWnd \in Nat \ {0}
      /\ Word \in Nat \ {0}
  BY AtNat, Constants
<1>2. 2 * (Len(F) + RcvWnd) <= Word
  BY DEF Fits
<1>3. RcvWnd \in 0..Word
  BY <1>1, <1>2
<1>4. /\ 2 * (At(b, x) - At(b, y)) < Word /\ 2 * (At(b, x) - At(b, y)) >= -Word
      /\ 2 * (At(b, x) - At(b, y) - RcvWnd) < Word
      /\ 2 * (At(b, x) - At(b, y) - RcvWnd) >= -Word
  BY <1>1, <1>2
<1> QED BY <1>3, <1>4, DiffIs, DiffIs0

LEMMA MaxPrefix ==
  ASSUME NEW L \in Nat, NEW S, S \subseteq 1..L
  PROVE  /\ Max({0} \cup S) \in 0..L
         /\ Max({0} \cup S) > 0 => Max({0} \cup S) \in S
         /\ \A i \in S : i <= Max({0} \cup S)
<1>1. {0} \cup S \subseteq 0..L /\ {0} \cup S # {}
  OBVIOUS
<1>2. Max({0} \cup S) \in {0} \cup S /\ \A y \in {0} \cup S : y <= Max({0} \cup S)
  BY <1>1, MaxFact
<1> DEFINE m == Max({0} \cup S)
<1>3. m \in {0} \cup S /\ \A y \in S : y <= m
  BY <1>2
<1> HIDE DEF m
<1>4. m \in 0..L /\ (m > 0 => m \in S) /\ \A i \in S : i <= m
  BY <1>1, <1>3
<1> QED BY <1>4 DEF m

LEMMA ParseUnaOK ==
  ASSUME NEW b \in Num, NEW F \in Seq(Frag), Fits(F), NEW D, NEW k \in Block, NEW o \in Block,
         LinkOK(b, F, D, k, o), NEW una \in Num, At(b, una) <= At(b, o.rcv_nxt)
  PROVE  LinkOK(b, F, D, ParseUna(k, una), o) /\ SendsOnly(k, ParseUna(k, una))
<1> DEFINE S == {i \in 1..Len(k.snd_buf) : \A j \in 1..i : Diff(una, k.snd_buf[j].sn) > 0}
           n == Max({0} \cup S)
           l == [k EXCEPT !.snd_buf = SubSeq(@, n + 1, Len(@))]
<1>1. ParseUna(k, una) = l
  BY DEF ParseUna
<1>2. Len(k.snd_buf) \in Nat /\ k.snd_buf \in Seq(Piece)
  BY BlockFacts
<1>3. n \in 0..Len(k.snd_buf) /\ (n > 0 => n \in S)
  BY <1>2, MaxPrefix
<1>4. \A j \in 1..n : j \in 1..Len(k.snd_buf) /\ Diff(una, k.snd_buf[j].sn) > 0
  BY <1>2, <1>3
<1> HIDE DEF n, S
<1>5. /\ SubSeq(k.snd_buf, n + 1, Len(k.snd_buf)) \in Seq(Piece)
      /\ Len(SubSeq(k.snd_buf, n + 1, Len(k.snd_buf))) = Len(k.snd_buf) - n
      /\ \A i \in 1..(Len(k.snd_buf) - n) :
           SubSeq(k.snd_buf, n + 1, Len(k.snd_buf))[i] = k.snd_buf[n + i]
  BY <1>2, <1>3
<1>6. l \in Block /\ l.snd_buf = SubSeq(k.snd_buf, n + 1, Len(k.snd_buf)) /\ SendsOnly(k, l)
  BY <1>5 DEF Block, SendsOnly
<1> HIDE DEF l
<1>7. \A i \in 1..Len(l.snd_buf) : \E j \in 1..Len(k.snd_buf) : l.snd_buf[i] = k.snd_buf[j]
  <2> TAKE i \in 1..Len(l.snd_buf)
  <2>1. n + i \in 1..Len(k.snd_buf) /\ l.snd_buf[i] = k.snd_buf[n + i]
    BY <1>2, <1>3, <1>5, <1>6
  <2> QED BY <2>1
<1>8. ASSUME NEW j \in 1..Len(k.snd_buf)
      PROVE  \/ \E i \in 1..Len(l.snd_buf) : l.snd_buf[i] = k.snd_buf[j]
             \/ Has(b, o, k.snd_buf[j].sn)
  <2>1. CASE j > n
    <3>1. j - n \in 1..Len(l.snd_buf) /\ l.snd_buf[j - n] = k.snd_buf[j]
      BY <1>2, <1>3, <1>5, <1>6, <2>1
    <3> QED BY <3>1
  <2>2. CASE j <= n
    <3>1. Diff(una, k.snd_buf[j].sn) > 0
      BY <1>3, <1>4, <2>2
    <3> DEFINE x == k.snd_buf[j].sn
    <3>2. x \in Num /\ At(b, x) \in Nat /\ At(b, una) \in Nat
      BY BlockFacts, AtNat
    <3>2a. /\ At(b, x) \in 0..(At(b, k.snd_nxt) - 1) /\ At(b, k.snd_nxt) <= Len(F)
           /\ At(b, o.rcv_nxt) <= At(b, k.snd_nxt) /\ At(b, o.rcv_nxt) \in Nat
           /\ At(b, k.snd_nxt) \in Nat /\ Len(F) \in Nat
      BY LinkFacts
    <3> HIDE DEF x
    <3>3. At(b, x) <= Len(F) /\ At(b, una) <= Len(F)
      BY <3>2, <3>2a
    <3>4. Diff(una, x) = At(b, una) - At(b, x)
      BY <3>2, <3>3, DiffInSession
    <3>5. At(b, x) < At(b, o.rcv_nxt)
      BY <3>1, <3>2, <3>2a, <3>4 DEF x
    <3> QED BY <3>5 DEF Has, x
  <2> QED BY <2>1, <2>2, <1>3
<1>9. LinkOK(b, F, D, l, o)
  BY <1>6, <1>7, <1>8, LetGo DEF SendsOnly
<1> QED BY <1>1, <1>6, <1>9

LEMMA ParseAckOK ==
  ASSUME NEW b \in Num, NEW F \in Seq(Frag), NEW D, NEW k \in Block, NEW o \in Block,
         LinkOK(b, F, D, k, o), NEW sn \in Num, Has(b, o, sn)
  PROVE  LinkOK(b, F, D, ParseAck(k, sn), o) /\ SendsOnly(k, ParseAck(k, sn))
<1>0. SendsOnly(k, k)
  BY DEF SendsOnly
<1>1. CASE Diff(sn, k.snd_una) < 0 \/ Diff(sn, k.snd_nxt) >= 0
  BY <1>0, <1>1 DEF ParseAck
<1>2. CASE ~ (Diff(sn, k.snd_una) < 0 \/ Diff(sn, k.snd_nxt) >= 0)
  <2> DEFINE S == {i \in 1..Len(k.snd_buf) : k.snd_buf[i].sn = sn}
  <2>1. ParseAck(k, sn) = [k EXCEPT !.snd_buf = IF \E i \in 1..Len(@) : @[i].sn = sn
                                                 THEN RemoveAt(@, Min(S)) ELSE @]
    <3>1. (\E i \in 1..Len(k.snd_buf) : k.snd_buf[i].sn = sn) => S # {}
      OBVIOUS
    <3> QED BY <1>2, <3>1 DEF ParseAck, RemoveFirstMatch, SelectInSeq
  <2>2. k.snd_buf \in Seq(Piece) /\ Len(k.snd_buf) \in Nat
    BY BlockFacts
  <2>3. CASE ~ \E i \in 1..Len(k.snd_buf) : k.snd_buf[i].sn = sn
    <3>1. ParseAck(k, sn) = k
      BY <2>1, <2>3 DEF Block
    <3> QED BY <1>0, <3>1
  <2>4. CASE \E i \in 1..Len(k.snd_buf) : k.snd_buf[i].sn = sn
    <3> DEFINE m == Min(S)
               l == [k EXCEPT !.snd_buf = RemoveAt(k.snd_buf, m)]
    <3>1. ParseAck(k, sn) = l
      BY <2>1, <2>4
    <3>2. S \subseteq Nat /\ S # {}
      BY <2>2, <2>4
    <3>3. m \in S
      BY <3>2, MinFact
    <3>4. m \in 1..Len(k.snd_buf) /\ k.snd_buf[m].sn = sn
      BY <3>3
    <3> HIDE DEF m, S
    <3> DEFINE t == RemoveAt(k.snd_buf, m)
    <3>5. /\ t \in Seq(Piece) /\ Len(t) = Len(k.snd_buf) - 1
          /\ \A i \in 1..(Len(k.snd_buf) - 1) :
               t[i] = IF i < m THEN k.snd_buf[i] ELSE k.snd_buf[i + 1]
      BY <2>2, <3>4, RemoveAtFacts
    <3>6. l.snd_buf = t /\ SendsOnly(k, l)
      BY <3>5 DEF Block, SendsOnly
    <3> HIDE DEF l, t
    <3>7. \A i \in 1..Len(l.snd_buf) : \E j \in 1..Len(k.snd_buf) : l.snd_buf[i] = k.snd_buf[j]
      <4> TAKE i \in 1..Len(l.snd_buf)
      <4>1. i \in 1..Len(k.snd_buf) /\ i + 1 \in 1..Len(k.snd_buf)
        BY <2>2, <3>4, <3>5, <3>6
      <4> QED BY <2>2, <3>5, <3>6, <4>1
    <3>8. ASSUME NEW j \in 1..Len(k.snd_buf)
          PROVE  \/ \E i \in 1..Len(l.snd_buf) : l.snd_buf[i] = k.snd_buf[j]
                 \/ Has(b, o, k.snd_buf[j].sn)
      <4>1. CASE j < m
        <5>1. j \in 1..(Len(k.snd_buf) - 1)
          BY <2>2, <3>4, <4>1
        <5>2. t[j] = k.snd_buf[j] /\ j \in 1..Len(t)
          BY <3>5, <4>1, <5>1
        <5> QED BY <3>6, <5>2
      <4>2. CASE j > m
        <5>1. j - 1 \in 1..Len(l.snd_buf) /\ l.snd_buf[j - 1] = k.snd_buf[j]
          BY <2>2, <3>4, <3>5, <3>6, <4>2
        <5> QED BY <5>1
      <4>3. CASE j = m
        BY <3>4, <4>3
      <4> QED BY <3>4, <4>1, <4>2, <4>3
    <3>9. LinkOK(b, F, D, l, o)
      BY <3>6, <3>7, <3>8, LetGo DEF SendsOnly
    <3> QED BY <3>1, <3>6, <3>9
  <2> QED BY <2>3, <2>4
<1> QED BY <1>1, <1>2

LEMMA ShrinkBufOK ==
  ASSUME NEW k \in Block
  PROVE  SendsOnly(k, ShrinkBuf(k)) /\ ShrinkBuf(k).snd_buf = k.snd_buf
<1> DEFINE u == IF k.snd_buf = <<>> THEN k.snd_nxt ELSE Head(k.snd_buf).sn
<1>1. u \in Num
  <2>1. k.snd_buf \in Seq(Piece) /\ k.snd_nxt \in Num
    BY BlockFacts
  <2>2. k.snd_buf # <<>> => Head(k.snd_buf) \in Piece
    BY <2>1
  <2> QED BY <2>1, <2>2 DEF Piece
<1>2. ShrinkBuf(k) = [k EXCEPT !.snd_una = u]
  BY DEF ShrinkBuf
<1> HIDE DEF u
<1> QED BY <1>1, <1>2 DEF SendsOnly, Block

\* A step of the receiving half: the sending half stays, what arrived stays.
ReceivesOnly(b, k, l) ==
  /\ l \in Block
  /\ l.snd_nxt = k.snd_nxt /\ l.snd_queue = k.snd_queue /\ l.snd_buf = k.snd_buf
  /\ Grows(b, k, l)

LEMMA MoveReadyOK ==
  ASSUME NEW b \in Num, NEW F \in Seq(Frag), Fits(F), NEW D \in Nat, NEW s \in Block,
         NEW k \in Block, LinkOK(b, F, D, s, k)
  PROVE  LinkOK(b, F, D, s, MoveReady(k)) /\ ReceivesOnly(b, k, MoveReady(k))
<1> DEFINE S == {i \in 1..Len(k.rcv_buf) :
                   /\ Len(k.rcv_queue) + i <= RcvWnd
                   /\ \A j \in 1..i : k.rcv_buf[j].sn = (k.rcv_nxt + j - 1) % Word}
           n == Max({0} \cup S)
           l == [k EXCEPT !.rcv_queue = @ \o SubSeq(k.rcv_buf, 1, n),
                          !.rcv_buf = SubSeq(@, n + 1, Len(@)),
                          !.rcv_nxt = (@ + n) % Word]
           R == At(b, k.rcv_nxt)
           X == At(b, s.snd_nxt)
           B0 == k.rcv_buf
           Q0 == k.rcv_queue
           a(i) == At(b, B0[i].sn)
<1>1. MoveReady(k) = l
  BY DEF MoveReady
<1>2. /\ B0 \in Seq(Piece) /\ Len(B0) \in Nat /\ Q0 \in Seq(Piece) /\ Len(Q0) \in Nat
      /\ k.rcv_nxt \in Num
  BY BlockFacts
<1>3. /\ R \in Nat /\ X \in Nat /\ Len(F) \in Nat /\ R <= X /\ X <= Len(F)
      /\ \A i \in 1..Len(B0) : a(i) \in 0..(X - 1)
  BY LinkFacts
<1>4. RcvWnd \in Nat \ {0} /\ Word \in Nat \ {0} /\ 2 * (Len(F) + RcvWnd) <= Word
  BY Constants DEF Fits
<1>5. n \in 0..Len(B0) /\ (n > 0 => n \in S)
  BY <1>2, MaxPrefix
<1>6. n > 0 => Len(Q0) + n <= RcvWnd
  BY <1>5
<1>7. \A j \in 1..n : B0[j].sn = (k.rcv_nxt + j - 1) % Word
  BY <1>2, <1>5
<1> HIDE DEF n, S
<1>8. /\ QueueOK(b, F, D, k) /\ Numbered(b, F, B0, X) /\ BufferOK(b, k) /\ AcksOK(b, k)
      /\ SenderOK(b, F, s) /\ Covered(b, s, k)
  BY DEF LinkOK, ReceiverOK
<1>9. /\ D + Len(Q0) = R /\ Len(Q0) <= RcvWnd
      /\ \A i \in 1..Len(Q0) : Same(Q0[i], F[D + i])
  BY <1>8 DEF QueueOK
<1>10. /\ \A i \in 1..Len(B0) : a(i) >= R /\ a(i) < R + RcvWnd
       /\ \A i, j \in 1..Len(B0) : i < j => a(i) < a(j)
  BY <1>8 DEF BufferOK
<1>11. \A i \in 1..Len(B0) : a(i) < X /\ Same(B0[i], F[a(i) + 1])
  BY <1>8 DEF Numbered
<1>12. \A j \in 1..n : a(j) = R + j - 1
  <2> TAKE j \in 1..n
  <2>1. j - 1 \in Nat /\ k.rcv_nxt + j - 1 = k.rcv_nxt + (j - 1) /\ R + (j - 1) < Word
    BY <1>2, <1>3, <1>4, <1>5, <1>6 DEF Num
  <2>2. At(b, (k.rcv_nxt + (j - 1)) % Word) = R + (j - 1)
    BY <1>2, <2>1, AtPlus
  <2>3. R + (j - 1) = R + j - 1
    BY <1>3
  <2> QED BY <1>7, <2>1, <2>2, <2>3
<1>13. R + n < Word /\ R + n <= X /\ n \in Nat
  <2>1. n \in Nat
    BY <1>2, <1>5
  <2>2. CASE n = 0
    BY <1>3, <1>4, <2>2
  <2>3. CASE n > 0
    <3>1. n \in 1..n /\ n \in 1..Len(B0)
      BY <1>2, <1>5, <2>1, <2>3
    <3>2. R + n - 1 < X
      BY <3>1, <1>12, <1>11
    <3> QED BY <1>3, <1>4, <2>1, <3>2
  <2> QED BY <2>1, <2>2, <2>3
<1> DEFINE BN == SubSeq(B0, n + 1, Len(B0))
           M == SubSeq(B0, 1, n)
           QN == Q0 \o M
           RN == (k.rcv_nxt + n) % Word
<1>14. RN \in Num /\ At(b, RN) = R + n
  BY <1>2, <1>13, AtPlus
<1>15. /\ BN \in Seq(Piece) /\ Len(BN) = Len(B0) - n
       /\ \A i \in 1..(Len(B0) - n) : BN[i] = B0[n + i] /\ n + i \in 1..Len(B0)
  BY <1>2, <1>5
<1>16. M \in Seq(Piece) /\ Len(M) = n /\ \A i \in 1..n : M[i] = B0[i]
  BY <1>2, <1>5
<1> HIDE DEF M
<1>17. QN \in Seq(Piece) /\ Len(QN) = Len(Q0) + Len(M)
  BY <1>2, <1>16, ConcatProperties
<1>18. \A i \in 1..Len(Q0) : QN[i] = Q0[i]
  BY <1>2, <1>16, ConcatProperties
<1>19. \A i \in 1..n : QN[Len(Q0) + i] = B0[i]
  <2> TAKE i \in 1..n
  <2>1. Len(Q0) + i \in (Len(Q0) + 1)..(Len(Q0) + Len(M)) /\ Len(Q0) + i - Len(Q0) = i
    BY <1>2, <1>13, <1>16
  <2>2. QN[Len(Q0) + i] = M[Len(Q0) + i - Len(Q0)]
    BY <1>2, <1>16, <2>1, ConcatProperties
  <2> QED BY <1>16, <2>1, <2>2
<1>20. /\ l \in Block /\ l.rcv_buf = BN /\ l.rcv_queue = QN /\ l.rcv_nxt = RN
       /\ l.snd_nxt = k.snd_nxt /\ l.snd_queue = k.snd_queue /\ l.snd_buf = k.snd_buf
       /\ l.acklist = k.acklist
  BY <1>14, <1>15, <1>17 DEF Block, M
<1> HIDE DEF l, BN, QN, RN, R, X, B0, Q0
<1>21. QueueOK(b, F, D, l)
  <2>1. D + Len(QN) = R + n
    BY <1>2, <1>9, <1>13, <1>16, <1>17
  <2>2. Len(QN) <= RcvWnd
    BY <1>2, <1>6, <1>9, <1>13, <1>16, <1>17
  <2>3. ASSUME NEW i \in 1..Len(QN) PROVE Same(QN[i], F[D + i])
    <3>1. CASE i <= Len(Q0)
      <4>1. i \in 1..Len(Q0)
        BY <1>2, <3>1
      <4> QED BY <1>9, <1>18, <4>1
    <3>2. CASE i > Len(Q0)
      <4> DEFINE j == i - Len(Q0)
      <4>1. j \in 1..n /\ Len(Q0) + j = i /\ j \in 1..Len(B0)
        BY <1>2, <1>5, <1>13, <1>16, <1>17, <3>2
      <4>2. a(j) + 1 = D + i
        <5>1. a(j) = R + j - 1
          BY <4>1, <1>12
        <5>2. R = D + Len(Q0)
          BY <1>9
        <5> QED BY <5>1, <5>2, <1>2, <1>3, <4>1
      <4> HIDE DEF j
      <4>3. QN[i] = B0[j]
        BY <4>1, <1>19
      <4> QED BY <4>1, <4>2, <4>3, <1>11
    <3> QED BY <1>2, <3>1, <3>2
  <2> QED BY <2>1, <2>2, <2>3, <1>14, <1>20 DEF QueueOK
<1>22. Numbered(b, F, BN, X)
  BY <1>11, <1>15 DEF Numbered
<1>23. BufferOK(b, l)
  <2>1. ASSUME NEW i \in 1..Len(BN)
        PROVE  At(b, BN[i].sn) >= R + n /\ At(b, BN[i].sn) < R + n + RcvWnd
    <3>0. i \in 1..(Len(B0) - n) /\ i \in Nat /\ i > 0
      BY <1>15
    <3>1. n + i \in 1..Len(B0) /\ BN[i] = B0[n + i] /\ n + i > n
      BY <1>13, <1>15, <3>0
    <3>2. a(n + i) >= R /\ a(n + i) < R + RcvWnd /\ a(n + i) \in Nat
      BY <3>1, <1>3, <1>10
    <3>3. CASE n = 0
      BY <1>3, <1>4, <3>1, <3>2, <3>3
    <3>4. CASE n > 0
      <4>1. n \in 1..n /\ n \in 1..Len(B0)
        BY <1>2, <1>5, <1>13, <3>4
      <4>2. a(n) = R + n - 1
        BY <4>1, <1>12
      <4>3. a(n) < a(n + i)
        BY <4>1, <3>1, <1>10
      <4> DEFINE c == a(n + i)
      <4>4. c \in Nat /\ c < R + RcvWnd /\ R + n - 1 < c
        BY <3>2, <4>2, <4>3
      <4>5. At(b, BN[i].sn) = c
        BY <3>1
      <4> HIDE DEF c
      <4>6. c >= R + n /\ c < R + n + RcvWnd
        BY <1>3, <1>4, <1>13, <4>4
      <4> QED BY <4>5, <4>6
    <3> QED BY <1>13, <3>3, <3>4
  <2>2. ASSUME NEW i \in 1..Len(BN), NEW j \in 1..Len(BN), i < j
        PROVE  At(b, BN[i].sn) < At(b, BN[j].sn)
    <3>1. n + i \in 1..Len(B0) /\ BN[i] = B0[n + i] /\ n + j \in 1..Len(B0) /\ BN[j] = B0[n + j]
          /\ n + i < n + j
      BY <1>13, <1>15, <2>2
    <3> QED BY <3>1, <1>10
  <2> QED BY <2>1, <2>2, <1>14, <1>20 DEF BufferOK
<1>24. ASSUME NEW c \in Nat, Holds(b, B0, c) PROVE c < R + n \/ Holds(b, BN, c)
  <2>1. PICK i \in 1..Len(B0) : a(i) = c
    BY <1>24 DEF Holds
  <2>2. CASE i <= n
    <3>1. i \in 1..n
      BY <1>13, <2>2
    <3> QED BY <2>1, <3>1, <1>3, <1>12, <1>13
  <2>3. CASE i > n
    <3>1. i - n \in 1..(Len(B0) - n) /\ n + (i - n) = i
      BY <1>2, <1>13, <2>3
    <3>2. BN[i - n] = B0[i]
      BY <3>1, <1>15
    <3> QED BY <2>1, <3>1, <3>2, <1>15 DEF Holds
  <2> QED BY <1>13, <2>2, <2>3
<1>25. ASSUME NEW x \in Num, Has(b, k, x) PROVE Has(b, l, x)
  <2>1. At(b, x) \in Nat
    BY AtNat
  <2>2. At(b, x) < R \/ Holds(b, B0, At(b, x))
    BY <1>25 DEF Has, R, B0
  <2>3. At(b, x) < R + n \/ Holds(b, BN, At(b, x))
    BY <2>1, <2>2, <1>3, <1>13, <1>24
  <2> QED BY <2>3, <1>14, <1>20 DEF Has
<1>26. AcksOK(b, l)
  <2> SUFFICES ASSUME NEW i \in 1..Len(k.acklist) PROVE Has(b, l, k.acklist[i])
    BY <1>20 DEF AcksOK
  <2>1. k.acklist[i] \in Num /\ Has(b, k, k.acklist[i])
    BY <1>8, BlockFacts DEF AcksOK
  <2> QED BY <2>1, <1>25
<1>27. Covered(b, s, l)
  <2> SUFFICES ASSUME NEW c \in (R + n)..(X - 1)
               PROVE  Holds(b, s.snd_buf, c) \/ Holds(b, BN, c)
    BY <1>14, <1>20 DEF Covered, X
  <2>1. c \in R..(X - 1) /\ c \in Nat /\ ~ (c < R + n)
    BY <1>3, <1>13
  <2>2. Holds(b, s.snd_buf, c) \/ Holds(b, B0, c)
    BY <2>1, <1>8 DEF Covered, R, X, B0
  <2> QED BY <2>1, <2>2, <1>24
<1>28. LinkOK(b, F, D, s, l)
  <2>1. At(b, l.rcv_nxt) <= At(b, s.snd_nxt)
    BY <1>13, <1>14, <1>20 DEF X
  <2>2. Numbered(b, F, l.rcv_buf, At(b, s.snd_nxt))
    BY <1>20, <1>22 DEF X
  <2> QED BY <2>1, <2>2, <1>8, <1>21, <1>23, <1>26, <1>27 DEF LinkOK, ReceiverOK
<1>29. ReceivesOnly(b, k, l)
  <2>1. At(b, k.rcv_nxt) <= At(b, l.rcv_nxt)
    BY <1>3, <1>13, <1>14, <1>20 DEF R
  <2>2. At(b, k.snd_nxt) <= At(b, l.snd_nxt)
    BY <1>20, BlockFacts, AtNat
  <2> QED BY <1>20, <1>25, <2>1, <2>2 DEF ReceivesOnly, Grows
<1> QED BY <1>1, <1>28, <1>29

LEMMA AckPushOK ==
  ASSUME NEW b \in Num, NEW F, NEW D, NEW s, NEW k \in Block, LinkOK(b, F, D, s, k),
         NEW sn \in Num, Has(b, k, sn)
  PROVE  LinkOK(b, F, D, s, AckPush(k, sn)) /\ ReceivesOnly(b, k, AckPush(k, sn))
<1> DEFINE l == AckPush(k, sn)
           q == Append(k.acklist, sn)
<1>1. k.acklist \in Seq(Num) /\ Len(k.acklist) \in Nat
  BY BlockFacts
<1>2. /\ q \in Seq(Num) /\ Len(q) = Len(k.acklist) + 1 /\ q[Len(k.acklist) + 1] = sn
      /\ \A i \in 1..Len(k.acklist) : q[i] = k.acklist[i]
  BY <1>1, AppendProperties
<1>3. /\ l \in Block /\ l.acklist = q /\ l.rcv_nxt = k.rcv_nxt /\ l.rcv_buf = k.rcv_buf
      /\ l.rcv_queue = k.rcv_queue
      /\ l.snd_nxt = k.snd_nxt /\ l.snd_queue = k.snd_queue /\ l.snd_buf = k.snd_buf
  BY <1>2 DEF AckPush, Block
<1> HIDE DEF l, q
<1>4. /\ SenderOK(b, F, s) /\ ReceiverOK(b, F, At(b, s.snd_nxt), D, k) /\ Covered(b, s, k)
  BY DEF LinkOK
<1>5. AcksOK(b, l)
  <2> SUFFICES ASSUME NEW i \in 1..Len(q) PROVE Has(b, k, q[i])
    BY <1>3 DEF AcksOK, Has
  <2>1. CASE i = Len(k.acklist) + 1
    BY <1>2, <2>1
  <2>2. CASE i \in 1..Len(k.acklist)
    BY <1>2, <1>4, <2>2 DEF ReceiverOK, AcksOK
  <2> QED BY <1>1, <1>2, <2>1, <2>2
<1>6. ReceiverOK(b, F, At(b, s.snd_nxt), D, l)
  BY <1>3, <1>4, <1>5 DEF ReceiverOK, QueueOK, BufferOK
<1>7. Covered(b, s, l)
  BY <1>3, <1>4 DEF Covered
<1>8. Grows(b, k, l)
  BY <1>3, GrowsSame
<1>9. l = AckPush(k, sn)
  BY DEF l
<1> QED BY <1>3, <1>4, <1>6, <1>7, <1>8, <1>9 DEF LinkOK, ReceivesOnly

LEMMA InsertOK ==
  ASSUME NEW b \in Num, NEW F \in Seq(Frag), NEW D, NEW s \in Block, NEW k \in Block,
         LinkOK(b, F, D, s, k), NEW m \in 1..(Len(k.rcv_buf) + 1), NEW e \in Piece,
         At(b, e.sn) >= At(b, k.rcv_nxt), At(b, e.sn) < At(b, k.rcv_nxt) + RcvWnd,
         At(b, e.sn) < At(b, s.snd_nxt), Same(e, F[At(b, e.sn) + 1]),
         \A i \in 1..(m - 1) : At(b, k.rcv_buf[i].sn) < At(b, e.sn),
         \A i \in m..Len(k.rcv_buf) : At(b, k.rcv_buf[i].sn) > At(b, e.sn)
  PROVE  LET l == [k EXCEPT !.rcv_buf = InsertAt(@, m, e)]
         IN  LinkOK(b, F, D, s, l) /\ ReceivesOnly(b, k, l) /\ Has(b, l, e.sn)
<1> DEFINE B0 == k.rcv_buf
           BN == InsertAt(B0, m, e)
           l == [k EXCEPT !.rcv_buf = BN]
           old(i) == IF i < m THEN i ELSE i - 1
<1>1. B0 \in Seq(Piece) /\ Len(B0) \in Nat /\ m \in Nat
  BY BlockFacts
<1>2. /\ BN \in Seq(Piece) /\ Len(BN) = Len(B0) + 1 /\ BN[m] = e
      /\ \A i \in 1..(m - 1) : BN[i] = B0[i]
      /\ \A i \in m..Len(B0) : BN[i + 1] = B0[i]
  <2>1. m \in 1..(Len(B0) + 1) /\ B0 \in Seq(Piece)
    BY <1>1
  <2> HIDE DEF B0
  <2> QED BY <2>1, InsertAtFacts
<1>3. /\ l \in Block /\ l.rcv_buf = BN /\ l.rcv_nxt = k.rcv_nxt /\ l.rcv_queue = k.rcv_queue
      /\ l.snd_nxt = k.snd_nxt /\ l.snd_queue = k.snd_queue /\ l.snd_buf = k.snd_buf
      /\ l.acklist = k.acklist
  BY <1>2 DEF Block
<1>3a. l = [k EXCEPT !.rcv_buf = InsertAt(@, m, e)]
  OBVIOUS
<1> HIDE DEF l, BN
<1>4. /\ SenderOK(b, F, s) /\ ReceiverOK(b, F, At(b, s.snd_nxt), D, k) /\ Covered(b, s, k)
  BY DEF LinkOK
<1>5. /\ QueueOK(b, F, D, k) /\ Numbered(b, F, B0, At(b, s.snd_nxt)) /\ BufferOK(b, k)
      /\ AcksOK(b, k) /\ At(b, k.rcv_nxt) <= At(b, s.snd_nxt)
  BY <1>4 DEF ReceiverOK
<1>6. \A i \in 1..Len(BN) : i # m => old(i) \in 1..Len(B0) /\ BN[i] = B0[old(i)]
  <2> SUFFICES ASSUME NEW i \in 1..Len(BN), i # m
               PROVE  old(i) \in 1..Len(B0) /\ BN[i] = B0[old(i)]
    OBVIOUS
  <2>1. CASE i < m
    <3>1. i \in 1..(m - 1) /\ i \in 1..Len(B0) /\ old(i) = i
      BY <1>1, <1>2, <2>1
    <3> HIDE DEF old
    <3> QED BY <1>2, <3>1
  <2>2. CASE i > m
    <3>1. i - 1 \in m..Len(B0) /\ i - 1 \in 1..Len(B0) /\ old(i) = i - 1 /\ (i - 1) + 1 = i
      BY <1>1, <1>2, <2>2
    <3> HIDE DEF old
    <3> QED BY <1>2, <3>1
  <2> QED BY <1>1, <1>2, <2>1, <2>2
<1>7. \A i \in 1..Len(B0) : \E j \in 1..Len(BN) : BN[j] = B0[i]
  <2> TAKE i \in 1..Len(B0)
  <2>1. CASE i < m
    <3>1. i \in 1..(m - 1) /\ i \in 1..Len(BN)
      BY <1>1, <1>2, <2>1
    <3> QED BY <1>2, <3>1
  <2>2. CASE i >= m
    <3>1. i \in m..Len(B0) /\ i + 1 \in 1..Len(BN)
      BY <1>1, <1>2, <2>2
    <3> QED BY <1>2, <3>1
  <2> QED BY <1>1, <2>1, <2>2
<1>8. \A c : Holds(b, B0, c) => Holds(b, BN, c)
  BY <1>7 DEF Holds
<1>9. m \in 1..Len(BN)
  BY <1>1, <1>2
<1>10. Has(b, l, e.sn)
  BY <1>2, <1>3, <1>9 DEF Has, Holds
<1>11. Numbered(b, F, BN, At(b, s.snd_nxt))
  <2> SUFFICES ASSUME NEW i \in 1..Len(BN)
               PROVE  /\ At(b, BN[i].sn) < At(b, s.snd_nxt)
                      /\ Same(BN[i], F[At(b, BN[i].sn) + 1])
    BY DEF Numbered
  <2>1. CASE i = m
    BY <1>2, <2>1
  <2>2. CASE i # m
    <3>1. old(i) \in 1..Len(B0) /\ BN[i] = B0[old(i)]
      BY <1>6, <2>2
    <3> HIDE DEF old
    <3> QED BY <1>5, <3>1 DEF Numbered
  <2> QED BY <2>1, <2>2
<1>12. BufferOK(b, l)
  <2>1. ASSUME NEW i \in 1..Len(BN)
        PROVE  /\ At(b, BN[i].sn) >= At(b, k.rcv_nxt)
               /\ At(b, BN[i].sn) < At(b, k.rcv_nxt) + RcvWnd
    <3>1. CASE i = m
      BY <1>2, <3>1
    <3>2. CASE i # m
      <4>1. old(i) \in 1..Len(B0) /\ BN[i] = B0[old(i)]
        BY <1>6, <3>2
      <4> HIDE DEF old
      <4> QED BY <1>5, <4>1 DEF BufferOK
    <3> QED BY <3>1, <3>2
  <2>2. ASSUME NEW i \in 1..Len(BN), NEW j \in 1..Len(BN), i < j
        PROVE  At(b, BN[i].sn) < At(b, BN[j].sn)
    <3>0. i \in Nat /\ j \in Nat
      BY <1>1, <1>2
    <3>1. CASE i # m /\ j # m
      <4>1. /\ old(i) \in 1..Len(B0) /\ BN[i] = B0[old(i)]
            /\ old(j) \in 1..Len(B0) /\ BN[j] = B0[old(j)]
        BY <1>6, <3>1
      <4>2. old(i) < old(j)
        BY <1>1, <3>0, <3>1, <2>2
      <4> HIDE DEF old
      <4> QED BY <1>5, <4>1, <4>2 DEF BufferOK
    <3>2. CASE i = m
      <4>1. j # m /\ j - 1 \in m..Len(B0) /\ (j - 1) + 1 = j
        BY <1>1, <1>2, <3>0, <3>2, <2>2
      <4>2. BN[j] = B0[j - 1]
        BY <1>2, <4>1
      <4>3. At(b, B0[j - 1].sn) > At(b, e.sn)
        BY <4>1
      <4>4. At(b, B0[j - 1].sn) \in Nat /\ At(b, e.sn) \in Nat
        <5>1. j - 1 \in 1..Len(B0) /\ e.sn \in Num
          BY <1>1, <3>0, <4>1 DEF Piece
        <5> QED BY <5>1, BlockFacts, AtNat
      <4> QED BY <1>2, <3>2, <4>2, <4>3, <4>4
    <3>3. CASE j = m
      <4>1. i \in 1..(m - 1)
        BY <1>1, <3>0, <3>3, <2>2
      <4> QED BY <1>2, <3>3, <4>1
    <3> QED BY <3>1, <3>2, <3>3
  <2> QED BY <2>1, <2>2, <1>3 DEF BufferOK
<1>13. ASSUME NEW x \in Num, Has(b, k, x) PROVE Has(b, l, x)
  BY <1>13, <1>3, <1>8 DEF Has
<1>14. AcksOK(b, l)
  <2> SUFFICES ASSUME NEW i \in 1..Len(k.acklist) PROVE Has(b, l, k.acklist[i])
    BY <1>3 DEF AcksOK
  <2>1. k.acklist[i] \in Num /\ Has(b, k, k.acklist[i])
    BY <1>5, BlockFacts DEF AcksOK
  <2> QED BY <2>1, <1>13
<1>15. Covered(b, s, l)
  BY <1>3, <1>4, <1>8 DEF Covered
<1>16. QueueOK(b, F, D, l)
  BY <1>3, <1>5 DEF QueueOK
<1>17. LinkOK(b, F, D, s, l)
  BY <1>3, <1>4, <1>5, <1>11, <1>12, <1>14, <1>15, <1>16 DEF LinkOK, ReceiverOK
<1>18. ReceivesOnly(b, k, l)
  <2>1. At(b, k.rcv_nxt) \in Nat /\ At(b, k.snd_nxt) \in Nat
    BY BlockFacts, AtNat
  <2> QED BY <1>3, <1>13, <2>1 DEF ReceivesOnly, Grows
<1> QED BY <1>3a, <1>10, <1>17, <1>18

LEMMA ReceivesTrans ==
  ASSUME NEW b \in Num, NEW k \in Block, NEW l, NEW m,
         ReceivesOnly(b, k, l), ReceivesOnly(b, l, m)
  PROVE  ReceivesOnly(b, k, m)
<1>1. l \in Block /\ m \in Block /\ Grows(b, k, l) /\ Grows(b, l, m)
  BY DEF ReceivesOnly
<1>2. Grows(b, k, m)
  BY <1>1, GrowsTrans
<1> QED BY <1>1, <1>2 DEF ReceivesOnly

LEMMA InputPushOK ==
  ASSUME NEW b \in Num, NEW F \in Seq(Frag), Fits(F), NEW D \in Nat, NEW s \in Block,
         NEW k \in Block, LinkOK(b, F, D, s, k), NEW g \in Seg, g.cmd = "PUSH",
         SegOK(b, F, s, g)
  PROVE  LinkOK(b, F, D, s, InputPush(k, g)) /\ ReceivesOnly(b, k, InputPush(k, g))
<1> DEFINE a == At(b, g.sn)
           R == At(b, k.rcv_nxt)
           X == At(b, s.snd_nxt)
           below == Max({0} \cup {i \in 1..Len(k.rcv_buf) : Diff(g.sn, k.rcv_buf[i].sn) >= 0})
           repeat == below > 0 /\ k.rcv_buf[below].sn = g.sn
           new == [sn |-> g.sn, frg |-> g.frg, data |-> g.data]
           kn == [k EXCEPT !.rcv_buf = InsertAt(@, below + 1, new)]
<1>1. /\ g.sn \in Num /\ g.frg \in Nat /\ k.rcv_nxt \in Num /\ k.rcv_buf \in Seq(Piece)
      /\ Len(k.rcv_buf) \in Nat
  BY BlockFacts DEF Seg
<1>2. a < X /\ Same(g, F[a + 1])
  BY DEF SegOK
<1>3. /\ R \in Nat /\ X \in Nat /\ Len(F) \in Nat /\ R <= X /\ X <= Len(F) /\ a \in Nat
      /\ \A i \in 1..Len(k.rcv_buf) : At(b, k.rcv_buf[i].sn) \in 0..(X - 1)
  BY LinkFacts, <1>1, AtNat
<1>4. RcvWnd \in Nat \ {0}
  BY Constants
<1>5. Diff(g.sn, k.rcv_nxt) = a - R /\ Diff(g.sn, k.rcv_nxt + RcvWnd) = a - R - RcvWnd
  <2>1. a <= Len(F) /\ R <= Len(F)
    BY <1>2, <1>3
  <2> QED BY <1>1, <2>1, DiffInSession
<1>6. CASE Diff(g.sn, k.rcv_nxt + RcvWnd) >= 0
  <2>1. InputPush(k, g) = k
    BY <1>6 DEF InputPush
  <2>2. ReceivesOnly(b, k, k)
    BY GrowsSame DEF ReceivesOnly
  <2> QED BY <2>1, <2>2
<1>7. CASE ~ (Diff(g.sn, k.rcv_nxt + RcvWnd) >= 0) /\ ~ (Diff(g.sn, k.rcv_nxt) >= 0)
  <2>1. InputPush(k, g) = AckPush(k, g.sn)
    BY <1>7 DEF InputPush
  <2>2. a < R
    BY <1>3, <1>4, <1>5, <1>7
  <2>3. Has(b, k, g.sn)
    BY <2>2 DEF Has
  <2> QED BY <1>1, <2>1, <2>3, AckPushOK
<1>8. CASE ~ (Diff(g.sn, k.rcv_nxt + RcvWnd) >= 0) /\ Diff(g.sn, k.rcv_nxt) >= 0
  <2>0. a >= R /\ a < R + RcvWnd
    BY <1>3, <1>4, <1>5, <1>8
  <2>1. /\ AckPush(k, g.sn).rcv_buf = k.rcv_buf /\ AckPush(k, g.sn).rcv_nxt = k.rcv_nxt
        /\ InputPush(k, g) = ParseData(AckPush(k, g.sn), g)
    BY <1>8 DEF InputPush, AckPush, Block
  <2>2. InputPush(k, g) = MoveReady(IF repeat THEN AckPush(k, g.sn)
                     ELSE [AckPush(k, g.sn) EXCEPT !.rcv_buf = InsertAt(@, below + 1, new)])
    <3>1. ~ (Diff(g.sn, k.rcv_nxt) < 0)
      BY <1>3, <1>5, <2>0
    <3> QED BY <1>8, <2>1, <3>1 DEF ParseData
  <2>3. [AckPush(k, g.sn) EXCEPT !.rcv_buf = InsertAt(@, below + 1, new)] = AckPush(kn, g.sn)
    BY <2>1 DEF AckPush, Block
  <2> DEFINE S == {i \in 1..Len(k.rcv_buf) : Diff(g.sn, k.rcv_buf[i].sn) >= 0}
  <2>4. below \in 0..Len(k.rcv_buf) /\ (below > 0 => below \in S) /\ \A i \in S : i <= below
    BY <1>1, MaxPrefix
  <2>5. \A i \in 1..Len(k.rcv_buf) : /\ k.rcv_buf[i].sn \in Num
                                     /\ Diff(g.sn, k.rcv_buf[i].sn) = a - At(b, k.rcv_buf[i].sn)
    <3> TAKE i \in 1..Len(k.rcv_buf)
    <3>1. k.rcv_buf[i].sn \in Num
      BY BlockFacts
    <3>2. a <= Len(F) /\ At(b, k.rcv_buf[i].sn) <= Len(F)
      BY <1>2, <1>3
    <3> QED BY <1>1, <3>1, <3>2, DiffInSession
  <2> HIDE DEF below
  <2>6. CASE repeat
    <3>1. below \in 1..Len(k.rcv_buf)
      BY <1>1, <2>4, <2>6
    <3>2. Has(b, k, g.sn)
      BY <2>6, <3>1 DEF Has, Holds
    <3> DEFINE l == AckPush(k, g.sn)
    <3>3. LinkOK(b, F, D, s, l) /\ ReceivesOnly(b, k, l)
      BY <1>1, <3>2, AckPushOK
    <3>4. InputPush(k, g) = MoveReady(l)
      BY <2>2, <2>6
    <3> HIDE DEF l
    <3>5. l \in Block
      BY <3>3 DEF ReceivesOnly
    <3>6. LinkOK(b, F, D, s, MoveReady(l)) /\ ReceivesOnly(b, l, MoveReady(l))
      BY <3>3, <3>5, MoveReadyOK
    <3> QED BY <3>3, <3>4, <3>6, ReceivesTrans
  <2>7. CASE ~ repeat
    <3>1. new \in Piece /\ new.sn = g.sn /\ Same(new, F[a + 1])
      <4>1. a + 1 \in 1..Len(F)
        BY <1>2, <1>3
      <4>1a. \A i \in 1..Len(F) : F[i] \in Frag
        OBVIOUS
      <4>1b. F[a + 1] \in Frag
        BY <4>1, <4>1a, Zenon
      <4>2. F[a + 1].data \in Data
        BY <4>1b DEF Frag
      <4>3. g.data \in Data
        BY <1>2, <4>2 DEF Same
      <4> QED BY <1>1, <1>2, <4>3 DEF Piece, Same
    <3>2. ASSUME NEW i \in 1..Len(k.rcv_buf), i <= below
          PROVE  At(b, k.rcv_buf[i].sn) < a
      <4>1. below \in 1..Len(k.rcv_buf) /\ below > 0 /\ below \in S
        BY <1>1, <2>4, <3>2
      <4> DEFINE c == At(b, k.rcv_buf[below].sn)
                 d == At(b, k.rcv_buf[i].sn)
      <4>2. c \in Nat /\ d \in Nat
        BY <1>3, <4>1
      <4>3. a - c >= 0
        BY <2>5, <4>1
      <4>4. k.rcv_buf[below].sn # g.sn
        BY <2>7, <4>1
      <4>5. c # a
        BY <4>4, <4>1, <2>5, <1>1, AtInjective
      <4>6. i < below => d < c
        BY <4>1 DEF LinkOK, ReceiverOK, BufferOK
      <4>7. i = below => d = c
        OBVIOUS
      <4> HIDE DEF c, d
      <4>8. d < a
        BY <1>1, <1>3, <3>2, <4>1, <4>2, <4>3, <4>5, <4>6, <4>7
      <4> QED BY <4>8 DEF d
    <3>3. ASSUME NEW i \in 1..Len(k.rcv_buf), i > below
          PROVE  At(b, k.rcv_buf[i].sn) > a
      <4>1. i \notin S
        BY <1>1, <2>4, <3>3
      <4>2. ~ (a - At(b, k.rcv_buf[i].sn) >= 0)
        BY <2>5, <4>1
      <4> QED BY <1>3, <4>2
    <3>4. below + 1 \in 1..(Len(k.rcv_buf) + 1) /\ below \in Nat
      BY <1>1, <2>4
    <3>5. /\ \A i \in 1..((below + 1) - 1) : At(b, k.rcv_buf[i].sn) < At(b, new.sn)
          /\ \A i \in (below + 1)..Len(k.rcv_buf) : At(b, k.rcv_buf[i].sn) > At(b, new.sn)
      <4>1. \A i \in 1..((below + 1) - 1) : i \in 1..Len(k.rcv_buf) /\ i <= below
        BY <1>1, <2>4
      <4>2. \A i \in (below + 1)..Len(k.rcv_buf) : i \in 1..Len(k.rcv_buf) /\ i > below
        BY <1>1, <2>4
      <4> QED BY <3>1, <3>2, <3>3, <4>1, <4>2
    <3>6. /\ At(b, new.sn) >= At(b, k.rcv_nxt) /\ At(b, new.sn) < At(b, k.rcv_nxt) + RcvWnd
          /\ At(b, new.sn) < At(b, s.snd_nxt) /\ Same(new, F[At(b, new.sn) + 1])
      BY <1>2, <2>0, <3>1
    <3> HIDE DEF new
    <3>7. LinkOK(b, F, D, s, kn) /\ ReceivesOnly(b, k, kn) /\ Has(b, kn, new.sn)
      BY <3>1, <3>4, <3>5, <3>6, InsertOK
    <3> HIDE DEF kn
    <3>8. kn \in Block
      BY <3>7 DEF ReceivesOnly
    <3> DEFINE l == AckPush(kn, g.sn)
    <3>9. LinkOK(b, F, D, s, l) /\ ReceivesOnly(b, kn, l)
      BY <1>1, <3>1, <3>7, <3>8, AckPushOK
    <3>10. InputPush(k, g) = MoveReady(l)
      BY <2>2, <2>3, <2>7
    <3> HIDE DEF l
    <3>11. l \in Block
      BY <3>9 DEF ReceivesOnly
    <3>12. LinkOK(b, F, D, s, MoveReady(l)) /\ ReceivesOnly(b, l, MoveReady(l))
      BY <3>9, <3>11, MoveReadyOK
    <3>13. ReceivesOnly(b, k, l)
      BY <3>7, <3>9, ReceivesTrans
    <3> QED BY <3>10, <3>12, <3>13, ReceivesTrans
  <2> QED BY <2>6, <2>7
<1> QED BY <1>6, <1>7, <1>8

\* The block k and its peer o: both directions, with what has been read.
PairOK(b, F, D, G, E, o, k) ==
  k \in Block /\ LinkOK(b, F, D, o, k) /\ LinkOK(b, G, E, k, o)

LEMMA InputSegmentOK ==
  ASSUME NEW b \in Num, NEW F \in Seq(Frag), Fits(F), NEW D \in Nat, NEW G \in Seq(Frag),
         Fits(G), NEW E \in Nat, NEW o \in Block, NEW k, PairOK(b, F, D, G, E, o, k),
         NEW g \in Seg, SegOK(b, F, o, g)
  PROVE  /\ PairOK(b, F, D, G, E, o, InputSegment(k, g))
         /\ Grows(b, k, InputSegment(k, g))
<1> DEFINE k1 == [k EXCEPT !.rmt_wnd = g.wnd]
           k2 == ParseUna(k1, g.una)
           k3 == ShrinkBuf(k2)
<1>0. k \in Block /\ LinkOK(b, F, D, o, k) /\ LinkOK(b, G, E, k, o)
  BY DEF PairOK
<1>1. /\ g.una \in Num /\ g.sn \in Num /\ g.wnd \in 0..RcvWnd
      /\ g.cmd \in {"ACK", "PUSH", "WASK", "WINS"} /\ At(b, g.una) <= At(b, o.rcv_nxt)
  BY DEF Seg, SegOK
<1>2. SendsOnly(k, k1) /\ k1.snd_buf = k.snd_buf
  BY <1>0, <1>1 DEF SendsOnly, Block
<1>3. InputSegment(k, g) = CASE g.cmd = "ACK"  -> ShrinkBuf(ParseAck(k3, g.sn))
                             [] g.cmd = "PUSH" -> InputPush(k3, g)
                             [] g.cmd = "WASK" -> [k3 EXCEPT !.probe = @ \cup {"tell"}]
                             [] g.cmd = "WINS" -> k3
  BY DEF InputSegment
<1> HIDE DEF k1
<1>4. k1 \in Block /\ LinkOK(b, G, E, k1, o)
  BY <1>0, <1>2, SenderSame DEF SendsOnly
<1>5. LinkOK(b, G, E, k2, o) /\ SendsOnly(k1, k2)
  BY <1>1, <1>4, ParseUnaOK
<1> HIDE DEF k2
<1>6. k2 \in Block
  BY <1>5 DEF SendsOnly
<1>7. SendsOnly(k2, k3) /\ k3.snd_buf = k2.snd_buf
  BY <1>6, ShrinkBufOK
<1> HIDE DEF k3
<1>8. SendsOnly(k, k3) /\ k3 \in Block
  BY <1>2, <1>5, <1>7 DEF SendsOnly
<1>9. LinkOK(b, G, E, k3, o)
  BY <1>5, <1>7, SenderSame DEF SendsOnly
<1>10. \A l : SendsOnly(k, l) => Grows(b, k, l) /\ LinkOK(b, F, D, o, l)
  <2> SUFFICES ASSUME NEW l, SendsOnly(k, l) PROVE Grows(b, k, l) /\ LinkOK(b, F, D, o, l)
    OBVIOUS
  <2>1. Grows(b, k, l)
    BY <1>0, GrowsSame DEF SendsOnly
  <2>2. LinkOK(b, F, D, o, l)
    BY <1>0, ReceiverSame DEF SendsOnly
  <2> QED BY <2>1, <2>2
<1>11. CASE g.cmd = "ACK"
  <2> DEFINE k4 == ParseAck(k3, g.sn)
             k5 == ShrinkBuf(k4)
  <2>1. InputSegment(k, g) = k5
    BY <1>3, <1>11
  <2>2. Has(b, o, g.sn)
    BY <1>11 DEF SegOK
  <2>3. LinkOK(b, G, E, k4, o) /\ SendsOnly(k3, k4)
    BY <1>1, <1>8, <1>9, <2>2, ParseAckOK
  <2> HIDE DEF k4
  <2>4. k4 \in Block
    BY <2>3 DEF SendsOnly
  <2>5. SendsOnly(k4, k5) /\ k5.snd_buf = k4.snd_buf
    BY <2>4, ShrinkBufOK
  <2> HIDE DEF k5
  <2>6. LinkOK(b, G, E, k5, o)
    BY <2>3, <2>5, SenderSame DEF SendsOnly
  <2>7. SendsOnly(k, k5) /\ k5 \in Block
    BY <1>8, <2>3, <2>5 DEF SendsOnly
  <2> QED BY <1>10, <2>1, <2>6, <2>7 DEF PairOK
<1>12. CASE g.cmd = "PUSH"
  <2> DEFINE l == InputPush(k3, g)
  <2>1. InputSegment(k, g) = l
    BY <1>3, <1>12
  <2>2. LinkOK(b, F, D, o, k3) /\ Grows(b, k, k3)
    BY <1>8, <1>10
  <2>3. LinkOK(b, F, D, o, l) /\ ReceivesOnly(b, k3, l)
    BY <1>8, <1>12, <2>2, InputPushOK
  <2> HIDE DEF l
  <2>4. l \in Block /\ Grows(b, k3, l)
    BY <2>3 DEF ReceivesOnly
  <2>5. LinkOK(b, G, E, l, o)
    BY <1>9, <2>3, SenderSame DEF ReceivesOnly
  <2>6. Grows(b, k, l)
    BY <1>0, <1>8, <2>2, <2>4, GrowsTrans
  <2> QED BY <2>1, <2>3, <2>4, <2>5, <2>6 DEF PairOK
<1>13. CASE g.cmd = "WASK"
  <2> DEFINE l == [k3 EXCEPT !.probe = @ \cup {"tell"}]
  <2>1. InputSegment(k, g) = l
    BY <1>3, <1>13
  <2>2. SendsOnly(k3, l) /\ l.snd_buf = k3.snd_buf
    BY <1>8 DEF SendsOnly, Block
  <2> HIDE DEF l
  <2>3. SendsOnly(k, l) /\ l \in Block
    BY <1>8, <2>2 DEF SendsOnly
  <2>4. LinkOK(b, G, E, l, o)
    BY <1>9, <2>2, SenderSame DEF SendsOnly
  <2> QED BY <1>10, <2>1, <2>3, <2>4 DEF PairOK
<1>14. CASE g.cmd = "WINS"
  <2>1. InputSegment(k, g) = k3
    BY <1>3, <1>14
  <2> QED BY <1>8, <1>9, <1>10, <2>1 DEF PairOK
<1> QED BY <1>1, <1>11, <1>12, <1>13, <1>14

\* The loop of ikcp_input: a recursive function on the number of segments.
LEMMA InputLoop ==
  ASSUME NEW k, NEW d \in Seq(Seg)
  PROVE  \E f : /\ f = [n \in 0..Len(d) |-> IF n = 0 THEN k ELSE InputSegment(f[n - 1], d[n])]
                /\ Input(k, d) = f[Len(d)]
<1> DEFINE Loop(f, m) == f = [n \in 0..m |-> IF n = 0 THEN k ELSE InputSegment(f[n - 1], d[n])]
           S == {m \in Nat : \E f : Loop(f, m)}
<1>0. Len(d) \in Nat
  OBVIOUS
<1>1. 0 \in S
  <2> DEFINE f0 == [n \in 0..0 |-> k]
  <2>1. f0 = [n \in 0..0 |-> IF n = 0 THEN k ELSE InputSegment(f0[n - 1], d[n])]
    <3> HIDE DEF f0
    <3>1. f0 = [n \in 0..0 |-> k]
      BY DEF f0
    <3>2. \A n \in 0..0 : n = 0
      OBVIOUS
    <3> QED BY <3>1, <3>2
  <2>2. Loop(f0, 0)
    BY <2>1
  <2> HIDE DEF Loop
  <2> QED BY <2>2
<1>2. ASSUME NEW m \in Nat, m \in S PROVE m + 1 \in S
  <2>1. PICK f : Loop(f, m)
    BY <1>2
  <2> DEFINE h == [n \in 0..(m + 1) |-> IF n = m + 1 THEN InputSegment(f[m], d[m + 1]) ELSE f[n]]
  <2>2. \A n \in 0..m : h[n] = f[n]
    OBVIOUS
  <2>3. h[m + 1] = InputSegment(f[m], d[m + 1])
    OBVIOUS
  <2>4. DOMAIN h = 0..(m + 1) /\ h = [n \in 0..(m + 1) |-> h[n]]
    OBVIOUS
  <2> HIDE DEF h
  <2>5. \A n \in 0..(m + 1) : h[n] = IF n = 0 THEN k ELSE InputSegment(h[n - 1], d[n])
    <3> TAKE n \in 0..(m + 1)
    <3>1. CASE n = m + 1
      <4>1. m \in 0..m /\ n # 0 /\ n - 1 = m
        BY <3>1
      <4> QED BY <2>2, <2>3, <3>1, <4>1
    <3>2. CASE n = 0
      <4>1. 0 \in 0..m
        OBVIOUS
      <4>2. f[0] = k
        BY <2>1, <4>1
      <4> QED BY <2>2, <3>2, <4>1, <4>2
    <3>3. CASE n # 0 /\ n # m + 1
      <4>1. n \in 0..m /\ n - 1 \in 0..m
        BY <3>3
      <4>2. f[n] = InputSegment(f[n - 1], d[n])
        BY <2>1, <3>3, <4>1
      <4>3. h[n] = f[n] /\ h[n - 1] = f[n - 1]
        BY <2>2, <4>1
      <4> QED BY <3>3, <4>2, <4>3
    <3> QED BY <3>1, <3>2, <3>3
  <2>6. Loop(h, m + 1)
    BY <2>4, <2>5
  <2> HIDE DEF Loop
  <2> QED BY <2>6
<1> HIDE DEF S
<1>3. \A i \in 0..(Len(d) - 1) : i \in S => i + 1 \in S
  BY <1>0, <1>2
<1>4. 0..Len(d) \subseteq S
  BY <1>0, <1>1, <1>3, SetInduction
<1>5. Len(d) \in S
  BY <1>0, <1>4
<1>6. PICK f : Loop(f, Len(d))
  BY <1>5 DEF S
<1> DEFINE after == CHOOSE g : Loop(g, Len(d))
<1>7. Loop(after, Len(d))
  <2> HIDE DEF Loop
  <2> QED BY <1>6
<1>8. Input(k, d) = after[Len(d)]
  BY DEF Input
<1> HIDE DEF after
<1> QED BY <1>7, <1>8

LEMMA InputOK ==
  ASSUME NEW b \in Num, NEW F \in Seq(Frag), Fits(F), NEW D \in Nat, NEW G \in Seq(Frag),
         Fits(G), NEW E \in Nat, NEW o \in Block, NEW k, PairOK(b, F, D, G, E, o, k),
         NEW d \in Seq(Seg), DatagramOK(b, F, o, d)
  PROVE  PairOK(b, F, D, G, E, o, Input(k, d)) /\ Grows(b, k, Input(k, d))
<1>1. PICK f : /\ f = [n \in 0..Len(d) |-> IF n = 0 THEN k ELSE InputSegment(f[n - 1], d[n])]
               /\ Input(k, d) = f[Len(d)]
  BY InputLoop
<1> DEFINE S == {n \in 0..Len(d) : PairOK(b, F, D, G, E, o, f[n]) /\ Grows(b, k, f[n])}
<1>2. Len(d) \in Nat
  OBVIOUS
<1>3. 0 \in S
  <2>1. f[0] = k /\ 0 \in 0..Len(d)
    BY <1>1, <1>2
  <2>2. Grows(b, k, k)
    BY GrowsSame DEF PairOK
  <2> QED BY <2>1, <2>2
<1>4. ASSUME NEW i \in 0..(Len(d) - 1), i \in S PROVE i + 1 \in S
  <2>1. i + 1 \in 0..Len(d) /\ i + 1 # 0 /\ (i + 1) - 1 = i /\ i + 1 \in 1..Len(d)
    BY <1>2
  <2>2. f[i + 1] = InputSegment(f[i], d[i + 1])
    BY <1>1, <2>1
  <2>3. d[i + 1] \in Seg /\ SegOK(b, F, o, d[i + 1])
    BY <2>1 DEF DatagramOK
  <2>4. PairOK(b, F, D, G, E, o, f[i]) /\ Grows(b, k, f[i])
    BY <1>4
  <2>5. PairOK(b, F, D, G, E, o, f[i + 1]) /\ Grows(b, f[i], f[i + 1])
    BY <2>2, <2>3, <2>4, InputSegmentOK
  <2>6. k \in Block /\ f[i] \in Block /\ f[i + 1] \in Block
    BY <2>4, <2>5 DEF PairOK
  <2>7. Grows(b, k, f[i + 1])
    BY <2>4, <2>5, <2>6, GrowsTrans
  <2> QED BY <2>1, <2>5, <2>7
<1> HIDE DEF S
<1>5. 0..Len(d) \subseteq S
  BY <1>2, <1>3, <1>4, SetInduction
<1>6. Len(d) \in S
  BY <1>2, <1>5
<1> QED BY <1>1, <1>6 DEF S

-----------------------------------------------------------------------------
(* What a flush changes and what it sends.                                 *)

LEMMA DiffInt == ASSUME NEW x \in Num, NEW y \in Num PROVE Diff(x, y) \in Int
<1>1. Word \in Nat \ {0} /\ x \in Int /\ y \in Int
  BY Constants DEF Num
<1>2. (x - y) % Word \in Int
  BY <1>1
<1> QED BY <1>1, <1>2 DEF Diff

\* A sender numbers what waits in snd_queue.
LEMMA FillOK ==
  ASSUME NEW b \in Num, NEW F \in Seq(Frag), Fits(F), NEW D, NEW k \in Block, NEW o \in Block,
         LinkOK(b, F, D, k, o)
  PROVE  /\ LinkOK(b, F, D, Fill(k), o) /\ Fill(k) \in Block /\ Grows(b, k, Fill(k))
         /\ Fill(k).rcv_nxt = k.rcv_nxt /\ Fill(k).rcv_queue = k.rcv_queue
         /\ Fill(k).rcv_buf = k.rcv_buf /\ Fill(k).acklist = k.acklist
<1> DEFINE room == Min({SndWnd, k.rmt_wnd}) - Diff(k.snd_nxt, k.snd_una)
           n == Max({0, Min({room, Len(k.snd_queue)})})
           new == [i \in 1..n |-> [sn |-> (k.snd_nxt + i - 1) % Word,
                                   frg |-> k.snd_queue[i].frg, data |-> k.snd_queue[i].data]]
           l == [k EXCEPT !.snd_buf = @ \o new, !.snd_nxt = (@ + n) % Word,
                          !.snd_queue = SubSeq(@, n + 1, Len(@))]
           X == At(b, k.snd_nxt)
           Q0 == k.snd_queue
           B0 == k.snd_buf
<1>1. Fill(k) = l
  BY DEF Fill
<1>2. /\ Q0 \in Seq(Frag) /\ Len(Q0) \in Nat /\ B0 \in Seq(Piece) /\ Len(B0) \in Nat
      /\ k.snd_nxt \in Num /\ k.snd_una \in Num /\ k.rmt_wnd \in Nat
      /\ \A i \in 1..Len(Q0) : Q0[i] \in Frag
  BY BlockFacts, Constants
<1>3. n \in 0..Len(Q0)
  <2>1. room \in Int
    <3>1. Diff(k.snd_nxt, k.snd_una) \in Int
      BY <1>2, DiffInt
    <3>2. Min({SndWnd, k.rmt_wnd}) \in Int
      BY <1>2, Constants, MinOfTwo
    <3> QED BY <3>1, <3>2
  <2> HIDE DEF room
  <2> DEFINE m == Min({room, Len(Q0)})
  <2>2. m = IF room <= Len(Q0) THEN room ELSE Len(Q0)
    <3>1. Len(Q0) \in Int
      BY <1>2
    <3> HIDE DEF Q0, l, new
    <3> QED BY <2>1, <3>1, MinOfTwo
  <2>b. Len(Q0) \in Nat
    BY <1>2
  <2> HIDE DEF m
  <2>3. m \in Int /\ m <= Len(Q0)
    <3> HIDE DEF Q0
    <3> QED BY <2>b, <2>1, <2>2
  <2>4. Max({0, m}) = IF 0 >= m THEN 0 ELSE m
    BY <2>3, MaxOfTwo
  <2>5. n = Max({0, m})
    BY DEF m
  <2> HIDE DEF n
  <2> QED BY <1>2, <2>3, <2>4, <2>5
<1> HIDE DEF n
<1>4. /\ Word \in Nat \ {0} /\ RcvWnd \in Nat \ {0} /\ 2 * (Len(F) + RcvWnd) <= Word
  BY Constants DEF Fits
<1>5. /\ SenderOK(b, F, k) /\ ReceiverOK(b, F, X, D, o) /\ Covered(b, k, o)
  BY DEF LinkOK
<1>6. /\ X \in Nat /\ At(b, o.rcv_nxt) \in Nat /\ Len(F) \in Nat /\ At(b, o.rcv_nxt) <= X
  BY LinkFacts
<1>7. /\ X + Len(Q0) = Len(F) /\ \A i \in 1..Len(Q0) : Q0[i] = F[X + i]
      /\ Numbered(b, F, B0, X)
  BY <1>5 DEF SenderOK
<1>8. n \in Nat /\ X + n < Word /\ X <= X + n /\ X + n <= Len(F)
  BY <1>2, <1>3, <1>4, <1>6, <1>7
<1> DEFINE XN == (k.snd_nxt + n) % Word
           QN == SubSeq(Q0, n + 1, Len(Q0))
           BN == B0 \o new
<1>9. XN \in Num /\ At(b, XN) = X + n
  BY <1>2, <1>8, AtPlus
<1>10. /\ QN \in Seq(Frag) /\ Len(QN) = Len(Q0) - n
       /\ \A i \in 1..(Len(Q0) - n) : QN[i] = Q0[n + i] /\ n + i \in 1..Len(Q0)
  BY <1>2, <1>3
<1>11. ASSUME NEW i \in 1..n
       PROVE  /\ new[i] \in Piece /\ At(b, new[i].sn) = X + i - 1
              /\ Same(new[i], F[X + i])
  <2>1. i - 1 \in Nat /\ k.snd_nxt + i - 1 = k.snd_nxt + (i - 1) /\ X + (i - 1) < Word
        /\ X + (i - 1) = X + i - 1 /\ i \in 1..Len(Q0)
    <3>1. i \in Nat /\ 1 <= i /\ i <= n /\ i <= Len(Q0) /\ k.snd_nxt \in Int
      BY <1>2, <1>3, <1>8 DEF Num
    <3> HIDE DEF X, Q0
    <3> QED BY <3>1, <1>2, <1>4, <1>6, <1>8
  <2>2. (k.snd_nxt + (i - 1)) % Word \in Num /\ At(b, (k.snd_nxt + (i - 1)) % Word) = X + (i - 1)
    BY <1>2, <2>1, AtPlus
  <2>3. /\ new[i].sn = (k.snd_nxt + (i - 1)) % Word
        /\ new[i] = [sn |-> (k.snd_nxt + (i - 1)) % Word, frg |-> Q0[i].frg, data |-> Q0[i].data]
    BY <2>1
  <2>4. Q0[i] \in Frag /\ Q0[i] = F[X + i]
    BY <1>2, <1>7, <2>1
  <2> QED BY <2>1, <2>2, <2>3, <2>4 DEF Piece, Frag, Same
<1>12. new \in Seq(Piece) /\ Len(new) = n
  BY <1>8, <1>11
<1> HIDE DEF new
<1>13. /\ BN \in Seq(Piece) /\ Len(BN) = Len(B0) + n
       /\ \A i \in 1..Len(B0) : BN[i] = B0[i]
  <2> HIDE DEF B0
  <2>1. BN \in Seq(Piece) /\ Len(BN) = Len(B0) + Len(new)
    BY <1>2, <1>12, ConcatProperties
  <2>2. \A i \in 1..Len(B0) : BN[i] = B0[i]
    BY <1>2, <1>12, ConcatProperties
  <2> QED BY <1>12, <2>1, <2>2
<1>14. \A i \in 1..n : BN[Len(B0) + i] = new[i] /\ Len(B0) + i \in 1..Len(BN)
  <2> TAKE i \in 1..n
  <2>1. Len(B0) + i \in (Len(B0) + 1)..(Len(B0) + Len(new)) /\ Len(B0) + i - Len(B0) = i
        /\ Len(B0) + i \in 1..Len(BN)
    BY <1>2, <1>8, <1>12, <1>13
  <2> QED BY <1>2, <1>12, <2>1, ConcatProperties
<1>15. /\ l \in Block /\ l.snd_buf = BN /\ l.snd_nxt = XN /\ l.snd_queue = QN
       /\ l.rcv_nxt = k.rcv_nxt /\ l.rcv_queue = k.rcv_queue /\ l.rcv_buf = k.rcv_buf
       /\ l.acklist = k.acklist
  BY <1>9, <1>10, <1>13 DEF Block
<1> HIDE DEF l, BN, QN, XN
<1>16. Numbered(b, F, BN, X + n)
  <2> SUFFICES ASSUME NEW i \in 1..Len(BN)
               PROVE  At(b, BN[i].sn) < X + n /\ Same(BN[i], F[At(b, BN[i].sn) + 1])
    BY DEF Numbered
  <2>1. CASE i <= Len(B0)
    <3>1. i \in 1..Len(B0)
      BY <1>2, <2>1
    <3>2. At(b, B0[i].sn) \in Nat /\ At(b, B0[i].sn) < X /\ Same(B0[i], F[At(b, B0[i].sn) + 1])
      BY <1>7, <3>1, BlockFacts, AtNat DEF Numbered
    <3>3. BN[i] = B0[i]
      BY <1>13, <3>1
    <3>4. At(b, B0[i].sn) < X + n
      <4> HIDE DEF X
      <4> QED BY <1>6, <1>8, <3>2
    <3> QED BY <3>2, <3>3, <3>4
  <2>2. CASE i > Len(B0)
    <3> DEFINE j == i - Len(B0)
    <3>1. j \in 1..n /\ Len(B0) + j = i
      BY <1>2, <1>8, <1>13, <2>2
    <3> HIDE DEF j
    <3>2. BN[i] = new[j]
      BY <1>14, <3>1
    <3>3. At(b, BN[i].sn) = X + j - 1 /\ Same(BN[i], F[X + j])
      BY <1>11, <3>1, <3>2
    <3>4. X + j - 1 < X + n /\ (X + j - 1) + 1 = X + j
      BY <1>6, <1>8, <3>1
    <3> QED BY <3>3, <3>4
  <2> QED BY <1>2, <2>1, <2>2
<1>17. SenderOK(b, F, l)
  <2>1. (X + n) + Len(QN) = Len(F)
    BY <1>2, <1>6, <1>7, <1>8, <1>10
  <2>2. ASSUME NEW i \in 1..Len(QN) PROVE QN[i] = F[(X + n) + i]
    <3>1. i \in 1..(Len(Q0) - n) /\ n + i \in 1..Len(Q0) /\ X + (n + i) = (X + n) + i
      BY <1>2, <1>6, <1>8, <1>10
    <3> QED BY <1>7, <1>10, <3>1
  <2> QED BY <2>1, <2>2, <1>9, <1>15, <1>16 DEF SenderOK
<1>18. ReceiverOK(b, F, X + n, D, o)
  <2>1. Numbered(b, F, o.rcv_buf, X + n)
    <3> SUFFICES ASSUME NEW i \in 1..Len(o.rcv_buf)
                 PROVE  /\ At(b, o.rcv_buf[i].sn) < X + n
                        /\ Same(o.rcv_buf[i], F[At(b, o.rcv_buf[i].sn) + 1])
      BY DEF Numbered
    <3>1. At(b, o.rcv_buf[i].sn) \in Nat
      BY BlockFacts, AtNat
    <3>2. At(b, o.rcv_buf[i].sn) < X /\ Same(o.rcv_buf[i], F[At(b, o.rcv_buf[i].sn) + 1])
      BY <1>5 DEF ReceiverOK, Numbered
    <3> QED BY <1>6, <1>8, <3>1, <3>2
  <2>2. At(b, o.rcv_nxt) <= X + n
    BY <1>6, <1>8
  <2> QED BY <1>5, <2>1, <2>2 DEF ReceiverOK
<1>19. Covered(b, l, o)
  <2>0. At(b, l.snd_nxt) - 1 = X + n - 1
    BY <1>6, <1>8, <1>9, <1>15
  <2> SUFFICES ASSUME NEW a \in At(b, o.rcv_nxt)..(X + n - 1)
               PROVE  Holds(b, BN, a) \/ Holds(b, o.rcv_buf, a)
    BY <2>0, <1>15, Zenon DEF Covered
  <2>1. CASE a < X
    <3>1. a \in At(b, o.rcv_nxt)..(X - 1)
      BY <1>6, <2>1
    <3>2. Holds(b, B0, a) \/ Holds(b, o.rcv_buf, a)
      BY <1>5, <3>1 DEF Covered
    <3>3. Len(B0) <= Len(BN)
      BY <1>2, <1>8, <1>13
    <3>4. \A i \in 1..Len(B0) : i \in 1..Len(BN)
      BY <1>2, <1>8, <1>13
    <3> QED BY <1>13, <3>2, <3>4 DEF Holds
  <2>2. CASE a >= X
    <3> DEFINE j == a - X + 1
    <3>1. j \in 1..n /\ X + j - 1 = a
      BY <1>6, <1>8, <2>2
    <3> HIDE DEF j
    <3>2. BN[Len(B0) + j] = new[j] /\ Len(B0) + j \in 1..Len(BN)
      BY <1>14, <3>1
    <3>3. At(b, BN[Len(B0) + j].sn) = a
      BY <1>11, <3>1, <3>2
    <3> QED BY <3>2, <3>3 DEF Holds
  <2> QED BY <1>6, <2>1, <2>2
<1>20. LinkOK(b, F, D, l, o)
  BY <1>9, <1>15, <1>17, <1>18, <1>19 DEF LinkOK
<1>21. Grows(b, k, l)
  <2>1. At(b, k.rcv_nxt) \in Nat
    BY BlockFacts, AtNat
  <2> QED BY <1>6, <1>8, <1>9, <1>15, <2>1 DEF Grows, Has
<1> QED BY <1>1, <1>15, <1>20, <1>21

LEMMA ProbeOK ==
  ASSUME NEW k \in Block, NEW due
  PROVE  /\ SendsOnly(k, Probe(k, due)) /\ Probe(k, due).snd_buf = k.snd_buf
         /\ Fill(Probe(k, due)).snd_nxt = Fill(k).snd_nxt
         /\ Probe(k, due).probe \subseteq {"send", "tell"}
<1> DEFINE l == Probe(k, due)
<1>1. /\ l \in Block /\ l.snd_nxt = k.snd_nxt /\ l.snd_queue = k.snd_queue
      /\ l.rcv_nxt = k.rcv_nxt /\ l.rcv_queue = k.rcv_queue /\ l.rcv_buf = k.rcv_buf
      /\ l.acklist = k.acklist /\ l.snd_buf = k.snd_buf /\ l.rmt_wnd = k.rmt_wnd
      /\ l.snd_una = k.snd_una
  <2>1. CASE k.rmt_wnd # 0
    <3>1. l = [k EXCEPT !.probe_wait = FALSE]
      BY <2>1 DEF Probe
    <3> HIDE DEF l
    <3> QED BY <3>1 DEF Block
  <2>2. CASE k.rmt_wnd = 0
    <3> DEFINE q == IF k.probe_wait /\ due THEN k.probe \cup {"send"} ELSE k.probe
    <3>1. l = [k EXCEPT !.probe_wait = TRUE, !.probe = q]
      BY <2>2 DEF Probe
    <3>2. q \in SUBSET {"send", "tell"}
      BY DEF Block
    <3> HIDE DEF l, q
    <3> QED BY <3>1, <3>2 DEF Block
  <2> QED BY <2>1, <2>2
<1> HIDE DEF l
<1>2. l.probe \subseteq {"send", "tell"}
  BY <1>1 DEF Block
<1>3. Fill(l).snd_nxt = Fill(k).snd_nxt
  <2> DEFINE n(m) == Max({0, Min({Min({SndWnd, m.rmt_wnd}) - Diff(m.snd_nxt, m.snd_una),
                                  Len(m.snd_queue)})})
  <2>1. n(l) = n(k)
    BY <1>1
  <2>2. \A m \in Block : Fill(m).snd_nxt = (m.snd_nxt + n(m)) % Word
    BY DEF Fill, Block
  <2> HIDE DEF n
  <2> QED BY <1>1, <2>1, <2>2
<1> QED BY <1>1, <1>2, <1>3 DEF l, SendsOnly

LEMMA FlushOK ==
  ASSUME NEW b \in Num, NEW F \in Seq(Frag), NEW D, NEW G \in Seq(Frag), Fits(G), NEW E,
         NEW o \in Block, NEW k, PairOK(b, F, D, G, E, o, k), NEW due
  PROVE  /\ PairOK(b, F, D, G, E, o, Flush(k, due)) /\ Grows(b, k, Flush(k, due))
         /\ Flush(k, due).snd_nxt = Fill(k).snd_nxt
         /\ Flush(k, due).rcv_nxt = k.rcv_nxt /\ Flush(k, due).rcv_buf = k.rcv_buf
<1> DEFINE k1 == Probe(k, due)
           k2 == Fill(k1)
           l == [k2 EXCEPT !.acklist = <<>>, !.probe = {}]
<1>0. k \in Block /\ LinkOK(b, F, D, o, k) /\ LinkOK(b, G, E, k, o)
  BY DEF PairOK
<1>1. SendsOnly(k, k1) /\ k1.snd_buf = k.snd_buf /\ Fill(k1).snd_nxt = Fill(k).snd_nxt
  BY <1>0, ProbeOK
<1>2. Flush(k, due) = l
  BY DEF Flush
<1> HIDE DEF k1
<1>3. k1 \in Block /\ LinkOK(b, G, E, k1, o)
  BY <1>0, <1>1, SenderSame DEF SendsOnly
<1>4. LinkOK(b, F, D, o, k1)
  BY <1>0, <1>1, ReceiverSame DEF SendsOnly
<1>5. /\ LinkOK(b, G, E, k2, o) /\ k2 \in Block /\ Grows(b, k1, k2)
      /\ k2.rcv_nxt = k1.rcv_nxt /\ k2.rcv_queue = k1.rcv_queue
      /\ k2.rcv_buf = k1.rcv_buf /\ k2.acklist = k1.acklist
      /\ k2.snd_nxt = Fill(k).snd_nxt
  BY <1>1, <1>3, FillOK
<1> HIDE DEF k2
<1>6. /\ l \in Block /\ l.snd_nxt = k2.snd_nxt /\ l.snd_queue = k2.snd_queue
      /\ l.snd_buf = k2.snd_buf /\ l.rcv_nxt = k2.rcv_nxt /\ l.rcv_queue = k2.rcv_queue
      /\ l.rcv_buf = k2.rcv_buf /\ l.acklist = <<>>
  <2>1. <<>> \in Seq(Num)
    OBVIOUS
  <2> QED BY <1>5, <2>1 DEF Block
<1> HIDE DEF l
<1>7. LinkOK(b, G, E, l, o)
  BY <1>5, <1>6, SenderSame
<1>8. LinkOK(b, F, D, o, k2)
  BY <1>4, <1>5, ReceiverSame
<1>9. LinkOK(b, F, D, o, l)
  <2>1. AcksOK(b, l)
    BY <1>6 DEF AcksOK
  <2> QED BY <1>6, <1>8, <2>1 DEF LinkOK, ReceiverOK, QueueOK, BufferOK, Covered
<1>10. Grows(b, k, k1)
  BY <1>0, <1>1, GrowsSame DEF SendsOnly
<1>11. Grows(b, k2, l)
  BY <1>5, <1>6, GrowsSame
<1>12. Grows(b, k, k2)
  BY <1>0, <1>3, <1>5, <1>10, GrowsTrans
<1>13. Grows(b, k, l)
  BY <1>0, <1>5, <1>6, <1>11, <1>12, GrowsTrans
<1> QED BY <1>1, <1>2, <1>5, <1>6, <1>7, <1>9, <1>13 DEF PairOK, SendsOnly

LEMMA WndUnusedOK ==
  ASSUME NEW k \in Block PROVE WndUnused(k) \in 0..RcvWnd
<1>1. RcvWnd \in Nat /\ Len(k.rcv_queue) \in Nat
  BY Constants, BlockFacts
<1>2. RcvWnd - Len(k.rcv_queue) \in Int /\ 0 \in Int
  BY <1>1
<1>3. WndUnused(k) = IF 0 >= RcvWnd - Len(k.rcv_queue) THEN 0 ELSE RcvWnd - Len(k.rcv_queue)
  BY <1>2, MaxOfTwo DEF WndUnused
<1> QED BY <1>1, <1>3

\* Encoding loses nothing of what a flush sends.
LEMMA SmallMod == ASSUME NEW w \in Nat \ {0}, NEW x \in Nat, x < w PROVE x % w = x
<1>1. x = w * 0 + x /\ x \in 0..(w - 1) /\ x \in Int
  OBVIOUS
<1> QED BY <1>1, ModIs

LEMMA SegmentIs ==
  ASSUME NEW k \in Block, NEW cmd, NEW sn \in Num
  PROVE  /\ Segment(k, cmd, sn) = [cmd |-> cmd, frg |-> 0, wnd |-> WndUnused(k), sn |-> sn,
                                   una |-> k.rcv_nxt, data |-> <<>>]
<1>1. /\ WndUnused(k) \in Nat /\ WndUnused(k) < WndMod /\ WndMod \in Nat \ {0}
      /\ FrgMod \in Nat \ {0} /\ 0 \in Nat /\ 0 < FrgMod
  BY WndUnusedOK, Constants
<1>2. /\ sn \in Nat /\ sn < Word /\ k.rcv_nxt \in Nat /\ k.rcv_nxt < Word /\ Word \in Nat \ {0}
  BY BlockFacts, Constants DEF Num
<1>3. /\ WndUnused(k) % WndMod = WndUnused(k) /\ 0 % FrgMod = 0
      /\ sn % Word = sn /\ k.rcv_nxt % Word = k.rcv_nxt
  BY <1>1, <1>2, SmallMod
<1>4. Segment(k, cmd, sn) = [[cmd |-> cmd, frg |-> 0, wnd |-> WndUnused(k), sn |-> sn,
                              una |-> k.rcv_nxt, data |-> <<>>]
                        EXCEPT !.frg = 0 % FrgMod, !.wnd = WndUnused(k) % WndMod,
                               !.sn = sn % Word, !.una = k.rcv_nxt % Word]
  BY DEF Segment, Encode
<1>5. Segment(k, cmd, sn) = [[cmd |-> cmd, frg |-> 0, wnd |-> WndUnused(k), sn |-> sn,
                              una |-> k.rcv_nxt, data |-> <<>>]
                        EXCEPT !.frg = 0, !.wnd = WndUnused(k),
                               !.sn = sn, !.una = k.rcv_nxt]
  BY <1>3, <1>4, Zenon
<1> QED BY <1>5

\* A segment that says nothing of data: any but an ack of what did not arrive.
LEMMA PlainSegment ==
  ASSUME NEW b \in Num, NEW G, NEW k \in Block, NEW cmd \in {"ACK", "WASK", "WINS"},
         NEW sn \in Num, cmd = "ACK" => Has(b, k, sn)
  PROVE  Segment(k, cmd, sn) \in Seg /\ SegOK(b, G, k, Segment(k, cmd, sn))
<1> DEFINE g == [cmd |-> cmd, frg |-> 0, wnd |-> WndUnused(k), sn |-> sn,
                 una |-> k.rcv_nxt, data |-> <<>>]
<1>1. Segment(k, cmd, sn) = g
  BY SegmentIs
<1>2. WndUnused(k) \in 0..RcvWnd /\ k.rcv_nxt \in Num /\ At(b, k.rcv_nxt) \in Nat
  BY WndUnusedOK, BlockFacts, AtNat
<1>3. g \in Seg
  BY <1>2 DEF Seg
<1>4. g.una = k.rcv_nxt /\ g.cmd = cmd /\ g.sn = sn /\ g.cmd # "PUSH"
  OBVIOUS
<1> HIDE DEF g
<1>5. SegOK(b, G, k, g)
  BY <1>2, <1>4 DEF SegOK
<1> QED BY <1>1, <1>3, <1>5

\* What a flush sends of the segment s of snd_buf.
Push(k, s) == [Segment(k, "PUSH", s.sn) EXCEPT !.frg = s.frg % FrgMod, !.data = s.data]

LEMMA PushSegment ==
  ASSUME NEW b \in Num, NEW G \in Seq(Frag), NEW k \in Block, NEW s \in Piece,
         At(b, k.snd_nxt) <= Len(G),
         At(b, s.sn) < At(b, k.snd_nxt), Same(s, G[At(b, s.sn) + 1]),
         \A i \in 1..Len(G) : G[i].frg < RcvWnd
  PROVE  Push(k, s) \in Seg /\ SegOK(b, G, k, Push(k, s))
<1> DEFINE g == Push(k, s)
<1>1. s.sn \in Num /\ s.frg \in Nat /\ s.data \in Data
  BY DEF Piece
<1>2. /\ WndUnused(k) \in 0..RcvWnd /\ k.rcv_nxt \in Num /\ At(b, k.rcv_nxt) \in Nat
      /\ At(b, s.sn) \in Nat /\ At(b, k.snd_nxt) \in Nat
  BY WndUnusedOK, BlockFacts, AtNat, <1>1
<1>3. s.frg % FrgMod = s.frg
  <2>1. At(b, s.sn) + 1 \in 1..Len(G)
    BY <1>2
  <2>2. G[At(b, s.sn) + 1].frg < RcvWnd
    BY <2>1
  <2>3. s.frg < RcvWnd
    BY <2>2 DEF Same
  <2>4. s.frg < FrgMod /\ FrgMod \in Nat \ {0}
    BY <1>1, <2>3, Constants
  <2> QED BY <1>1, <2>4, SmallMod
<1> DEFINE r == [cmd |-> "PUSH", frg |-> 0, wnd |-> WndUnused(k), sn |-> s.sn,
                 una |-> k.rcv_nxt, data |-> <<>>]
<1>4. g = [cmd |-> "PUSH", frg |-> s.frg, wnd |-> WndUnused(k), sn |-> s.sn,
           una |-> k.rcv_nxt, data |-> s.data]
  <2>1. Segment(k, "PUSH", s.sn) = r
    BY <1>1, SegmentIs
  <2>2. g = [r EXCEPT !.frg = s.frg, !.data = s.data]
    BY <1>3, <2>1, Zenon DEF Push
  <2> QED BY <2>2
<1> HIDE DEF g
<1>5. g \in Seg
  BY <1>1, <1>2, <1>4 DEF Seg
<1>6. g.una = k.rcv_nxt /\ g.cmd = "PUSH" /\ g.sn = s.sn /\ g.frg = s.frg /\ g.data = s.data
  BY <1>4
<1>7. SegOK(b, G, k, g)
  BY <1>2, <1>6 DEF SegOK, Same
<1> QED BY <1>5, <1>7 DEF g

\* The loop over snd_buf.
LEMMA PushesLoop ==
  ASSUME NEW k \in Block, NEW nums
  PROVE  \E f : /\ f = [n \in 0..Len(k.snd_buf) |->
                          IF n = 0 THEN <<>>
                          ELSE IF k.snd_buf[n].sn \in nums
                               THEN Append(f[n - 1], Push(k, k.snd_buf[n]))
                          ELSE f[n - 1]]
                /\ Pushes(k, nums) = f[Len(k.snd_buf)]
<1> DEFINE push(n) == Push(k, k.snd_buf[n])
           Turn(q, n) == IF k.snd_buf[n].sn \in nums THEN Append(q, push(n)) ELSE q
           Loop(f, m) == f = [n \in 0..m |-> IF n = 0 THEN <<>>
                                ELSE IF k.snd_buf[n].sn \in nums THEN Append(f[n - 1], push(n))
                                ELSE f[n - 1]]
           S == {m \in Nat : \E f : Loop(f, m)}
           L == Len(k.snd_buf)
<1>0. L \in Nat
  BY BlockFacts
<1>1. \A f, m : Loop(f, m) <=> f = [n \in 0..m |-> IF n = 0 THEN <<>> ELSE Turn(f[n - 1], n)]
  OBVIOUS
<1>2. Pushes(k, nums) = (CHOOSE f : Loop(f, L))[L]
  BY DEF Pushes, Push
<1>3. ASSUME NEW f, Loop(f, L), Pushes(k, nums) = f[L]
      PROVE  \E h : /\ h = [n \in 0..Len(k.snd_buf) |->
                          IF n = 0 THEN <<>>
                          ELSE IF k.snd_buf[n].sn \in nums
                               THEN Append(h[n - 1], Push(k, k.snd_buf[n]))
                          ELSE h[n - 1]]
                /\ Pushes(k, nums) = h[Len(k.snd_buf)]
  BY <1>3
<1> HIDE DEF Turn, Loop, push, L
<1>4. 0 \in S
  <2> DEFINE f0 == [n \in 0..0 |-> <<>>]
  <2>1. f0 = [n \in 0..0 |-> IF n = 0 THEN <<>> ELSE Turn(f0[n - 1], n)]
    <3> HIDE DEF f0
    <3>1. f0 = [n \in 0..0 |-> <<>>]
      BY DEF f0
    <3>2. \A n \in 0..0 : n = 0
      OBVIOUS
    <3> QED BY <3>1, <3>2
  <2> HIDE DEF f0
  <2> QED BY <2>1, <1>1
<1>5. ASSUME NEW m \in Nat, m \in S PROVE m + 1 \in S
  <2>1. PICK f : f = [n \in 0..m |-> IF n = 0 THEN <<>> ELSE Turn(f[n - 1], n)]
    BY <1>1, <1>5
  <2> DEFINE h == [n \in 0..(m + 1) |-> IF n = m + 1 THEN Turn(f[m], m + 1) ELSE f[n]]
  <2>2. \A n \in 0..m : h[n] = f[n]
    OBVIOUS
  <2>3. h[m + 1] = Turn(f[m], m + 1)
    OBVIOUS
  <2>4. DOMAIN h = 0..(m + 1) /\ h = [n \in 0..(m + 1) |-> h[n]]
    OBVIOUS
  <2> HIDE DEF h
  <2>5. \A n \in 0..(m + 1) : h[n] = IF n = 0 THEN <<>> ELSE Turn(h[n - 1], n)
    <3> TAKE n \in 0..(m + 1)
    <3>1. CASE n = m + 1
      <4>1. m \in 0..m /\ n # 0 /\ n - 1 = m
        BY <3>1
      <4> QED BY <2>2, <2>3, <3>1, <4>1
    <3>2. CASE n = 0
      <4>1. 0 \in 0..m
        OBVIOUS
      <4>2. f[0] = <<>>
        BY <2>1, <4>1
      <4> QED BY <2>2, <3>2, <4>1, <4>2
    <3>3. CASE n # 0 /\ n # m + 1
      <4>1. n \in 0..m /\ n - 1 \in 0..m
        BY <3>3
      <4>2. f[n] = Turn(f[n - 1], n)
        BY <2>1, <3>3, <4>1
      <4>3. h[n] = f[n] /\ h[n - 1] = f[n - 1]
        BY <2>2, <4>1
      <4> QED BY <3>3, <4>2, <4>3
    <3> QED BY <3>1, <3>2, <3>3
  <2>6. Loop(h, m + 1)
    BY <1>1, <2>4, <2>5
  <2> QED BY <2>6
<1> HIDE DEF S
<1>6. \A i \in 0..(L - 1) : i \in S => i + 1 \in S
  BY <1>0, <1>5
<1>7. 0..L \subseteq S
  BY <1>0, <1>4, <1>6, SetInduction
<1>8. L \in S
  BY <1>0, <1>7
<1>9. PICK f : Loop(f, L)
  BY <1>8 DEF S
<1>10. Loop(CHOOSE g : Loop(g, L), L)
  BY <1>9
<1> QED BY <1>2, <1>3, <1>10

\* Segments that the block k may send.
Sends(b, G, k, q) == q \in Seq(Seg) /\ DatagramOK(b, G, k, q)

LEMMA SendsNone == ASSUME NEW b, NEW G, NEW k PROVE Sends(b, G, k, <<>>)
<1>1. <<>> \in Seq(Seg) /\ \A j \in 1..Len(<<>>) : FALSE
  OBVIOUS
<1> QED BY <1>1 DEF Sends, DatagramOK

LEMMA SendsOne ==
  ASSUME NEW b, NEW G, NEW k, NEW g \in Seg, SegOK(b, G, k, g)
  PROVE  Sends(b, G, k, <<g>>)
<1>1. <<g>> \in Seq(Seg) /\ Len(<<g>>) = 1 /\ <<g>>[1] = g
  OBVIOUS
<1>2. \A j \in 1..1 : j = 1
  OBVIOUS
<1> QED BY <1>1, <1>2 DEF Sends, DatagramOK

LEMMA SendsBoth ==
  ASSUME NEW b, NEW G, NEW k, NEW q, NEW r, Sends(b, G, k, q), Sends(b, G, k, r)
  PROVE  Sends(b, G, k, q \o r)
<1>1. q \in Seq(Seg) /\ r \in Seq(Seg)
  BY DEF Sends
<1>2. /\ q \o r \in Seq(Seg) /\ Len(q \o r) = Len(q) + Len(r)
      /\ \A i \in 1..(Len(q) + Len(r)) :
           (q \o r)[i] = IF i <= Len(q) THEN q[i] ELSE r[i - Len(q)]
  BY <1>1, ConcatProperties
<1>3. ASSUME NEW i \in 1..(Len(q) + Len(r)) PROVE SegOK(b, G, k, (q \o r)[i])
  <2>0. Len(q) \in Nat /\ Len(r) \in Nat
    BY <1>1
  <2>1. CASE i <= Len(q)
    <3>1. i \in 1..Len(q) /\ (q \o r)[i] = q[i]
      BY <1>2, <2>0, <2>1
    <3> QED BY <3>1 DEF Sends, DatagramOK
  <2>2. CASE ~ (i <= Len(q))
    <3>1. i - Len(q) \in 1..Len(r) /\ (q \o r)[i] = r[i - Len(q)]
      BY <1>2, <2>0, <2>2
    <3> QED BY <3>1 DEF Sends, DatagramOK
  <2> QED BY <2>1, <2>2
<1> QED BY <1>2, <1>3 DEF Sends, DatagramOK

LEMMA SendsGrows ==
  ASSUME NEW b \in Num, NEW G \in Seq(Frag), NEW k \in Block, NEW l \in Block,
         Grows(b, k, l), At(b, k.snd_nxt) <= Len(G), NEW q, Sends(b, G, k, q)
  PROVE  Sends(b, G, l, q)
<1>1. Extends(G, G)
  BY DEF Extends
<1>2. ASSUME NEW j \in 1..Len(q) PROVE SegOK(b, G, l, q[j])
  <2>1. q[j] \in Seg /\ SegOK(b, G, k, q[j])
    BY DEF Sends, DatagramOK
  <2> QED BY <1>1, <2>1, SegGrows
<1> QED BY <1>2 DEF Sends, DatagramOK

LEMMA PushesOK ==
  ASSUME NEW b \in Num, NEW G \in Seq(Frag), NEW E, NEW o \in Block, NEW k \in Block,
         LinkOK(b, G, E, k, o), \A i \in 1..Len(G) : G[i].frg < RcvWnd, NEW nums
  PROVE  Sends(b, G, k, Pushes(k, nums))
<1> DEFINE L == Len(k.snd_buf)
<1>1. PICK f : /\ f = [n \in 0..L |->
                         IF n = 0 THEN <<>>
                         ELSE IF k.snd_buf[n].sn \in nums THEN Append(f[n - 1], Push(k, k.snd_buf[n]))
                         ELSE f[n - 1]]
               /\ Pushes(k, nums) = f[L]
  BY PushesLoop
<1>2. L \in Nat
  BY BlockFacts
<1> DEFINE S == {n \in 0..L : Sends(b, G, k, f[n])}
<1>3. 0 \in S
  <2>1. 0 \in 0..L /\ f[0] = <<>>
    BY <1>1, <1>2
  <2> QED BY <2>1, SendsNone
<1>4. ASSUME NEW i \in 0..(L - 1), i \in S PROVE i + 1 \in S
  <2>1. i + 1 \in 0..L /\ i + 1 # 0 /\ (i + 1) - 1 = i /\ i + 1 \in 1..L
    BY <1>2
  <2>2. f[i + 1] = IF k.snd_buf[i + 1].sn \in nums THEN Append(f[i], Push(k, k.snd_buf[i + 1]))
                   ELSE f[i]
    BY <1>1, <2>1
  <2>3. Sends(b, G, k, f[i])
    BY <1>4
  <2>4. CASE k.snd_buf[i + 1].sn \in nums
    <3> DEFINE s == k.snd_buf[i + 1]
               g == Push(k, s)
    <3>1. s \in Piece
      BY <2>1, BlockFacts
    <3>2. At(b, s.sn) < At(b, k.snd_nxt) /\ Same(s, G[At(b, s.sn) + 1])
      BY <2>1 DEF LinkOK, SenderOK, Numbered
    <3>3. At(b, k.snd_nxt) <= Len(G)
      BY LinkFacts
    <3>4. g \in Seg /\ SegOK(b, G, k, g)
      BY <3>1, <3>2, <3>3, PushSegment
    <3> HIDE DEF g
    <3>5. Sends(b, G, k, f[i] \o <<g>>)
      BY <2>3, <3>4, SendsOne, SendsBoth
    <3>6. Append(f[i], g) = f[i] \o <<g>>
      BY <2>3, <3>4, AppendIsConcat DEF Sends
    <3>7. f[i + 1] = Append(f[i], g)
      BY <2>2, <2>4 DEF g
    <3> QED BY <2>1, <3>5, <3>6, <3>7
  <2>5. CASE ~ (k.snd_buf[i + 1].sn \in nums)
    BY <2>1, <2>2, <2>3, <2>5
  <2> QED BY <2>4, <2>5
<1> HIDE DEF S, L
<1>5. 0..L \subseteq S
  BY <1>2, <1>3, <1>4, SetInduction
<1>6. L \in S
  BY <1>2, <1>5
<1> QED BY <1>1, <1>6 DEF S

LEMMA OutputOK ==
  ASSUME NEW b \in Num, NEW F \in Seq(Frag), NEW D, NEW G \in Seq(Frag), Fits(G), NEW E,
         NEW o \in Block, NEW k, PairOK(b, F, D, G, E, o, k),
         \A i \in 1..Len(G) : G[i].frg < RcvWnd, NEW late, NEW due
  PROVE  Sends(b, G, Flush(k, due), Output(k, late, due))
<1>2. k \in Block /\ LinkOK(b, F, D, o, k) /\ LinkOK(b, G, E, k, o)
  BY DEF PairOK
<1>a. k \in Block /\ LinkOK(b, G, E, k, o)
  BY <1>2
<1>0. /\ Fill(k) \in Block /\ LinkOK(b, G, E, Fill(k), o)
      /\ Fill(k).rcv_nxt = k.rcv_nxt /\ Fill(k).rcv_buf = k.rcv_buf
  BY <1>a, FillOK, ZenonT(40)
<1> DEFINE asks == Probe(k, due).probe
           full == Fill(k)
           new == Numbers(full.snd_buf) \ Numbers(k.snd_buf)
           lastAck == IF k.acklist = <<>> THEN 0 ELSE Last(k.acklist)
           acks == [i \in 1..Len(k.acklist) |-> Segment(k, "ACK", k.acklist[i])]
           asked == IF "send" \in asks THEN <<Segment(k, "WASK", lastAck)>> ELSE <<>>
           told == IF "tell" \in asks THEN <<Segment(k, "WINS", lastAck)>> ELSE <<>>
           data == Pushes(full, new \cup late)
           l == Flush(k, due)
<1>1. Output(k, late, due) = acks \o asked \o told \o data
  BY DEF Output
<1>3. lastAck \in Num
  <2>1. k.acklist \in Seq(Num) /\ 0 \in Num
    BY <1>2, BlockFacts, Constants DEF Num
  <2>2. k.acklist # <<>> => k.acklist[Len(k.acklist)] \in Num
    BY <2>1
  <2> QED BY <2>1, <2>2 DEF Last
<1>4. Sends(b, G, k, acks)
  <2>1. ASSUME NEW i \in 1..Len(k.acklist)
        PROVE  Segment(k, "ACK", k.acklist[i]) \in Seg /\ SegOK(b, G, k, Segment(k, "ACK", k.acklist[i]))
    <3>1. k.acklist[i] \in Num
      BY <1>2, BlockFacts
    <3>2. Has(b, k, k.acklist[i])
      BY <1>2 DEF LinkOK, ReceiverOK, AcksOK
    <3> QED BY <1>2, <3>1, <3>2, PlainSegment
  <2>2. Len(k.acklist) \in Nat
    BY <1>2, BlockFacts
  <2>3. acks \in Seq(Seg) /\ Len(acks) = Len(k.acklist)
    BY <2>1, <2>2
  <2>4. \A j \in 1..Len(k.acklist) : acks[j] = Segment(k, "ACK", k.acklist[j])
    OBVIOUS
  <2> HIDE DEF acks
  <2> QED BY <2>1, <2>3, <2>4 DEF Sends, DatagramOK
<1> HIDE DEF lastAck
<1>5. Sends(b, G, k, asked)
  <2>1. Segment(k, "WASK", lastAck) \in Seg /\ SegOK(b, G, k, Segment(k, "WASK", lastAck))
    BY <1>2, <1>3, PlainSegment
  <2> QED BY <2>1, SendsOne, SendsNone
<1>6. Sends(b, G, k, told)
  <2>1. Segment(k, "WINS", lastAck) \in Seg /\ SegOK(b, G, k, Segment(k, "WINS", lastAck))
    BY <1>2, <1>3, PlainSegment
  <2> QED BY <2>1, SendsOne, SendsNone
<1>7. full \in Block /\ LinkOK(b, G, E, full, o) /\ full.rcv_nxt = k.rcv_nxt /\ full.rcv_buf = k.rcv_buf
  BY <1>0 DEF full
<1>8. /\ l \in Block /\ Grows(b, k, l) /\ l.snd_nxt = full.snd_nxt
      /\ l.rcv_nxt = k.rcv_nxt /\ l.rcv_buf = k.rcv_buf
  <2>1. /\ PairOK(b, F, D, G, E, o, l) /\ Grows(b, k, l) /\ l.snd_nxt = full.snd_nxt
        /\ l.rcv_nxt = k.rcv_nxt /\ l.rcv_buf = k.rcv_buf
    BY FlushOK
  <2> QED BY <2>1 DEF PairOK
<1> HIDE DEF acks, asked, told, l, full
<1>9. Sends(b, G, full, data)
  BY <1>7, PushesOK
<1>10. Grows(b, full, l)
  BY <1>7, <1>8, GrowsSame
<1>11. At(b, k.snd_nxt) <= Len(G) /\ At(b, full.snd_nxt) <= Len(G)
  BY <1>2, <1>7, LinkFacts
<1> HIDE DEF data
<1>12. Sends(b, G, l, data)
  BY <1>7, <1>8, <1>9, <1>10, <1>11, SendsGrows
<1>13. Sends(b, G, l, acks) /\ Sends(b, G, l, asked) /\ Sends(b, G, l, told)
  BY <1>2, <1>4, <1>5, <1>6, <1>8, <1>11, SendsGrows
<1>14. Sends(b, G, l, acks \o asked \o told \o data)
  BY <1>12, <1>13, SendsBoth
<1> QED BY <1>1, <1>14 DEF l

\* A flush cuts what it sends into datagrams of 1 to DatagramSegs segments.
LEMMA Ceiling ==
  ASSUME NEW n \in Nat, NEW m \in Nat \ {0}, NEW i \in 1..((n + m - 1) \div m)
  PROVE  (i - 1) * m + 1 <= n
<1> DEFINE a == n + m - 1
           q == a \div m
<1>1. a \in Int /\ q \in Int /\ a % m \in 0..(m - 1) /\ a = m * q + (a % m)
  OBVIOUS
<1>2. i \in Nat /\ i <= q /\ a = n + m - 1
  OBVIOUS
<1> HIDE DEF a, q
<1>3. m * q <= a
  BY <1>1
<1>4. \A x, y \in Int : x <= y => m * x <= m * y
  OBVIOUS
<1>5. m * i <= m * q
  BY <1>1, <1>2, <1>4
<1>6. m * i <= n + m - 1
  BY <1>1, <1>2, <1>3, <1>5
<1>7. (i - 1) * m = m * i - m
  BY <1>2
<1> QED BY <1>2, <1>6, <1>7

LEMMA DatagramsOK ==
  ASSUME NEW b, NEW G, NEW k, NEW out, Sends(b, G, k, out)
  PROVE  Datagrams(out) \in Seq(Seq(Seg)) /\ NetOK(b, G, k, Datagrams(out))
<1> DEFINE m == DatagramSegs
           n == Len(out)
           N == (n + m - 1) \div m
           d(i) == SubSeq(out, (i - 1) * m + 1, Min({i * m, n}))
<1>0. m \in Nat \ {0} /\ n \in Nat /\ out \in Seq(Seg)
  BY Constants DEF Sends
<1>1. N \in Nat
  BY <1>0
<1>2. ASSUME NEW i \in 1..N
      PROVE  /\ d(i) \in Seq(Seg) /\ Len(d(i)) \in 1..m /\ DatagramOK(b, G, k, d(i))
  <2> DEFINE u == (i - 1) * m + 1
             v == Min({i * m, n})
  <2>1. u <= n
    BY <1>0, Ceiling
  <2>2. i * m \in Int /\ n \in Int /\ u \in Nat /\ u >= 1 /\ i * m = (u - 1) + m
    <3>1. i \in Nat /\ i >= 1 /\ i - 1 \in Nat
      BY <1>1
    <3>2. (i - 1) * m \in Nat /\ i * m = (i - 1) * m + m
      BY <1>0, <3>1
    <3> QED BY <1>0, <3>2
  <2>3. v = IF i * m <= n THEN i * m ELSE n
    BY <2>2, MinOfTwo
  <2> HIDE DEF u, v
  <2>4. v \in Nat /\ u <= v /\ v <= n /\ v <= (u - 1) + m
    BY <1>0, <2>1, <2>2, <2>3
  <2>5. d(i) = SubSeq(out, u, v)
    BY DEF u, v
  <2>6. u \in 1..(n + 1) /\ v \in (u - 1)..n
    BY <1>0, <2>1, <2>2, <2>4
  <2>7. /\ SubSeq(out, u, v) \in Seq(Seg) /\ Len(SubSeq(out, u, v)) = v - u + 1
        /\ \A j \in 1..(v - u + 1) : SubSeq(out, u, v)[j] = out[u + j - 1]
    BY <1>0, <2>6, SubSeqProperties
  <2>8. v - u + 1 \in 1..m
    BY <1>0, <2>2, <2>4
  <2>9. \A j \in 1..(v - u + 1) : u + j - 1 \in 1..n
    BY <1>0, <2>2, <2>4
  <2>10. \A j \in 1..n : SegOK(b, G, k, out[j])
    BY DEF Sends, DatagramOK
  <2> HIDE DEF n, m
  <2>11. DatagramOK(b, G, k, SubSeq(out, u, v))
    BY <2>7, <2>9, <2>10 DEF DatagramOK
  <2> QED BY <2>5, <2>7, <2>8, <2>11
<1>3. Datagrams(out) = [i \in 1..N |-> d(i)]
  BY DEF Datagrams
<1> HIDE DEF d, N
<1>4. Datagrams(out) \in Seq(Seq(Seg)) /\ Len(Datagrams(out)) = N
  BY <1>1, <1>2, <1>3
<1> QED BY <1>2, <1>3, <1>4 DEF NetOK

LEMMA NetBoth ==
  ASSUME NEW b, NEW G, NEW k, NEW q \in Seq(Seq(Seg)), NEW r \in Seq(Seq(Seg)),
         NetOK(b, G, k, q), NetOK(b, G, k, r)
  PROVE  q \o r \in Seq(Seq(Seg)) /\ NetOK(b, G, k, q \o r)
<1>2. /\ q \o r \in Seq(Seq(Seg)) /\ Len(q \o r) = Len(q) + Len(r)
      /\ \A i \in 1..(Len(q) + Len(r)) :
           (q \o r)[i] = IF i <= Len(q) THEN q[i] ELSE r[i - Len(q)]
  BY ConcatProperties
<1>3. ASSUME NEW i \in 1..(Len(q) + Len(r))
      PROVE  Len((q \o r)[i]) \in 1..DatagramSegs /\ DatagramOK(b, G, k, (q \o r)[i])
  <2>0. Len(q) \in Nat /\ Len(r) \in Nat
    OBVIOUS
  <2>1. CASE i <= Len(q)
    <3>1. i \in 1..Len(q) /\ (q \o r)[i] = q[i]
      BY <1>2, <2>0, <2>1
    <3> QED BY <3>1 DEF NetOK
  <2>2. CASE ~ (i <= Len(q))
    <3>1. i - Len(q) \in 1..Len(r) /\ (q \o r)[i] = r[i - Len(q)]
      BY <1>2, <2>0, <2>2
    <3> QED BY <3>1 DEF NetOK
  <2> QED BY <2>1, <2>2
<1> QED BY <1>2, <1>3 DEF NetOK

LEMMA NetWithout ==
  ASSUME NEW b, NEW G, NEW k, NEW q \in Seq(Seq(Seg)), NetOK(b, G, k, q), NEW m \in 1..Len(q)
  PROVE  RemoveAt(q, m) \in Seq(Seq(Seg)) /\ NetOK(b, G, k, RemoveAt(q, m))
<1> DEFINE r == RemoveAt(q, m)
<1>1. /\ r \in Seq(Seq(Seg)) /\ Len(r) = Len(q) - 1
      /\ \A i \in 1..(Len(q) - 1) : r[i] = IF i < m THEN q[i] ELSE q[i + 1]
  BY RemoveAtFacts
<1> HIDE DEF r
<1>2. \A i \in 1..(Len(q) - 1) : i \in 1..Len(q) /\ i + 1 \in 1..Len(q)
  OBVIOUS
<1>3. ASSUME NEW i \in 1..Len(r)
      PROVE  Len(r[i]) \in 1..DatagramSegs /\ DatagramOK(b, G, k, r[i])
  <2>1. i \in 1..(Len(q) - 1)
    BY <1>1
  <2>2. PICK j \in 1..Len(q) : r[i] = q[j]
    BY <1>1, <1>2, <2>1
  <2> QED BY <2>2 DEF NetOK
<1>4. NetOK(b, G, k, r)
  BY <1>3 DEF NetOK
<1> QED BY <1>1, <1>4 DEF r

-----------------------------------------------------------------------------
(* Messages and their fragments, and the two ends.                         *)

LEMMA FragmentsFacts ==
  ASSUME NEW m \in Message
  PROVE  /\ Max({1, m.size}) \in Nat /\ Max({1, m.size}) >= 1
         /\ Fragments(m) \in Seq(Frag) /\ Len(Fragments(m)) = Max({1, m.size})
         /\ \A i \in 1..Len(Fragments(m)) :
              /\ Fragments(m)[i].frg = Len(Fragments(m)) - i
              /\ Fragments(m)[i].data = <<m, i>>
<1> DEFINE c == Max({1, m.size})
<1>1. m.size \in Nat
  BY Constants DEF Message
<1>2. c \in Nat /\ c >= 1
  <2>1. 1 \in Int /\ m.size \in Int
    BY <1>1
  <2>2. c = IF 1 >= m.size THEN 1 ELSE m.size
    BY <2>1, MaxOfTwo
  <2> HIDE DEF c
  <2> QED BY <1>1, <2>2
<1>3. Fragments(m) = [i \in 1..c |-> [frg |-> c - i, data |-> <<m, i>>]]
  BY DEF Fragments
<1> HIDE DEF c
<1>4. ASSUME NEW i \in 1..c PROVE [frg |-> c - i, data |-> <<m, i>>] \in Frag
  BY <1>2 DEF Frag, Data
<1>5. Fragments(m) \in Seq(Frag) /\ Len(Fragments(m)) = c
  BY <1>2, <1>3, <1>4
<1>6. \A i \in 1..c : Fragments(m)[i].frg = c - i /\ Fragments(m)[i].data = <<m, i>>
  BY <1>3
<1>7. \A i \in 1..Len(Fragments(m)) : /\ Fragments(m)[i].frg = Len(Fragments(m)) - i
                                       /\ Fragments(m)[i].data = <<m, i>>
  BY <1>5, <1>6
<1> QED BY <1>2, <1>5, <1>7, Zenon DEF c

LEMMA NewMessage ==
  ASSUME NEW p \in Peer, NEW n \in Nat, n < MaxMsgs[p], NEW size \in Sizes
  PROVE  [id |-> n + 1, size |-> size] \in Message
<1> DEFINE S == {MaxMsgs[q] : q \in Peer}
           t == MaxMsgs[A] + MaxMsgs[B]
<1>1. MaxMsgs[A] \in Nat /\ MaxMsgs[B] \in Nat /\ MaxMsgs[p] \in Nat
  BY Constants DEF Peer
<1>2. S = {MaxMsgs[A], MaxMsgs[B]} /\ MaxMsgs[p] \in S
  BY DEF Peer
<1>3. t \in Nat /\ S \subseteq 0..t /\ S # {}
  BY <1>1, <1>2
<1> HIDE DEF S, t
<1>4. Max(S) \in S /\ MaxMsgs[p] <= Max(S)
  BY <1>2, <1>3, MaxFact
<1>4a. \A x \in S : x \in Nat
  BY <1>1, <1>2
<1>5. Max(S) \in Nat
  BY <1>4, <1>4a, Zenon
<1>6. n + 1 \in 1..Max(S)
  BY <1>1, <1>4, <1>5
<1> QED BY <1>6 DEF Message, S

LEMMA OtherFacts ==
  ASSUME NEW p \in Peer
  PROVE  /\ Other(p) \in Peer /\ Other(p) # p /\ Other(Other(p)) = p
         /\ \A q \in Peer : q = p \/ q = Other(p)
<1>0. A # B
  BY Constants
<1>1. Other(A) = B
  BY <1>0, Zenon DEF Other, Peer
<1>2. Other(B) = A
  BY <1>0, Zenon DEF Other, Peer
<1> QED BY <1>0, <1>1, <1>2 DEF Peer

LEMMA PeerFacts ==
  ASSUME NEW b, NEW F, NEW E, IInv(b, F, E), NEW p \in Peer
  PROVE  /\ b \in Num /\ F[p] \in Seq(Frag) /\ Fits(F[p])
         /\ kcp[p] \in Block /\ net[p] \in Seq(Seq(Seg))
         /\ sent[p] \in Seq(Message) /\ received[p] \in Seq(Seq(Data))
         /\ Len(received[Other(p)]) \in 0..Len(sent[p])
         /\ E[p][Len(received[Other(p)])] \in Nat
         /\ PeerOK(b, F, E, p)
<1>1. Other(p) \in Peer
  BY OtherFacts
<1>2. /\ b \in Num /\ F[p] \in Seq(Frag) /\ kcp[p] \in Block /\ net[p] \in Seq(Seq(Seg))
      /\ sent[p] \in Seq(Message) /\ received[p] \in Seq(Seq(Data))
      /\ received[Other(p)] \in Seq(Seq(Data)) /\ PeerOK(b, F, E, p)
  BY <1>1 DEF IInv, Shape
<1>3. Fits(F[p])
  BY <1>2, SessionFits DEF PeerOK
<1>4. Len(received[Other(p)]) \in Nat /\ Len(received[Other(p)]) <= Len(sent[p])
      /\ Len(sent[p]) \in Nat
  BY <1>2 DEF PeerOK, ReadOK
<1>5. E[p] \in [0..Len(sent[p]) -> Nat]
  BY <1>2 DEF PeerOK, LogOK
<1>6. E[p][Len(received[Other(p)])] \in Nat
  BY <1>4, <1>5
<1> QED BY <1>2, <1>3, <1>4, <1>6

\* The block of p between the two links.
LEMMA PairFacts ==
  ASSUME NEW b, NEW F, NEW E, IInv(b, F, E), NEW p \in Peer
  PROVE  PairOK(b, F[Other(p)], E[Other(p)][Len(received[p])],
                F[p], E[p][Len(received[Other(p)])], kcp[Other(p)], kcp[p])
<1>1. Other(p) \in Peer /\ Other(Other(p)) = p
  BY OtherFacts
<1>2. kcp[p] \in Block /\ PeerOK(b, F, E, p) /\ PeerOK(b, F, E, Other(p))
  BY <1>1, PeerFacts
<1> QED BY <1>1, <1>2 DEF PairOK, PeerOK

\* A step in which only the block of p and the network change.
LEMMA BlockStep ==
  ASSUME NEW b, NEW F, NEW E, IInv(b, F, E), NEW p \in Peer, NEW k,
         PairOK(b, F[Other(p)], E[Other(p)][Len(received[p])],
                F[p], E[p][Len(received[Other(p)])], kcp[Other(p)], k),
         kcp' = [kcp EXCEPT ![p] = k], sent' = sent, received' = received,
         net' \in [Peer -> Seq(Seq(Seg))], faults' \in 0..MaxFaults,
         NetOK(b, F[p], k, net'[Other(p)]),
         NetOK(b, F[Other(p)], kcp[Other(p)], net'[p])
  PROVE  IInv(b, F, E)'
<1> DEFINE q == Other(p)
<1>1. q \in Peer /\ q # p /\ Other(q) = p /\ \A r \in Peer : r = p \/ r = q
  BY OtherFacts
<1> HIDE DEF q
<1>q. q = Other(p)
  BY DEF q
<1>2. kcp \in [Peer -> Block] /\ k \in Block
  BY DEF IInv, Shape, PairOK
<1>3. kcp' \in [Peer -> Block] /\ kcp'[p] = k /\ kcp'[q] = kcp[q]
  BY <1>1, <1>2
<1>4. Shape'
  BY <1>3 DEF Shape, IInv
<1>5. PeerOK(b, F, E, p)'
  <2>1. PeerOK(b, F, E, p)
    BY PeerFacts
  <2>2. LinkOK(b, F[p], E[p][Len(received[q])], k, kcp[q])
    BY <1>q DEF PairOK
  <2>3. NetOK(b, F[p], k, net'[q])
    BY <1>q
  <2> QED BY <1>q, <1>3, <2>1, <2>2, <2>3 DEF PeerOK
<1>6. PeerOK(b, F, E, q)'
  <2>1. PeerOK(b, F, E, q)
    BY <1>1, PeerFacts
  <2>2. LinkOK(b, F[q], E[q][Len(received[p])], kcp[q], k)
    BY <1>q DEF PairOK
  <2>3. NetOK(b, F[q], kcp[q], net'[p])
    BY <1>q
  <2> QED BY <1>1, <1>3, <2>1, <2>2, <2>3 DEF PeerOK
<1>7. \A r \in Peer : PeerOK(b, F, E, r)'
  BY <1>1, <1>5, <1>6 DEF PeerOK
<1> QED BY <1>4, <1>7 DEF IInv

LEMMA UpdateOK ==
  ASSUME NEW b, NEW F, NEW E, IInv(b, F, E), NEW p \in Peer, NEW late, NEW due,
         ikcp_update(p, late, due)
  PROVE  IInv(b, F, E)'
<1> DEFINE q == Other(p)
           k == Flush(kcp[p], due)
           more == Datagrams(Output(kcp[p], late, due))
<1>1. q \in Peer /\ q # p /\ Other(q) = p
  BY OtherFacts
<1>2. PairOK(b, F[q], E[q][Len(received[p])], F[p], E[p][Len(received[q])], kcp[q], kcp[p])
  BY PairFacts
<1>3. /\ b \in Num /\ F[p] \in Seq(Frag) /\ F[q] \in Seq(Frag) /\ Fits(F[p])
      /\ kcp[p] \in Block /\ kcp[q] \in Block /\ PeerOK(b, F, E, p) /\ PeerOK(b, F, E, q)
      /\ net[p] \in Seq(Seq(Seg)) /\ net[q] \in Seq(Seq(Seg))
  BY <1>1, PeerFacts
<1>4. /\ PairOK(b, F[q], E[q][Len(received[p])], F[p], E[p][Len(received[q])], kcp[q], k)
      /\ Grows(b, kcp[p], k)
  BY <1>2, <1>3, FlushOK
<1>5. \A i \in 1..Len(F[p]) : F[p][i].frg < RcvWnd
  BY <1>3 DEF PeerOK, BoundOK
<1>6. Sends(b, F[p], k, Output(kcp[p], late, due))
  BY <1>2, <1>3, <1>5, OutputOK
<1>7. more \in Seq(Seq(Seg)) /\ NetOK(b, F[p], k, more)
  BY <1>6, DatagramsOK
<1>8. kcp' = [kcp EXCEPT ![p] = k] /\ net' = [net EXCEPT ![q] = net[q] \o more]
      /\ faults' = faults /\ sent' = sent /\ received' = received
  BY DEF ikcp_update
<1> HIDE DEF k, more
<1>9. NetOK(b, F[p], kcp[p], net[q]) /\ NetOK(b, F[q], kcp[q], net[p])
  BY <1>1, <1>3 DEF PeerOK
<1>10. NetOK(b, F[p], k, net[q])
  <2>1. At(b, kcp[p].snd_nxt) <= Len(F[p])
    BY <1>2, <1>3, LinkFacts DEF PairOK
  <2>2. Extends(F[p], F[p]) /\ k \in Block
    BY <1>4 DEF Extends, PairOK
  <2> QED BY <1>3, <1>4, <1>9, <2>1, <2>2, NetGrows
<1>11. net[q] \o more \in Seq(Seq(Seg)) /\ NetOK(b, F[p], k, net[q] \o more)
  BY <1>3, <1>7, <1>10, NetBoth
<1>12. net \in [Peer -> Seq(Seq(Seg))] /\ faults \in 0..MaxFaults
  BY DEF IInv, Shape
<1> HIDE DEF q
<1>13. net' \in [Peer -> Seq(Seq(Seg))] /\ net'[q] = net[q] \o more /\ net'[p] = net[p]
  BY <1>1, <1>8, <1>11, <1>12
<1>14. NetOK(b, F[p], k, net'[q]) /\ NetOK(b, F[q], kcp[q], net'[p])
  BY <1>9, <1>11, <1>13
<1> QED BY <1>4, <1>8, <1>12, <1>13, <1>14, BlockStep DEF q

LEMMA InputActionOK ==
  ASSUME NEW b, NEW F, NEW E, IInv(b, F, E), NEW p \in Peer, NEW i \in 1..Len(net[p]),
         NEW copy \in BOOLEAN, ikcp_input(p, i, copy)
  PROVE  IInv(b, F, E)'
<1> DEFINE q == Other(p)
           d == net[p][i]
           k == Input(kcp[p], d)
<1>1. q \in Peer /\ q # p /\ Other(q) = p
  BY OtherFacts
<1>2. PairOK(b, F[q], E[q][Len(received[p])], F[p], E[p][Len(received[q])], kcp[q], kcp[p])
  BY PairFacts
<1>3. /\ b \in Num /\ F[p] \in Seq(Frag) /\ F[q] \in Seq(Frag) /\ Fits(F[p]) /\ Fits(F[q])
      /\ kcp[p] \in Block /\ kcp[q] \in Block /\ PeerOK(b, F, E, p) /\ PeerOK(b, F, E, q)
      /\ net[p] \in Seq(Seq(Seg)) /\ net[q] \in Seq(Seq(Seg))
      /\ E[q][Len(received[p])] \in Nat /\ E[p][Len(received[q])] \in Nat
  BY <1>1, PeerFacts
<1>9. NetOK(b, F[p], kcp[p], net[q]) /\ NetOK(b, F[q], kcp[q], net[p])
  BY <1>1, <1>3 DEF PeerOK
<1>4. d \in Seq(Seg) /\ DatagramOK(b, F[q], kcp[q], d)
  BY <1>3, <1>9 DEF NetOK
<1>5. /\ PairOK(b, F[q], E[q][Len(received[p])], F[p], E[p][Len(received[q])], kcp[q], k)
      /\ Grows(b, kcp[p], k)
  <2> HIDE DEF d, q
  <2> QED BY <1>2, <1>3, <1>4, InputOK
<1>8. /\ kcp' = [kcp EXCEPT ![p] = k] /\ sent' = sent /\ received' = received
      /\ net' = [net EXCEPT ![p] = IF copy THEN net[p] ELSE RemoveAt(net[p], i)]
      /\ faults' = (IF copy THEN faults + 1 ELSE faults) /\ (copy => faults < MaxFaults)
  BY DEF ikcp_input
<1> HIDE DEF k, d
<1>10. NetOK(b, F[p], k, net[q])
  <2>1. At(b, kcp[p].snd_nxt) <= Len(F[p])
    BY <1>2, <1>3, LinkFacts DEF PairOK
  <2>2. Extends(F[p], F[p]) /\ k \in Block
    BY <1>5 DEF Extends, PairOK
  <2> QED BY <1>3, <1>5, <1>9, <2>1, <2>2, NetGrows
<1>11. RemoveAt(net[p], i) \in Seq(Seq(Seg)) /\ NetOK(b, F[q], kcp[q], RemoveAt(net[p], i))
  BY <1>3, <1>9, NetWithout
<1>12. net \in [Peer -> Seq(Seq(Seg))] /\ faults \in 0..MaxFaults /\ MaxFaults \in Nat
  BY Constants DEF IInv, Shape
<1> HIDE DEF q
<1>13. /\ net' \in [Peer -> Seq(Seq(Seg))] /\ net'[q] = net[q]
       /\ net'[p] = IF copy THEN net[p] ELSE RemoveAt(net[p], i)
  BY <1>1, <1>3, <1>8, <1>11, <1>12
<1>14. NetOK(b, F[p], k, net'[q])
  BY <1>10, <1>13
<1>15. NetOK(b, F[q], kcp[q], net'[p])
  BY <1>9, <1>11, <1>13
<1>16. faults' \in 0..MaxFaults
  BY <1>8, <1>12
<1> QED BY <1>5, <1>8, <1>13, <1>14, <1>15, <1>16, BlockStep DEF q

LEMMA LoseOK ==
  ASSUME NEW b, NEW F, NEW E, IInv(b, F, E), NEW p \in Peer, NEW i \in 1..Len(net[p]),
         Lose(p, i)
  PROVE  IInv(b, F, E)'
<1> DEFINE q == Other(p)
           k == kcp[p]
<1>1. q \in Peer /\ q # p /\ Other(q) = p
  BY OtherFacts
<1>2. PairOK(b, F[q], E[q][Len(received[p])], F[p], E[p][Len(received[q])], kcp[q], k)
  BY PairFacts
<1>3. /\ PeerOK(b, F, E, p) /\ PeerOK(b, F, E, q)
      /\ net[p] \in Seq(Seq(Seg)) /\ net[q] \in Seq(Seq(Seg))
  BY <1>1, PeerFacts
<1>4. NetOK(b, F[p], k, net[q]) /\ NetOK(b, F[q], kcp[q], net[p])
  BY <1>1, <1>3 DEF PeerOK
<1>5. RemoveAt(net[p], i) \in Seq(Seq(Seg)) /\ NetOK(b, F[q], kcp[q], RemoveAt(net[p], i))
  BY <1>3, <1>4, NetWithout
<1>6. net \in [Peer -> Seq(Seq(Seg))] /\ faults \in 0..MaxFaults /\ MaxFaults \in Nat
      /\ kcp \in [Peer -> Block]
  BY Constants DEF IInv, Shape
<1>7. /\ kcp' = [kcp EXCEPT ![p] = k] /\ sent' = sent /\ received' = received
      /\ net' = [net EXCEPT ![p] = RemoveAt(net[p], i)]
      /\ faults' = faults + 1 /\ faults < MaxFaults
  BY <1>6 DEF Lose
<1> HIDE DEF q, k
<1>8. /\ net' \in [Peer -> Seq(Seq(Seg))] /\ net'[q] = net[q]
      /\ net'[p] = RemoveAt(net[p], i)
  BY <1>1, <1>5, <1>6, <1>7
<1>9. NetOK(b, F[p], k, net'[q]) /\ NetOK(b, F[q], kcp[q], net'[p])
  BY <1>4, <1>5, <1>8
<1>10. faults' \in 0..MaxFaults
  BY <1>6, <1>7
<1> QED BY <1>2, <1>7, <1>8, <1>9, <1>10, BlockStep DEF q

LEMMA InitOK == Init => Sound
<1> SUFFICES ASSUME Init PROVE Sound
  OBVIOUS
<1>1. PICK b \in Start : kcp = [p \in Peer |-> Create(b)]
  BY DEF Init
<1> DEFINE F == [p \in Peer |-> <<>>]
           E == [p \in Peer |-> [i \in 0..0 |-> 0]]
           k == Create(b)
<1>2. b \in Num /\ RcvWnd \in Nat \ {0} /\ Word \in Nat \ {0} /\ MaxFaults \in Nat
      /\ DatagramSegs \in Nat
  BY Constants
<1>3. /\ k \in Block /\ k.snd_nxt = b /\ k.rcv_nxt = b /\ k.snd_queue = <<>> /\ k.snd_buf = <<>>
      /\ k.rcv_buf = <<>> /\ k.rcv_queue = <<>> /\ k.acklist = <<>>
  <2>1. <<>> \in Seq(Frag) /\ <<>> \in Seq(Piece) /\ <<>> \in Seq(Num) /\ RcvWnd \in 0..RcvWnd
    BY <1>2
  <2> QED BY <1>2, <2>1 DEF Create, Block
<1> HIDE DEF k
<1>4. At(b, b) = 0
  BY <1>2, AtIs DEF Num
<1>5. Len(<<>>) = 0 /\ \A i \in 1..0 : FALSE
  OBVIOUS
<1>6. LinkOK(b, <<>>, 0, k, k)
  <2>1. SenderOK(b, <<>>, k)
    BY <1>3, <1>4, <1>5 DEF SenderOK, Numbered
  <2>2. ReceiverOK(b, <<>>, 0, 0, k)
    BY <1>2, <1>3, <1>4, <1>5 DEF ReceiverOK, QueueOK, Numbered, BufferOK, AcksOK
  <2>3. Covered(b, k, k)
    BY <1>3, <1>4 DEF Covered
  <2> QED BY <1>3, <1>4, <2>1, <2>2, <2>3 DEF LinkOK
<1>7. Shape
  <2>1. <<>> \in Seq(Seq(Seg)) /\ <<>> \in Seq(Message) /\ <<>> \in Seq(Seq(Data))
    OBVIOUS
  <2>2. net = [p \in Peer |-> <<>>] /\ faults = 0 /\ sent = [p \in Peer |-> <<>>]
        /\ received = [p \in Peer |-> <<>>]
    BY DEF Init
  <2> QED BY <1>1, <1>2, <1>3, <2>1, <2>2 DEF Shape, k
<1>8. ASSUME NEW p \in Peer PROVE PeerOK(b, F, E, p)
  <2>1. Other(p) \in Peer
    BY OtherFacts
  <2>2. /\ sent[p] = <<>> /\ received[Other(p)] = <<>> /\ net[Other(p)] = <<>>
        /\ kcp[p] = k /\ kcp[Other(p)] = k /\ F[p] = <<>> /\ E[p] = [i \in 0..0 |-> 0]
    BY <1>1, <2>1 DEF Init, k
  <2> HIDE DEF F, E
  <2>3. LogOK(<<>>, E[p], <<>>)
    <3>1. E[p] \in [0..0 -> Nat] /\ E[p][0] = 0
      BY <2>2
    <3> QED BY <1>5, <3>1 DEF LogOK
  <2>4. BoundOK(<<>>, <<>>, MaxMsgs[p])
    <3>1. MaxMsgs[p] \in Nat /\ 0 * RcvWnd = 0
      BY <1>2, Constants
    <3> QED BY <1>5, <3>1 DEF BoundOK
  <2>5. ReadOK(<<>>, <<>>)
    BY <1>5 DEF ReadOK
  <2>6. NetOK(b, <<>>, k, <<>>)
    BY <1>5 DEF NetOK
  <2>7. E[p][Len(<<>>)] = 0
    BY <1>5, <2>2
  <2> QED BY <1>6, <2>2, <2>3, <2>4, <2>5, <2>6, <2>7 DEF PeerOK
<1>9. F \in [Peer -> Seq(Frag)]
  <2>1. <<>> \in Seq(Frag)
    OBVIOUS
  <2> QED BY <2>1
<1> HIDE DEF F, E
<1>10. IInv(b, F, E)
  BY <1>2, <1>7, <1>8, <1>9 DEF IInv
<1> QED BY <1>10 DEF Sound

\* A new message goes to the end of the log and of snd_queue.
LEMMA LinkExtends ==
  ASSUME NEW b \in Num, NEW F \in Seq(Frag), NEW D \in Nat, NEW s \in Block, NEW r \in Block,
         LinkOK(b, F, D, s, r), NEW f \in Seq(Frag), NEW t \in Block,
         t.snd_nxt = s.snd_nxt, t.snd_buf = s.snd_buf, t.snd_queue = s.snd_queue \o f
  PROVE  LinkOK(b, F \o f, D, t, r) /\ Extends(F, F \o f)
<1> DEFINE G == F \o f
           X == At(b, s.snd_nxt)
<1>1. /\ G \in Seq(Frag) /\ Len(G) = Len(F) + Len(f)
      /\ \A i \in 1..(Len(F) + Len(f)) : G[i] = IF i <= Len(F) THEN F[i] ELSE f[i - Len(F)]
  BY ConcatProperties
<1>2. s.snd_queue \in Seq(Frag)
  BY BlockFacts
<1>3. /\ t.snd_queue \in Seq(Frag) /\ Len(t.snd_queue) = Len(s.snd_queue) + Len(f)
      /\ \A i \in 1..(Len(s.snd_queue) + Len(f)) :
           t.snd_queue[i] = IF i <= Len(s.snd_queue) THEN s.snd_queue[i]
                            ELSE f[i - Len(s.snd_queue)]
  BY <1>2, ConcatProperties
<1>4. /\ X \in Nat /\ At(b, r.rcv_nxt) \in Nat /\ Len(F) \in Nat /\ Len(f) \in Nat
      /\ At(b, r.rcv_nxt) <= X /\ X <= Len(F) /\ Len(s.snd_queue) \in Nat
      /\ \A i \in 1..Len(s.snd_buf) : At(b, s.snd_buf[i].sn) \in 0..(X - 1)
      /\ \A i \in 1..Len(r.rcv_buf) : At(b, r.rcv_buf[i].sn) \in 0..(X - 1)
  <2>1. Len(f) \in Nat /\ Len(s.snd_queue) \in Nat
    BY <1>2
  <2>2. /\ X \in Nat /\ At(b, r.rcv_nxt) \in Nat /\ Len(F) \in Nat
        /\ At(b, r.rcv_nxt) <= X /\ X <= Len(F)
        /\ \A i \in 1..Len(s.snd_buf) : At(b, s.snd_buf[i].sn) \in 0..(X - 1)
        /\ \A i \in 1..Len(r.rcv_buf) : At(b, r.rcv_buf[i].sn) \in 0..(X - 1)
    BY LinkFacts
  <2> HIDE DEF X
  <2> QED BY <2>1, <2>2
<1> HIDE DEF G, X
<1>5. \A i \in 1..Len(F) : G[i] = F[i]
  BY <1>1, <1>4
<1>6. Extends(F, G)
  BY <1>1, <1>4, <1>5 DEF Extends
<1>7. /\ SenderOK(b, F, s) /\ ReceiverOK(b, F, X, D, r) /\ Covered(b, s, r)
  BY DEF LinkOK, X
<1>8. \A x \in 0..(X - 1) : x + 1 \in 1..Len(F)
  BY <1>4
<1>9. SenderOK(b, G, t)
  <2>0. X + Len(s.snd_queue) = Len(F) /\ \A i \in 1..Len(s.snd_queue) : s.snd_queue[i] = F[X + i]
    BY <1>7 DEF SenderOK, X
  <2>1. X + Len(t.snd_queue) = Len(G)
    <3>1. PICK x \in Nat : x = X
      BY <1>4
    <3>2. PICK y \in Nat : y = Len(s.snd_queue)
      BY <1>4
    <3>3. PICK z \in Nat : z = Len(F)
      BY <1>4
    <3>4. PICK u \in Nat : u = Len(f)
      BY <1>4
    <3>5. x + y = z
      BY <2>0, <3>1, <3>2, <3>3
    <3>6. x + (y + u) = z + u
      BY <3>5
    <3>7. Len(t.snd_queue) = y + u /\ Len(G) = z + u
      BY <1>1, <1>3, <3>2, <3>3, <3>4
    <3> QED BY <3>1, <3>6, <3>7
  <2>2. ASSUME NEW i \in 1..Len(t.snd_queue) PROVE t.snd_queue[i] = G[X + i]
    <3> DEFINE l == Len(s.snd_queue)
    <3>1. i \in 1..(l + Len(f)) /\ i \in Nat /\ l \in Nat
      BY <1>3, <1>4
    <3>2. CASE i <= l
      <4>1. i \in 1..l /\ t.snd_queue[i] = s.snd_queue[i]
        BY <1>3, <3>1, <3>2
      <4>2. X + i \in 1..Len(F)
        BY <1>4, <2>0, <4>1
      <4>3. s.snd_queue[i] = F[X + i]
        BY <2>0, <4>1
      <4> QED BY <1>5, <4>1, <4>2, <4>3
    <3>3. CASE ~ (i <= l)
      <4>1. t.snd_queue[i] = f[i - l]
        BY <1>3, <3>1, <3>3
      <4> HIDE DEF l
      <4>2. X + l = Len(F)
        BY <2>0 DEF l
      <4>3. X + i \in 1..(Len(F) + Len(f)) /\ ~ (X + i <= Len(F)) /\ (X + i) - Len(F) = i - l
        <5>1. PICK x \in Nat : x = X
          BY <1>4
        <5>2. PICK z \in Nat : z = Len(F)
          BY <1>4
        <5>3. PICK u \in Nat : u = Len(f)
          BY <1>4
        <5>4. x + l = z /\ i \in 1..(l + u)
          BY <3>1, <4>2, <5>1, <5>2, <5>3
        <5>5. x + i \in 1..(z + u) /\ ~ (x + i <= z) /\ (x + i) - z = i - l
          BY <3>1, <3>3, <5>4
        <5> QED BY <5>1, <5>2, <5>3, <5>5
      <4>4. G[X + i] = f[(X + i) - Len(F)]
        BY <1>1, <4>3
      <4> QED BY <4>1, <4>3, <4>4
    <3> QED BY <3>2, <3>3
  <2>3. Numbered(b, G, s.snd_buf, X)
    <3> SUFFICES ASSUME NEW i \in 1..Len(s.snd_buf)
                 PROVE  /\ At(b, s.snd_buf[i].sn) < X
                        /\ Same(s.snd_buf[i], G[At(b, s.snd_buf[i].sn) + 1])
      BY DEF Numbered
    <3>1. At(b, s.snd_buf[i].sn) < X /\ Same(s.snd_buf[i], F[At(b, s.snd_buf[i].sn) + 1])
      BY <1>7 DEF SenderOK, Numbered, X
    <3>2. G[At(b, s.snd_buf[i].sn) + 1] = F[At(b, s.snd_buf[i].sn) + 1]
      BY <1>4, <1>5, <1>8
    <3> QED BY <3>1, <3>2
  <2> QED BY <2>1, <2>2, <2>3 DEF SenderOK, X
<1>10. ReceiverOK(b, G, X, D, r)
  <2>1. Numbered(b, G, r.rcv_buf, X)
    <3> SUFFICES ASSUME NEW i \in 1..Len(r.rcv_buf)
                 PROVE  /\ At(b, r.rcv_buf[i].sn) < X
                        /\ Same(r.rcv_buf[i], G[At(b, r.rcv_buf[i].sn) + 1])
      BY DEF Numbered
    <3>1. At(b, r.rcv_buf[i].sn) < X /\ Same(r.rcv_buf[i], F[At(b, r.rcv_buf[i].sn) + 1])
      BY <1>7 DEF ReceiverOK, Numbered
    <3>2. G[At(b, r.rcv_buf[i].sn) + 1] = F[At(b, r.rcv_buf[i].sn) + 1]
      BY <1>4, <1>5, <1>8
    <3> QED BY <3>1, <3>2
  <2>2. QueueOK(b, G, D, r)
    <3>0. /\ D + Len(r.rcv_queue) = At(b, r.rcv_nxt) /\ Len(r.rcv_queue) <= RcvWnd
          /\ \A i \in 1..Len(r.rcv_queue) : Same(r.rcv_queue[i], F[D + i])
          /\ Len(r.rcv_queue) \in Nat
      BY <1>7, BlockFacts DEF ReceiverOK, QueueOK
    <3>1. \A i \in 1..Len(r.rcv_queue) : D + i \in 1..Len(F)
      BY <1>4, <3>0
    <3>2. \A i \in 1..Len(r.rcv_queue) : Same(r.rcv_queue[i], G[D + i])
      BY <1>5, <3>0, <3>1
    <3> QED BY <3>0, <3>2 DEF QueueOK
  <2> QED BY <1>7, <2>1, <2>2 DEF ReceiverOK
<1>11. Covered(b, t, r)
  BY <1>7 DEF Covered
<1>12. LinkOK(b, G, D, t, r)
  BY <1>9, <1>10, <1>11 DEF LinkOK, X
<1> QED BY <1>6, <1>12 DEF G

LEMMA LogExtends ==
  ASSUME NEW F \in Seq(Frag), NEW E, NEW msgs \in Seq(Message), LogOK(F, E, msgs),
         NEW n \in Nat, BoundOK(F, msgs, n), Len(msgs) < n,
         NEW m \in Message, Len(Fragments(m)) < RcvWnd, NEW E1,
         E1 = [i \in 0..(Len(msgs) + 1) |->
                 IF i = Len(msgs) + 1 THEN Len(F) + Len(Fragments(m)) ELSE E[i]]
  PROVE  LogOK(F \o Fragments(m), E1, Append(msgs, m))
         /\ BoundOK(F \o Fragments(m), Append(msgs, m), n)
<1> DEFINE f == Fragments(m)
           G == F \o f
           N == Len(msgs)
           more == Append(msgs, m)
<1>1. /\ f \in Seq(Frag) /\ Len(f) \in Nat /\ Len(f) >= 1
      /\ \A i \in 1..Len(f) : f[i].frg = Len(f) - i
  BY FragmentsFacts
<1>2. /\ N \in Nat /\ Len(F) \in Nat /\ more \in Seq(Message) /\ Len(more) = N + 1
      /\ more[N + 1] = m /\ (\A i \in 1..N : more[i] = msgs[i]) /\ RcvWnd \in Nat
  BY Constants
<1>r. Len(f) < RcvWnd
  OBVIOUS
<1> HIDE DEF f
<1>3. /\ G \in Seq(Frag) /\ Len(G) = Len(F) + Len(f)
      /\ \A i \in 1..(Len(F) + Len(f)) : G[i] = IF i <= Len(F) THEN F[i] ELSE f[i - Len(F)]
  BY <1>1, ConcatProperties
<1> HIDE DEF G, more
<1>4. /\ E \in [0..N -> Nat] /\ E[0] = 0 /\ E[N] = Len(F)
      /\ \A j \in 1..N : /\ Len(Fragments(msgs[j])) < RcvWnd
                         /\ E[j] = E[j - 1] + Len(Fragments(msgs[j]))
                         /\ E[j] <= Len(F)
                         /\ \A i \in 1..Len(Fragments(msgs[j])) :
                              F[E[j - 1] + i] = Fragments(msgs[j])[i]
  BY DEF LogOK
<1>5. /\ E1 = [i \in 0..(N + 1) |-> IF i = N + 1 THEN Len(F) + Len(f) ELSE E[i]]
  BY DEF f
<1>6. /\ E1 \in [0..(N + 1) -> Nat] /\ E1[N + 1] = Len(F) + Len(f)
      /\ \A i \in 0..N : E1[i] = E[i]
  <2>0. \A i \in 0..N : E[i] \in Nat
    BY <1>4
  <2> HIDE DEF N
  <2>1. \A i \in 0..N : i # N + 1 /\ i \in 0..(N + 1)
    BY <1>2
  <2>2. Len(F) + Len(f) \in Nat /\ N + 1 \in 0..(N + 1)
    BY <1>1, <1>2
  <2>3. \A i \in 0..(N + 1) : i = N + 1 \/ i \in 0..N
    BY <1>2
  <2> QED BY <1>5, <2>0, <2>1, <2>2, <2>3
<1>7. ASSUME NEW j \in 1..(N + 1)
      PROVE  /\ Len(Fragments(more[j])) < RcvWnd
             /\ E1[j] = E1[j - 1] + Len(Fragments(more[j]))
             /\ E1[j] <= Len(G)
             /\ \A i \in 1..Len(Fragments(more[j])) :
                  G[E1[j - 1] + i] = Fragments(more[j])[i]
  <2>1. CASE j = N + 1
    <3>1. more[j] = m /\ Fragments(more[j]) = f /\ j - 1 = N /\ N \in 0..N
      BY <1>2, <2>1 DEF f
    <3>2. E1[j - 1] = Len(F) /\ E1[j] = Len(F) + Len(f)
      BY <1>4, <1>6, <2>1, <3>1
    <3>3. \A i \in 1..Len(f) : G[Len(F) + i] = f[i]
      <4> TAKE i \in 1..Len(f)
      <4>1. Len(F) + i \in 1..(Len(F) + Len(f)) /\ ~ (Len(F) + i <= Len(F))
            /\ Len(F) + i - Len(F) = i
        BY <1>1, <1>2
      <4> QED BY <1>3, <4>1
    <3>4. Len(F) + Len(f) <= Len(G)
      BY <1>1, <1>2, <1>3
    <3> QED BY <1>r, <3>1, <3>2, <3>3, <3>4
  <2>2. CASE j # N + 1
    <3>1. j \in 1..N /\ j \in 0..N /\ j - 1 \in 0..N
      BY <1>2, <2>2
    <3>2. more[j] = msgs[j] /\ E1[j] = E[j] /\ E1[j - 1] = E[j - 1]
      BY <1>2, <1>6, <3>1
    <3>3. /\ Len(Fragments(msgs[j])) < RcvWnd
          /\ E[j] = E[j - 1] + Len(Fragments(msgs[j]))
          /\ E[j] <= Len(F)
          /\ \A i \in 1..Len(Fragments(msgs[j])) : F[E[j - 1] + i] = Fragments(msgs[j])[i]
      BY <1>4, <3>1
    <3>4. E[j] \in Nat /\ E[j - 1] \in Nat
      BY <1>4, <3>1
    <3>5. msgs[j] \in Message
      BY <3>1
    <3>6. Len(Fragments(msgs[j])) \in Nat
      BY <3>5, FragmentsFacts
    <3>7. \A i \in 1..Len(Fragments(msgs[j])) : G[E[j - 1] + i] = F[E[j - 1] + i]
      <4> TAKE i \in 1..Len(Fragments(msgs[j]))
      <4>0. \A x, y, z, u, v \in Nat : z = x + y /\ z <= u /\ i \in 1..y
                => x + i \in 1..(u + v) /\ x + i <= u
        OBVIOUS
      <4>1. E[j - 1] + i \in 1..(Len(F) + Len(f)) /\ E[j - 1] + i <= Len(F)
        BY <1>1, <1>2, <3>3, <3>4, <3>6, <4>0, Zenon
      <4> QED BY <1>3, <4>1
    <3>8. E[j] <= Len(G)
      BY <1>1, <1>2, <1>3, <3>3, <3>4
    <3> QED BY <3>2, <3>3, <3>7, <3>8
  <2> QED BY <2>1, <2>2
<1>8. LogOK(G, E1, more)
  <2>1. E1[0] = 0 /\ E1[N + 1] = Len(G)
    BY <1>2, <1>3, <1>4, <1>6
  <2> QED BY <1>2, <1>6, <1>7, <2>1 DEF LogOK
<1>9. BoundOK(G, more, n)
  <2>1. N < n /\ Len(F) <= N * RcvWnd /\ \A i \in 1..Len(F) : F[i].frg < RcvWnd
    BY DEF BoundOK
  <2>2. N + 1 <= n
    BY <1>2, <2>1
  <2>3. Len(G) <= (N + 1) * RcvWnd
    <3>1. (N + 1) * RcvWnd = N * RcvWnd + RcvWnd /\ N * RcvWnd \in Nat
      BY <1>2
    <3> QED BY <1>1, <1>2, <1>3, <1>r, <2>1, <3>1
  <2>4. ASSUME NEW i \in 1..Len(G) PROVE G[i].frg < RcvWnd
    <3>1. CASE i <= Len(F)
      <4>1. i \in 1..Len(F) /\ G[i] = F[i]
        BY <1>1, <1>2, <1>3, <3>1
      <4> QED BY <2>1, <4>1
    <3>2. CASE ~ (i <= Len(F))
      <4>1. i - Len(F) \in 1..Len(f) /\ G[i] = f[i - Len(F)]
        BY <1>1, <1>2, <1>3, <3>2
      <4>2. G[i].frg = Len(f) - (i - Len(F))
        BY <1>1, <4>1
      <4> QED BY <1>1, <1>2, <1>r, <4>1, <4>2
    <3> QED BY <3>1, <3>2
  <2> QED BY <1>2, <2>2, <2>3, <2>4 DEF BoundOK
<1> QED BY <1>8, <1>9 DEF G, f, more

LEMMA SendOK ==
  ASSUME NEW b, NEW F, NEW E, IInv(b, F, E), NEW p \in Peer, NEW m \in Message, ikcp_send(p, m)
  PROVE  Sound'
<1> DEFINE q == Other(p)
           f == Fragments(m)
           N == Len(sent[p])
           e == [i \in 0..(N + 1) |-> IF i = N + 1 THEN Len(F[p]) + Len(f) ELSE E[p][i]]
           k == [kcp[p] EXCEPT !.snd_queue = kcp[p].snd_queue \o f]
           D == E[p][Len(received[q])]
<1>1. q \in Peer /\ q # p /\ Other(q) = p /\ \A r \in Peer : r = p \/ r = q
  BY OtherFacts
<1>2. /\ b \in Num /\ F[p] \in Seq(Frag) /\ kcp[p] \in Block /\ kcp[q] \in Block
      /\ PeerOK(b, F, E, p) /\ PeerOK(b, F, E, q) /\ sent[p] \in Seq(Message)
      /\ D \in Nat /\ Len(received[q]) \in 0..N /\ net[q] \in Seq(Seq(Seg))
  BY <1>1, PeerFacts
<1>3. f \in Seq(Frag)
  BY FragmentsFacts
<1>4. /\ N < MaxMsgs[p] /\ Len(f) < RcvWnd /\ sent' = [sent EXCEPT ![p] = Append(sent[p], m)]
      /\ kcp' = [kcp EXCEPT ![p] = k] /\ net' = net /\ faults' = faults /\ received' = received
  <2>1. kcp' = [kcp EXCEPT ![p].snd_queue = @ \o Fragments(m)]
    BY DEF ikcp_send
  <2>2. [kcp EXCEPT ![p].snd_queue = @ \o Fragments(m)] = [kcp EXCEPT ![p] = k]
    OBVIOUS
  <2> QED BY <2>1, <2>2 DEF ikcp_send
<1>5. /\ k \in Block /\ k.snd_nxt = kcp[p].snd_nxt /\ k.snd_buf = kcp[p].snd_buf
      /\ k.snd_queue = kcp[p].snd_queue \o f /\ k.rcv_nxt = kcp[p].rcv_nxt
      /\ k.rcv_queue = kcp[p].rcv_queue /\ k.rcv_buf = kcp[p].rcv_buf
      /\ k.acklist = kcp[p].acklist
  <2>1. kcp[p].snd_queue \o f \in Seq(Frag)
    BY <1>2, <1>3, BlockFacts, ConcatProperties
  <2> QED BY <1>2, <2>1 DEF Block
<1> HIDE DEF k
<1>6. LinkOK(b, F[p], D, kcp[p], kcp[q]) /\ LinkOK(b, F[q], E[q][Len(received[p])], kcp[q], kcp[p])
  BY <1>1, <1>2 DEF PeerOK
<1>7. LinkOK(b, F[p] \o f, D, k, kcp[q]) /\ Extends(F[p], F[p] \o f)
  <2>1. /\ b \in Num /\ F[p] \in Seq(Frag) /\ D \in Nat /\ kcp[p] \in Block /\ kcp[q] \in Block
        /\ LinkOK(b, F[p], D, kcp[p], kcp[q]) /\ f \in Seq(Frag) /\ k \in Block
        /\ k.snd_nxt = kcp[p].snd_nxt /\ k.snd_buf = kcp[p].snd_buf
        /\ k.snd_queue = kcp[p].snd_queue \o f
    BY <1>2, <1>3, <1>5, <1>6
  <2> HIDE DEF D, f, q
  <2> QED BY <2>1, LinkExtends, ZenonT(40)
<1>8. LinkOK(b, F[q], E[q][Len(received[p])], kcp[q], k)
  BY <1>5, <1>6, ReceiverSame
<1>9. LogOK(F[p] \o f, e, Append(sent[p], m)) /\ BoundOK(F[p] \o f, Append(sent[p], m), MaxMsgs[p])
  <2>1. LogOK(F[p], E[p], sent[p]) /\ BoundOK(F[p], sent[p], MaxMsgs[p]) /\ MaxMsgs[p] \in Nat
    BY <1>2, Constants DEF PeerOK
  <2> QED BY <1>2, <1>4, <2>1, LogExtends
<1>10. F[p] \o f \in Seq(Frag)
  BY <1>2, <1>3, ConcatProperties
<1>11. NetOK(b, F[p] \o f, k, net[q])
  <2>1. NetOK(b, F[p], kcp[p], net[q])
    BY <1>2 DEF PeerOK
  <2>2. Grows(b, kcp[p], k)
    BY <1>2, <1>5, GrowsSame
  <2>3. At(b, kcp[p].snd_nxt) <= Len(F[p])
    BY <1>2, <1>6, LinkFacts
  <2> QED BY <1>2, <1>5, <1>7, <1>10, <2>1, <2>2, <2>3, NetGrows
<1>12. ReadOK(Append(sent[p], m), received[q])
  <2>1. ReadOK(sent[p], received[q])
    BY <1>2 DEF PeerOK
  <2>2. Len(Append(sent[p], m)) = N + 1 /\ \A j \in 1..N : Append(sent[p], m)[j] = sent[p][j]
    BY <1>2
  <2>3. N \in Nat /\ Len(received[q]) \in Nat /\ Len(received[q]) <= N
    BY <1>2
  <2>4. Len(received[q]) <= Len(Append(sent[p], m))
    BY <2>2, <2>3
  <2>5. \A j \in 1..Len(received[q]) : Append(sent[p], m)[j] = sent[p][j]
    BY <2>2, <2>3
  <2> QED BY <2>1, <2>4, <2>5 DEF ReadOK
<1>13. e[Len(received[q])] = D
  <2>1. N \in Nat
    BY <1>2
  <2>2. Len(received[q]) \in 0..(N + 1) /\ Len(received[q]) # N + 1
    BY <1>2, <2>1
  <2> QED BY <2>2
<1>14. F \in [Peer -> Seq(Frag)] /\ kcp \in [Peer -> Block] /\ sent \in [Peer -> Seq(Message)] /\ Shape
  BY DEF IInv, Shape
<1> HIDE DEF q, f, e, D, N
<1>15. PICK G : G \in [Peer -> Seq(Frag)] /\ G[p] = F[p] \o f /\ G[q] = F[q]
  <2> DEFINE G1 == [F EXCEPT ![p] = F[p] \o f]
  <2>1. G1 \in [Peer -> Seq(Frag)] /\ G1[p] = F[p] \o f /\ G1[q] = F[q]
    BY <1>1, <1>10, <1>14
  <2> QED BY <2>1
<1>16. PICK H : H[p] = e /\ H[q] = E[q]
  <2> DEFINE H1 == [r \in Peer |-> IF r = p THEN e ELSE E[r]]
  <2>1. H1[p] = e /\ H1[q] = E[q]
    BY <1>1
  <2> QED BY <2>1
<1>17. /\ kcp' \in [Peer -> Block] /\ kcp'[p] = k /\ kcp'[q] = kcp[q]
       /\ sent' \in [Peer -> Seq(Message)] /\ sent'[p] = Append(sent[p], m) /\ sent'[q] = sent[q]
  <2>1. Append(sent[p], m) \in Seq(Message)
    BY <1>2
  <2> QED BY <1>1, <1>4, <1>5, <1>14, <2>1
<1>q. q = Other(p)
  BY DEF q
<1>18. Shape'
  BY <1>4, <1>14, <1>17 DEF Shape
<1>19. PeerOK(b, G, H, p)'
  BY <1>q, <1>4, <1>7, <1>9, <1>11, <1>12, <1>13, <1>15, <1>16, <1>17 DEF PeerOK
<1>20. PeerOK(b, G, H, q)'
  <2>1. /\ LogOK(F[q], E[q], sent[q]) /\ BoundOK(F[q], sent[q], MaxMsgs[q])
        /\ ReadOK(sent[q], received[p]) /\ NetOK(b, F[q], kcp[q], net[p])
    BY <1>1, <1>2 DEF PeerOK
  <2> QED BY <1>1, <1>4, <1>8, <1>15, <1>16, <1>17, <2>1 DEF PeerOK
<1>21. \A r \in Peer : PeerOK(b, G, H, r)'
  BY <1>1, <1>19, <1>20 DEF PeerOK
<1>22. IInv(b, G, H)'
  BY <1>2, <1>15, <1>18, <1>21 DEF IInv
<1> QED BY <1>22 DEF Sound

\* The head message of rcv_queue is the next message of the log, whole.
LEMMA HeadOK ==
  ASSUME NEW b \in Num, NEW F \in Seq(Frag), NEW E, NEW msgs \in Seq(Message),
         LogOK(F, E, msgs), NEW j \in 0..Len(msgs), NEW s \in Block, NEW k \in Block,
         LinkOK(b, F, E[j], s, k), Peek(k)
  PROVE  /\ j < Len(msgs) /\ HeadLen(k) = Len(Fragments(msgs[j + 1]))
         /\ HeadLen(k) \in 1..Len(k.rcv_queue) /\ E[j + 1] = E[j] + HeadLen(k)
         /\ HeadMessage(k) = [i \in 1..Len(Fragments(msgs[j + 1])) |-> <<msgs[j + 1], i>>]
<1> DEFINE D == E[j]
           L == Len(k.rcv_queue)
           m == msgs[j + 1]
           f == Fragments(m)
           c == Len(f)
<1>1. k.rcv_queue \in Seq(Piece) /\ L \in Nat /\ L >= 1 /\ Head(k.rcv_queue) = k.rcv_queue[1]
      /\ L >= k.rcv_queue[1].frg + 1
  <2>1. k.rcv_queue \in Seq(Piece) /\ k.rcv_queue # <<>> /\ L >= Head(k.rcv_queue).frg + 1
    BY BlockFacts DEF Peek
  <2>2. L \in Nat /\ L >= 1 /\ Head(k.rcv_queue) = k.rcv_queue[1]
    BY <2>1
  <2> QED BY <2>1, <2>2
<1>2. /\ D + L = At(b, k.rcv_nxt)
      /\ \A i \in 1..L : Same(k.rcv_queue[i], F[D + i])
  BY DEF LinkOK, ReceiverOK, QueueOK
<1>3. At(b, k.rcv_nxt) <= Len(F) /\ At(b, k.rcv_nxt) \in Nat /\ Len(F) \in Nat
  <2>1. /\ At(b, s.snd_nxt) \in Nat /\ At(b, k.rcv_nxt) \in Nat /\ Len(F) \in Nat
        /\ At(b, k.rcv_nxt) <= At(b, s.snd_nxt) /\ At(b, s.snd_nxt) <= Len(F)
    BY LinkFacts
  <2> QED BY <2>1
<1>4. /\ E \in [0..Len(msgs) -> Nat] /\ E[Len(msgs)] = Len(F)
  BY DEF LogOK
<1>5. D \in Nat /\ j \in Nat /\ Len(msgs) \in Nat
  BY <1>4
<1>6. j # Len(msgs)
  <2> SUFFICES ASSUME j = Len(msgs) PROVE FALSE
    OBVIOUS
  <2>1. D = Len(F)
    BY <1>4
  <2> HIDE DEF D, L
  <2> QED BY <1>1, <1>2, <1>3, <1>5, <2>1
<1>7. j < Len(msgs) /\ j + 1 \in 1..Len(msgs) /\ (j + 1) - 1 = j
  BY <1>5, <1>6
<1>8. /\ E[j + 1] = D + c
      /\ \A i \in 1..c : F[D + i] = f[i]
  BY <1>7 DEF LogOK
<1>9. m \in Message
  BY <1>7
<1>10. c \in Nat /\ c >= 1 /\ \A i \in 1..c : f[i].frg = c - i /\ f[i].data = <<m, i>>
  BY <1>9, FragmentsFacts
<1> HIDE DEF D, L, m, f, c
<1>11. k.rcv_queue[1].frg = c - 1
  <2>1. 1 \in 1..L /\ 1 \in 1..c
    BY <1>1, <1>10
  <2> QED BY <1>2, <1>8, <1>10, <2>1 DEF Same
<1>12. c <= L
  BY <1>1, <1>10, <1>11
<1>13. \A i \in 1..c : /\ i \in 1..L /\ k.rcv_queue[i].frg = c - i
                       /\ k.rcv_queue[i].data = <<m, i>>
  <2> TAKE i \in 1..c
  <2>1. i \in 1..L
    BY <1>1, <1>10, <1>12
  <2> QED BY <1>2, <1>8, <1>10, <2>1 DEF Same
<1> DEFINE S == {i \in 1..L : k.rcv_queue[i].frg = 0 \/ i = L}
<1>14. S \subseteq Nat /\ c \in S
  <2>1. c \in 1..c /\ c - c = 0
    BY <1>10
  <2>2. c \in 1..L /\ k.rcv_queue[c].frg = 0
    BY <1>13, <2>1
  <2> QED BY <1>1, <2>2
<1>15. ASSUME NEW i \in S PROVE c <= i
  <2> SUFFICES ASSUME i < c PROVE FALSE
    BY <1>10, <1>14
  <2>1. i \in 1..c /\ i # L
    BY <1>1, <1>10, <1>12
  <2>2. k.rcv_queue[i].frg = c - i /\ c - i # 0
    BY <1>10, <1>13, <2>1
  <2> QED BY <2>1, <2>2
<1>16. HeadLen(k) = Min(S)
  BY DEF HeadLen, L
<1> HIDE DEF S
<1>17. Min(S) = c
  <2>1. Min(S) \in S /\ Min(S) <= c
    BY <1>14, MinFact
  <2>2. PICK x \in S : x = Min(S)
    BY <2>1
  <2>3. c <= x /\ x <= c /\ x \in Nat
    BY <1>14, <1>15, <2>1, <2>2
  <2>4. x = c
    BY <1>10, <2>3
  <2> QED BY <2>2, <2>4
<1>18. HeadMessage(k) = [i \in 1..c |-> <<m, i>>]
  <2>1. HeadMessage(k) = [i \in 1..c |-> k.rcv_queue[i].data]
    BY <1>16, <1>17 DEF HeadMessage
  <2> QED BY <1>13, <2>1
<1>19. c \in 1..L
  BY <1>1, <1>10, <1>12
<1> QED BY <1>7, <1>8, <1>16, <1>17, <1>18, <1>19 DEF D, L, m, f, c

\* The block after the first c fragments of rcv_queue were read.
Taken(k, c) == [k EXCEPT !.rcv_queue = SubSeq(@, c + 1, Len(@))]

LEMMA TakeOK ==
  ASSUME NEW b \in Num, NEW F, NEW D \in Nat, NEW s, NEW k \in Block, LinkOK(b, F, D, s, k),
         NEW c \in 1..Len(k.rcv_queue)
  PROVE  LinkOK(b, F, D + c, s, Taken(k, c)) /\ ReceivesOnly(b, k, Taken(k, c))
<1> DEFINE l == Taken(k, c)
           q == k.rcv_queue
           L == Len(q)
           r == SubSeq(q, c + 1, L)
<1>1. q \in Seq(Piece) /\ L \in Nat /\ c \in Nat /\ c <= L
  BY BlockFacts
<1>2. r \in Seq(Piece) /\ Len(r) = L - c /\ \A i \in 1..(L - c) : r[i] = q[c + i]
  <2>1. c + 1 \in 1..(L + 1) /\ L \in ((c + 1) - 1)..L
    BY <1>1
  <2>2. L - (c + 1) + 1 = L - c /\ \A i \in 1..(L - c) : (c + 1) + i - 1 = c + i
    BY <1>1
  <2>3. /\ r \in Seq(Piece) /\ Len(r) = L - (c + 1) + 1
        /\ \A i \in 1..(L - (c + 1) + 1) : r[i] = q[(c + 1) + i - 1]
    BY <1>1, <2>1, SubSeqProperties
  <2> HIDE DEF r, L
  <2> QED BY <2>2, <2>3
<1>3. l = [k EXCEPT !.rcv_queue = r]
  BY DEF Taken
<1> HIDE DEF r, l
<1>4. /\ l \in Block /\ l.snd_nxt = k.snd_nxt /\ l.snd_queue = k.snd_queue
      /\ l.snd_buf = k.snd_buf /\ l.rcv_nxt = k.rcv_nxt /\ l.rcv_queue = r
      /\ l.rcv_buf = k.rcv_buf /\ l.acklist = k.acklist
  BY <1>2, <1>3 DEF Block
<1>5. /\ D + L = At(b, k.rcv_nxt) /\ L <= RcvWnd
      /\ \A i \in 1..L : Same(q[i], F[D + i])
  BY DEF LinkOK, ReceiverOK, QueueOK
<1>6. QueueOK(b, F, D + c, l)
  <2>0. RcvWnd \in Nat
    BY Constants
  <2> HIDE DEF L, q
  <2>1. (D + c) + (L - c) = D + L /\ L - c <= RcvWnd
    BY <1>1, <1>5, <2>0
  <2>2. ASSUME NEW i \in 1..(L - c) PROVE Same(r[i], F[(D + c) + i])
    <3>1. c + i \in 1..L /\ D + (c + i) = (D + c) + i
      BY <1>1, <2>2
    <3> QED BY <1>2, <1>5, <3>1
  <2> QED BY <1>2, <1>4, <1>5, <2>1, <2>2 DEF QueueOK
<1>7. LinkOK(b, F, D + c, s, l)
  <2>1. ReceiverOK(b, F, At(b, s.snd_nxt), D + c, l)
    BY <1>4, <1>6 DEF LinkOK, ReceiverOK, BufferOK, AcksOK, Has
  <2> QED BY <1>4, <2>1 DEF LinkOK, Covered
<1>8. Grows(b, k, l)
  BY <1>4, GrowsSame
<1> QED BY <1>4, <1>7, <1>8 DEF ReceivesOnly, l

LEMMA RecvOK ==
  ASSUME NEW b, NEW F, NEW E, IInv(b, F, E), NEW p \in Peer, ikcp_recv(p)
  PROVE  IInv(b, F, E)'
<1> DEFINE q == Other(p)
           k == kcp[p]
           j == Len(received[p])
           m == sent[q][j + 1]
           c == HeadLen(k)
           taken == Taken(k, c)
           rest == MoveReady(taken)
           recover == Len(k.rcv_queue) >= RcvWnd /\ Len(rest.rcv_queue) < RcvWnd
           l == IF recover THEN [rest EXCEPT !.probe = rest.probe \cup {"tell"}] ELSE rest
           h == HeadMessage(k)
<1>1. q \in Peer /\ q # p /\ Other(q) = p /\ \A r \in Peer : r = p \/ r = q
  BY OtherFacts
<1>2. /\ b \in Num /\ F[p] \in Seq(Frag) /\ F[q] \in Seq(Frag) /\ Fits(F[q])
      /\ k \in Block /\ kcp[q] \in Block /\ PeerOK(b, F, E, p)
      /\ net[p] \in Seq(Seq(Seg)) /\ net[q] \in Seq(Seq(Seg)) /\ received[p] \in Seq(Seq(Data))
  BY <1>1, PeerFacts
<1>3. /\ sent[q] \in Seq(Message) /\ j \in 0..Len(sent[q]) /\ E[q][j] \in Nat
      /\ PeerOK(b, F, E, q)
  <2>1. Len(received[Other(q)]) \in 0..Len(sent[q]) /\ E[q][Len(received[Other(q)])] \in Nat
        /\ sent[q] \in Seq(Message) /\ PeerOK(b, F, E, q)
    BY <1>1, PeerFacts
  <2> QED BY <1>1, <2>1
<1>4. /\ Peek(k) /\ kcp' = [kcp EXCEPT ![p] = l] /\ net' = net /\ faults' = faults /\ sent' = sent
      /\ received' = [received EXCEPT ![p] = Append(received[p], h)]
  BY DEF ikcp_recv, Taken
<1>5. /\ LogOK(F[q], E[q], sent[q]) /\ BoundOK(F[q], sent[q], MaxMsgs[q])
      /\ ReadOK(sent[q], received[p]) /\ LinkOK(b, F[q], E[q][j], kcp[q], k)
      /\ NetOK(b, F[q], kcp[q], net[p])
  BY <1>1, <1>3 DEF PeerOK
<1>5a. Peek(k)
  BY <1>4
<1> HIDE DEF q, k, j, h, m
<1>6. /\ j < Len(sent[q]) /\ c = Len(Fragments(m))
      /\ c \in 1..Len(k.rcv_queue) /\ E[q][j + 1] = E[q][j] + c
      /\ h = [i \in 1..c |-> <<m, i>>]
  <2>1. /\ j < Len(sent[q]) /\ HeadLen(k) = Len(Fragments(sent[q][j + 1]))
        /\ HeadLen(k) \in 1..Len(k.rcv_queue) /\ E[q][j + 1] = E[q][j] + HeadLen(k)
        /\ HeadMessage(k) = [i \in 1..Len(Fragments(sent[q][j + 1])) |-> <<sent[q][j + 1], i>>]
    <3>1. /\ b \in Num /\ F[q] \in Seq(Frag) /\ sent[q] \in Seq(Message)
          /\ LogOK(F[q], E[q], sent[q]) /\ j \in 0..Len(sent[q]) /\ kcp[q] \in Block
          /\ k \in Block /\ LinkOK(b, F[q], E[q][j], kcp[q], k) /\ Peek(k)
      BY <1>2, <1>3, <1>5, <1>5a
    <3> HIDE DEF c, taken, rest, recover, l
    <3> QED BY <3>1, HeadOK, SMTT(40)
  <2> QED BY <2>1 DEF m, h
<1> HIDE DEF c
<1>7. LinkOK(b, F[q], E[q][j] + c, kcp[q], taken) /\ ReceivesOnly(b, k, taken)
  BY <1>2, <1>3, <1>5, <1>6, TakeOK
<1> HIDE DEF taken
<1>8. LinkOK(b, F[q], E[q][j] + c, kcp[q], rest) /\ ReceivesOnly(b, taken, rest)
  <2>1. taken \in Block /\ E[q][j] + c \in Nat
    BY <1>3, <1>6, <1>7 DEF ReceivesOnly
  <2> QED BY <1>2, <1>7, <2>1, MoveReadyOK
<1> HIDE DEF rest
<1>9. ReceivesOnly(b, k, rest)
  BY <1>2, <1>7, <1>8, ReceivesTrans
<1>10. /\ l \in Block /\ l.snd_nxt = rest.snd_nxt /\ l.snd_queue = rest.snd_queue
       /\ l.snd_buf = rest.snd_buf /\ l.rcv_nxt = rest.rcv_nxt /\ l.rcv_queue = rest.rcv_queue
       /\ l.rcv_buf = rest.rcv_buf /\ l.acklist = rest.acklist
  <2>1. rest \in Block
    BY <1>9 DEF ReceivesOnly
  <2>2. rest.probe \cup {"tell"} \in SUBSET {"send", "tell"}
    BY <2>1 DEF Block
  <2> QED BY <2>1, <2>2 DEF Block
<1> HIDE DEF l, recover
<1>11. LinkOK(b, F[q], E[q][j + 1], kcp[q], l)
  BY <1>6, <1>8, <1>10, ReceiverSame
<1>12. LinkOK(b, F[p], E[p][Len(received[q])], l, kcp[q])
  <2>1. LinkOK(b, F[p], E[p][Len(received[q])], k, kcp[q])
    BY <1>2 DEF PeerOK, q, k
  <2> QED BY <1>9, <1>10, <2>1, SenderSame DEF ReceivesOnly
<1>13. Grows(b, k, l)
  <2>1. Grows(b, k, rest) /\ rest \in Block
    BY <1>9 DEF ReceivesOnly
  <2>2. Grows(b, rest, l)
    BY <1>2, <1>10, <2>1, GrowsSame
  <2> QED BY <1>2, <1>10, <2>1, <2>2, GrowsTrans
<1>14. NetOK(b, F[p], l, net[q])
  <2>1. NetOK(b, F[p], k, net[q]) /\ LinkOK(b, F[p], E[p][Len(received[q])], k, kcp[q])
    BY <1>2 DEF PeerOK, q, k
  <2>2. At(b, k.snd_nxt) <= Len(F[p])
    BY <1>2, <2>1, LinkFacts
  <2>3. Extends(F[p], F[p])
    BY DEF Extends
  <2> QED BY <1>2, <1>10, <1>13, <2>1, <2>2, <2>3, NetGrows
<1>15. /\ Append(received[p], h) \in Seq(Seq(Data)) /\ Len(Append(received[p], h)) = j + 1
       /\ Append(received[p], h)[j + 1] = h
       /\ \A i \in 1..j : Append(received[p], h)[i] = received[p][i]
  <2>1. j \in Nat /\ j + 1 \in 1..Len(sent[q])
    BY <1>3, <1>6
  <2>2. m \in Message
    BY <1>3, <2>1 DEF m
  <2>3. c \in Nat
    BY <1>6
  <2>4. \A i \in 1..c : <<m, i>> \in Data
    BY <2>2, <2>3 DEF Data
  <2>5. h \in Seq(Data)
    BY <1>6, <2>3, <2>4
  <2> QED BY <1>2, <2>5 DEF j
<1>16. ReadOK(sent[q], Append(received[p], h))
  <2>0. j \in Nat /\ Len(sent[q]) \in Nat /\ j + 1 <= Len(sent[q])
    BY <1>3, <1>6
  <2>1. ASSUME NEW i \in 1..(j + 1)
        PROVE  Append(received[p], h)[i]
               = [n \in 1..Len(Fragments(sent[q][i])) |-> <<sent[q][i], n>>]
    <3>1. CASE i = j + 1
      BY <1>6, <1>15, <3>1 DEF m
    <3>2. CASE i # j + 1
      <4>1. i \in 1..j
        BY <2>0, <3>2
      <4> QED BY <1>5, <1>15, <4>1 DEF ReadOK, j
    <3> QED BY <3>1, <3>2
  <2> QED BY <1>15, <2>0, <2>1 DEF ReadOK
<1>17. kcp \in [Peer -> Block] /\ received \in [Peer -> Seq(Seq(Data))] /\ Shape
  BY DEF IInv, Shape
<1>18. /\ kcp' \in [Peer -> Block] /\ kcp'[p] = l /\ kcp'[q] = kcp[q]
       /\ received' \in [Peer -> Seq(Seq(Data))] /\ received'[p] = Append(received[p], h)
       /\ received'[q] = received[q]
  BY <1>1, <1>4, <1>10, <1>15, <1>17
<1>19. Shape'
  BY <1>4, <1>17, <1>18 DEF Shape
<1>q. q = Other(p)
  BY DEF q
<1>20. PeerOK(b, F, E, p)'
  <2>1. /\ LogOK(F[p], E[p], sent[p]) /\ BoundOK(F[p], sent[p], MaxMsgs[p])
        /\ ReadOK(sent[p], received[q])
    BY <1>2, <1>q DEF PeerOK
  <2> QED BY <1>q, <1>4, <1>12, <1>14, <1>18, <2>1 DEF PeerOK
<1>21. PeerOK(b, F, E, q)'
  <2>1. LinkOK(b, F[q], E[q][Len(received'[p])], kcp[q], kcp'[p])
    BY <1>11, <1>15, <1>18
  <2> QED BY <1>1, <1>4, <1>5, <1>16, <1>18, <2>1 DEF PeerOK
<1>22. \A r \in Peer : PeerOK(b, F, E, r)'
  BY <1>1, <1>20, <1>21 DEF PeerOK
<1> QED BY <1>19, <1>22 DEF IInv

LEMMA NextStep == ASSUME Sound, [Next]_vars PROVE Sound'
<1>1. PICK b, F, E : IInv(b, F, E)
  BY DEF Sound
<1>2. ASSUME IInv(b, F, E)' PROVE Sound'
  BY <1>2 DEF Sound
<1>3. ASSUME NEW p \in Peer, NEW size \in Sizes,
             ikcp_send(p, [id |-> Len(sent[p]) + 1, size |-> size])
      PROVE  Sound'
  <2>1. Len(sent[p]) \in Nat /\ Len(sent[p]) < MaxMsgs[p]
    BY <1>1, <1>3, PeerFacts DEF ikcp_send
  <2>2. [id |-> Len(sent[p]) + 1, size |-> size] \in Message
    BY <2>1, NewMessage
  <2> QED BY <1>1, <1>3, <2>2, SendOK
<1>4. ASSUME NEW p \in Peer, ikcp_recv(p) PROVE Sound'
  BY <1>1, <1>2, <1>4, RecvOK
<1>5. ASSUME NEW p \in Peer, NEW late, NEW due, ikcp_update(p, late, due) PROVE Sound'
  BY <1>1, <1>2, <1>5, UpdateOK
<1>6. ASSUME NEW p \in Peer, NEW i \in 1..Len(net[p]), NEW copy \in BOOLEAN,
             ikcp_input(p, i, copy)
      PROVE  Sound'
  BY <1>1, <1>2, <1>6, InputActionOK
<1>7. ASSUME NEW p \in Peer, NEW i \in 1..Len(net[p]), Lose(p, i) PROVE Sound'
  BY <1>1, <1>2, <1>7, LoseOK
<1>8. CASE UNCHANGED vars
  <2>1. kcp' = kcp /\ net' = net /\ faults' = faults /\ sent' = sent /\ received' = received
    BY <1>8 DEF vars
  <2>2. Shape'
    BY <1>1, <2>1 DEF IInv, Shape
  <2>3. \A p \in Peer : PeerOK(b, F, E, p)'
    BY <1>1, <2>1 DEF IInv, PeerOK
  <2>4. IInv(b, F, E)'
    BY <1>1, <2>2, <2>3 DEF IInv
  <2> QED BY <1>2, <2>4
<1> QED BY <1>3, <1>4, <1>5, <1>6, <1>7, <1>8 DEF Next

LEMMA AlwaysSound == Spec => []Sound
<1>1. Sound /\ [Next]_vars => Sound'
  BY NextStep
<1> QED BY InitOK, <1>1, PTL DEF Spec
-----------------------------------------------------------------------------
(* The windows.                                                            *)

LEMMA SoundTypes == ASSUME Sound PROVE TypeOK
<1>1. PICK b, F, E : IInv(b, F, E)
  BY DEF Sound
<1>2. ASSUME NEW p \in Peer
      PROVE  /\ {kcp[p].snd_una, kcp[p].snd_nxt, kcp[p].rcv_nxt} \subseteq 0..(Word - 1)
             /\ kcp[p].rmt_wnd \in 0..RcvWnd
             /\ kcp[p].probe \subseteq {"send", "tell"}
             /\ \A i \in 1..Len(net[p]) : Len(net[p][i]) \in 1..DatagramSegs
  <2>1. Other(p) \in Peer /\ Other(Other(p)) = p /\ kcp[p] \in Block
    BY <1>1, OtherFacts, PeerFacts
  <2>2. PeerOK(b, F, E, Other(p))
    BY <1>1, <2>1, PeerFacts
  <2>3. \A i \in 1..Len(net[p]) : Len(net[p][i]) \in 1..DatagramSegs
    BY <2>1, <2>2 DEF PeerOK, NetOK
  <2>4. /\ {kcp[p].snd_una, kcp[p].snd_nxt, kcp[p].rcv_nxt} \subseteq 0..(Word - 1)
        /\ kcp[p].rmt_wnd \in 0..RcvWnd /\ kcp[p].probe \subseteq {"send", "tell"}
    BY <2>1 DEF Block, Num
  <2> QED BY <2>3, <2>4
<1>3. faults \in 0..MaxFaults
  BY <1>1 DEF IInv, Shape
<1> QED BY <1>2, <1>3 DEF TypeOK

LEMMA SoundLoss == ASSUME Sound PROVE NothingLost
<1>1. PICK b, F, E : IInv(b, F, E)
  BY DEF Sound
<1> SUFFICES ASSUME NEW p \in Peer, NEW q, q = Other(p),
                    NEW a \in 0..(Diff(kcp[p].snd_nxt, kcp[q].rcv_nxt) - 1)
             PROVE  \E sn \in Numbers(kcp[p].snd_buf) \cup Numbers(kcp[q].rcv_buf) :
                      a = Diff(sn, kcp[q].rcv_nxt)
  BY DEF NothingLost
<1> DEFINE s == kcp[p]
           r == kcp[q]
           X == At(b, s.snd_nxt)
           R == At(b, r.rcv_nxt)
<1>2. /\ b \in Num /\ F[p] \in Seq(Frag) /\ Fits(F[p]) /\ s \in Block /\ r \in Block
      /\ PeerOK(b, F, E, p)
  BY <1>1, PeerFacts, OtherFacts
<1>3. LinkOK(b, F[p], E[p][Len(received[q])], s, r)
  BY <1>2 DEF PeerOK
<1>a. a \in 0..(Diff(s.snd_nxt, r.rcv_nxt) - 1)
  OBVIOUS
<1> HIDE DEF s, r
<1>4. /\ X \in Nat /\ R \in Nat /\ R <= X /\ X <= Len(F[p]) /\ Len(F[p]) \in Nat
      /\ \A i \in 1..Len(s.snd_buf) : At(b, s.snd_buf[i].sn) \in 0..(X - 1)
      /\ \A i \in 1..Len(r.rcv_buf) : At(b, r.rcv_buf[i].sn) \in 0..(X - 1)
  BY <1>2, <1>3, LinkFacts
<1>5. s.snd_nxt \in Num /\ r.rcv_nxt \in Num
  BY <1>2, BlockFacts
<1> HIDE DEF X, R
<1>6. R <= Len(F[p])
  BY <1>4
<1>7. Diff(s.snd_nxt, r.rcv_nxt) = X - R
  BY <1>2, <1>4, <1>5, <1>6, DiffInSession DEF X, R
<1>8. a \in Nat /\ R + a \in R..(X - 1) /\ R + a <= Len(F[p])
  BY <1>4, <1>7, <1>a
<1>9. Holds(b, s.snd_buf, R + a) \/ Holds(b, r.rcv_buf, R + a)
  BY <1>3, <1>8 DEF LinkOK, Covered, X, R
<1>10. ASSUME NEW sn \in Num, At(b, sn) = R + a PROVE a = Diff(sn, r.rcv_nxt)
  <2>1. Diff(sn, r.rcv_nxt) = At(b, sn) - R
    <3>1. At(b, sn) <= Len(F[p]) /\ At(b, r.rcv_nxt) <= Len(F[p])
      BY <1>6, <1>8, <1>10 DEF R
    <3> QED BY <1>2, <1>5, <3>1, DiffInSession DEF R
  <2> QED BY <1>4, <1>8, <1>10, <2>1
<1>11. CASE Holds(b, s.snd_buf, R + a)
  <2>1. PICK i \in 1..Len(s.snd_buf) : At(b, s.snd_buf[i].sn) = R + a
    BY <1>11 DEF Holds
  <2>2. s.snd_buf[i].sn \in Num /\ s.snd_buf[i].sn \in Numbers(s.snd_buf)
    BY <1>2, BlockFacts DEF Numbers
  <2>3. a = Diff(s.snd_buf[i].sn, r.rcv_nxt)
    BY <1>10, <2>1, <2>2
  <2> QED BY <2>2, <2>3 DEF s, r
<1>12. CASE Holds(b, r.rcv_buf, R + a)
  <2>1. PICK i \in 1..Len(r.rcv_buf) : At(b, r.rcv_buf[i].sn) = R + a
    BY <1>12 DEF Holds
  <2>2. r.rcv_buf[i].sn \in Num /\ r.rcv_buf[i].sn \in Numbers(r.rcv_buf)
    BY <1>2, BlockFacts DEF Numbers
  <2>3. a = Diff(r.rcv_buf[i].sn, r.rcv_nxt)
    BY <1>10, <2>1, <2>2
  <2> QED BY <2>2, <2>3 DEF s, r
<1> QED BY <1>9, <1>11, <1>12

LEMMA SoundWindow == ASSUME Sound PROVE WithinWindow /\ NeverWedged
<1>1. PICK b, F, E : IInv(b, F, E)
  BY DEF Sound
<1>2. ASSUME NEW p \in Peer
      PROVE  /\ Len(kcp[p].rcv_queue) <= RcvWnd
             /\ \A i \in 1..Len(kcp[p].rcv_buf) :
                  /\ Diff(kcp[p].rcv_buf[i].sn, kcp[p].rcv_nxt) \in 0..(RcvWnd - 1)
                  /\ i > 1 => Diff(kcp[p].rcv_buf[i].sn, kcp[p].rcv_buf[i - 1].sn) > 0
             /\ Len(kcp[p].rcv_queue) >= RcvWnd => Peek(kcp[p])
  <2> DEFINE q == Other(p)
             k == kcp[p]
             G == F[q]
             D == E[q][Len(received[p])]
             s == kcp[q]
  <2>1. q \in Peer /\ Other(q) = p
    BY OtherFacts
  <2>2. /\ b \in Num /\ G \in Seq(Frag) /\ Fits(G) /\ k \in Block /\ s \in Block
        /\ PeerOK(b, F, E, q) /\ E[q][Len(received[Other(q)])] \in Nat
    BY <1>1, <2>1, PeerFacts
  <2>3. LinkOK(b, G, D, s, k) /\ BoundOK(G, sent[q], MaxMsgs[q]) /\ D \in Nat
    BY <2>1, <2>2 DEF PeerOK
  <2> HIDE DEF q, k, G, D, s
  <2>4. /\ At(b, s.snd_nxt) \in Nat /\ At(b, k.rcv_nxt) \in Nat /\ Len(G) \in Nat
        /\ At(b, k.rcv_nxt) <= At(b, s.snd_nxt) /\ At(b, s.snd_nxt) <= Len(G)
        /\ \A i \in 1..Len(k.rcv_buf) : At(b, k.rcv_buf[i].sn) \in 0..(At(b, s.snd_nxt) - 1)
    BY <2>2, <2>3, LinkFacts
  <2>5. /\ D + Len(k.rcv_queue) = At(b, k.rcv_nxt) /\ Len(k.rcv_queue) <= RcvWnd
        /\ \A i \in 1..Len(k.rcv_queue) : Same(k.rcv_queue[i], G[D + i])
    BY <2>3 DEF LinkOK, ReceiverOK, QueueOK
  <2>6. BufferOK(b, k)
    BY <2>3 DEF LinkOK, ReceiverOK
  <2>7. At(b, k.rcv_nxt) <= Len(G) /\ k.rcv_nxt \in Num /\ RcvWnd \in Nat
    BY <2>2, <2>4, BlockFacts, Constants
  <2>8. ASSUME NEW i \in 1..Len(k.rcv_buf)
        PROVE  /\ k.rcv_buf[i].sn \in Num /\ At(b, k.rcv_buf[i].sn) \in Nat
               /\ At(b, k.rcv_buf[i].sn) <= Len(G)
    <3>1. At(b, k.rcv_buf[i].sn) \in 0..(At(b, s.snd_nxt) - 1)
      BY <2>4
    <3> QED BY <2>2, <2>4, <3>1, BlockFacts
  <2>9. ASSUME NEW i \in 1..Len(k.rcv_buf)
        PROVE  Diff(k.rcv_buf[i].sn, k.rcv_nxt) \in 0..(RcvWnd - 1)
    <3>1. Diff(k.rcv_buf[i].sn, k.rcv_nxt) = At(b, k.rcv_buf[i].sn) - At(b, k.rcv_nxt)
      BY <2>2, <2>7, <2>8, DiffInSession
    <3>2. /\ At(b, k.rcv_buf[i].sn) >= At(b, k.rcv_nxt)
          /\ At(b, k.rcv_buf[i].sn) < At(b, k.rcv_nxt) + RcvWnd
      BY <2>6 DEF BufferOK
    <3> QED BY <2>4, <2>7, <2>8, <3>1, <3>2
  <2>10. ASSUME NEW i \in 1..Len(k.rcv_buf), i > 1
         PROVE  Diff(k.rcv_buf[i].sn, k.rcv_buf[i - 1].sn) > 0
    <3>0. i - 1 \in 1..Len(k.rcv_buf) /\ i - 1 < i
      BY <2>10
    <3>1. Diff(k.rcv_buf[i].sn, k.rcv_buf[i - 1].sn)
          = At(b, k.rcv_buf[i].sn) - At(b, k.rcv_buf[i - 1].sn)
      BY <2>2, <2>8, <3>0, DiffInSession
    <3>2. At(b, k.rcv_buf[i - 1].sn) < At(b, k.rcv_buf[i].sn)
      BY <2>6, <3>0 DEF BufferOK
    <3>3. At(b, k.rcv_buf[i].sn) \in Nat /\ At(b, k.rcv_buf[i - 1].sn) \in Nat
      BY <2>8, <3>0
    <3> QED BY <3>1, <3>2, <3>3
  <2>11. ASSUME Len(k.rcv_queue) >= RcvWnd PROVE Peek(k)
    <3>1. k.rcv_queue \in Seq(Piece) /\ Len(k.rcv_queue) \in Nat /\ RcvWnd \in Nat \ {0}
      BY <2>2, BlockFacts, Constants
    <3>2. 1 \in 1..Len(k.rcv_queue)
      BY <2>11, <3>1
    <3>3. k.rcv_queue # <<>> /\ Head(k.rcv_queue) = k.rcv_queue[1]
      BY <3>1, <3>2
    <3>4. k.rcv_queue[1].frg = G[D + 1].frg
      BY <2>5, <3>2 DEF Same
    <3>5. D + 1 \in 1..Len(G)
      BY <2>3, <2>4, <2>5, <2>7, <3>1, <3>2
    <3>6. G[D + 1].frg < RcvWnd /\ G[D + 1].frg \in Nat
      <4>1. G[D + 1] \in Frag
        BY <2>2, <3>5
      <4> QED BY <2>3, <3>5, <4>1 DEF BoundOK, Frag
    <3>7. Len(k.rcv_queue) >= Head(k.rcv_queue).frg + 1
      BY <2>11, <3>1, <3>3, <3>4, <3>6
    <3> QED BY <3>3, <3>7 DEF Peek
  <2> QED BY <2>5, <2>9, <2>10, <2>11 DEF k
<1> QED BY <1>2 DEF WithinWindow, NeverWedged

\* Whatever the network loses, repeats or holds back, the two windows stay
\* sound: no fragment that ikcp_send accepted disappears between snd_buf and
\* rcv_buf, rcv_buf holds distinct segments of the window in order, and a full
\* rcv_queue always holds a whole message.
THEOREM WindowSoundTheorem == Spec => []WindowSound
<1>1. Sound => WindowSound
  BY SoundTypes, SoundLoss, SoundWindow DEF WindowSound
<1> QED BY AlwaysSound, <1>1, PTL
-----------------------------------------------------------------------------
(* The reliable channel.                                                   *)

\* The messages that the other end has read of those p sent.
Handed == [p \in Peer |-> [i \in 1..Len(received[Other(p)]) |-> Whole(received[Other(p)][i])]]

LEMMA WholeIs ==
  ASSUME NEW m \in Message, NEW f, f = [i \in 1..Len(Fragments(m)) |-> <<m, i>>]
  PROVE  Whole(f) = m
<1> DEFINE c == Len(Fragments(m))
<1>1. c \in Nat /\ c >= 1 /\ c = Max({1, m.size})
  BY FragmentsFacts
<1>2. f = [i \in 1..c |-> <<m, i>>]
  OBVIOUS
<1> HIDE DEF c
<1>3. f \in Seq(Message \X Nat) /\ Len(f) = c
  BY <1>1, <1>2
<1>4. f[1] = <<m, 1>>
  BY <1>1, <1>2
<1>5. f[1][1] = m
  BY <1>4
<1>6. f = [i \in 1..Len(f) |-> <<f[1][1], i>>]
  BY <1>2, <1>3, <1>5
<1>7. Len(f) = Max({1, f[1][1].size})
  BY <1>1, <1>3, <1>5
<1> QED BY <1>5, <1>6, <1>7 DEF Whole

\* A read hands over the next message.
LEMMA RecvIsHand ==
  ASSUME NEW b, NEW F, NEW E, IInv(b, F, E), NEW p \in Peer, ikcp_recv(p)
  PROVE  Channel!Hand(Other(p))
<1> DEFINE q == Other(p)
           j == Len(received[p])
           h == HeadMessage(kcp[p])
           H == [i \in 1..j |-> Whole(received[p][i])]
           G == [i \in 1..(j + 1) |-> Whole(received'[p][i])]
<1>1. q \in Peer /\ q # p /\ Other(q) = p /\ \A r \in Peer : r = p \/ r = q
  BY OtherFacts
<1>2. IInv(b, F, E)'
  BY RecvOK
<1>3. sent' = sent /\ received' = [received EXCEPT ![p] = Append(received[p], h)]
  BY DEF ikcp_recv
<1>4. received \in [Peer -> Seq(Seq(Data))] /\ sent[q] \in Seq(Message) /\ j \in Nat
  BY <1>1, PeerFacts DEF IInv, Shape
<1>5. received' \in [Peer -> Seq(Seq(Data))]
  BY <1>2 DEF IInv, Shape
<1>6. received'[p] = Append(received[p], h) /\ received'[q] = received[q]
  BY <1>1, <1>3, <1>4
<1>7. Len(received'[p]) = j + 1 /\ \A i \in 1..j : received'[p][i] = received[p][i]
  BY <1>4, <1>6
<1>8. ReadOK(sent[q], received'[p])
  <2>1. PeerOK(b, F, E, q)'
    BY <1>1, <1>2 DEF IInv
  <2>2. ReadOK(sent'[q], received'[Other(q)])
    BY <2>1 DEF PeerOK
  <2> QED BY <1>1, <1>3, <2>2
<1>9. j + 1 <= Len(sent[q]) /\ j + 1 \in 1..(j + 1) /\ j + 1 \in 1..Len(sent[q])
  BY <1>4, <1>7, <1>8 DEF ReadOK
<1>10. Whole(received'[p][j + 1]) = sent[q][j + 1]
  <2>1. sent[q][j + 1] \in Message
    BY <1>4, <1>9
  <2>2. received'[p][j + 1]
        = [i \in 1..Len(Fragments(sent[q][j + 1])) |-> <<sent[q][j + 1], i>>]
    BY <1>7, <1>8, <1>9 DEF ReadOK
  <2> QED BY <2>1, <2>2, WholeIs
<1>11. Handed[q] = H /\ Handed'[q] = G /\ Handed'[p] = Handed[p]
  <2>1. Handed[q] = H
    BY <1>1 DEF Handed
  <2>2. Handed'[q] = G
    BY <1>1, <1>7 DEF Handed
  <2>3. Handed'[p] = Handed[p]
    BY <1>6 DEF Handed
  <2> QED BY <2>1, <2>2, <2>3
<1> DEFINE T == {Whole(received[p][i]) : i \in 1..j}
<1>12. H \in Seq(T) /\ Len(H) = j
  <2>1. \A i \in 1..j : Whole(received[p][i]) \in T
    OBVIOUS
  <2> HIDE DEF T, j
  <2> QED BY <1>4, <2>1
<1>13. G = Append(H, sent[q][j + 1])
  <2>1. \A i \in 1..j : G[i] = H[i]
    <3> HIDE DEF j
    <3> SUFFICES ASSUME NEW i \in 1..j PROVE G[i] = H[i]
      OBVIOUS
    <3>1. i \in 1..(j + 1)
      BY <1>4
    <3>2. G[i] = Whole(received'[p][i]) /\ H[i] = Whole(received[p][i])
      BY <3>1
    <3>3. received'[p][i] = received[p][i]
      BY <1>7
    <3> QED BY <3>2, <3>3, Zenon
  <2>2. G[j + 1] = sent[q][j + 1]
    BY <1>9, <1>10
  <2>3. /\ Append(H, sent[q][j + 1]) = [i \in 1..(j + 1) |->
                                          IF i = j + 1 THEN sent[q][j + 1] ELSE H[i]]
    <3> HIDE DEF H, T
    <3> QED BY <1>12
  <2>4. G = [i \in 1..(j + 1) |-> G[i]]
    OBVIOUS
  <2> HIDE DEF G, H
  <2>5. \A i \in 1..(j + 1) : i = j + 1 \/ i \in 1..j
    BY <1>4
  <2>6. \A i \in 1..(j + 1) : G[i] = IF i = j + 1 THEN sent[q][j + 1] ELSE H[i]
    BY <2>1, <2>2, <2>5
  <2> QED BY <2>3, <2>4, <2>6
<1>14. Len(Handed[q]) = j /\ j < Len(sent[q])
  BY <1>4, <1>9, <1>11, <1>12
<1> HIDE DEF q, j, G, H, T
<1>15. Handed' = [Handed EXCEPT ![q] = Append(Handed[q], sent[q][Len(Handed[q]) + 1])]
  <2>1. DOMAIN Handed = Peer /\ DOMAIN Handed' = Peer
        /\ Handed = [r \in Peer |-> Handed[r]] /\ Handed' = [r \in Peer |-> Handed'[r]]
    BY DEF Handed
  <2>2. Handed'[q] = Append(Handed[q], sent[q][Len(Handed[q]) + 1])
    BY <1>11, <1>13, <1>14
  <2> QED BY <1>1, <1>11, <2>1, <2>2
<1>16. Len(Handed[q]) < Len(sent[q])
  BY <1>14
<1>17. Channel!Hand(q)
  BY <1>3, <1>15, <1>16 DEF Channel!Hand, Handed
<1> QED BY <1>17 DEF q

LEMMA StepIsChannel == ASSUME Sound, [Next]_vars PROVE [Channel!Next]_(Channel!vars)
<1>1. PICK b, F, E : IInv(b, F, E)
  BY DEF Sound
<1>2. ASSUME sent' = sent, received' = received PROVE UNCHANGED Channel!vars
  BY <1>2 DEF Channel!vars
<1>3. ASSUME NEW p \in Peer, NEW size \in Sizes,
             ikcp_send(p, [id |-> Len(sent[p]) + 1, size |-> size])
      PROVE  Channel!Next
  <2> DEFINE m == [id |-> Len(sent[p]) + 1, size |-> size]
  <2>1. Len(sent[p]) \in Nat /\ Len(sent[p]) < MaxMsgs[p]
    BY <1>1, <1>3, PeerFacts DEF ikcp_send
  <2>2. m \in Message
    BY <2>1, NewMessage
  <2>3. sent' = [sent EXCEPT ![p] = Append(@, m)] /\ received' = received
    BY <1>3 DEF ikcp_send
  <2> HIDE DEF m
  <2>4. Channel!Accept(p)
    BY <2>2, <2>3 DEF Channel!Accept
  <2> QED BY <2>4 DEF Channel!Next
<1>4. ASSUME NEW p \in Peer, ikcp_recv(p) PROVE Channel!Next
  <2>1. Other(p) \in Peer
    BY OtherFacts
  <2>2. Channel!Hand(Other(p))
    BY <1>1, <1>4, RecvIsHand
  <2> QED BY <2>1, <2>2 DEF Channel!Next
<1>5. ASSUME NEW p \in Peer, NEW late, NEW due, ikcp_update(p, late, due)
      PROVE  UNCHANGED Channel!vars
  BY <1>2, <1>5 DEF ikcp_update
<1>6. ASSUME NEW p \in Peer, NEW i, NEW copy, ikcp_input(p, i, copy)
      PROVE  UNCHANGED Channel!vars
  BY <1>2, <1>6 DEF ikcp_input
<1>7. ASSUME NEW p \in Peer, NEW i, Lose(p, i) PROVE UNCHANGED Channel!vars
  BY <1>2, <1>7 DEF Lose
<1>8. CASE UNCHANGED vars
  BY <1>2, <1>8 DEF vars
<1> QED BY <1>3, <1>4, <1>5, <1>6, <1>7, <1>8 DEF Next

\* KCP implements a reliable channel in each direction: over a network that
\* loses, repeats and reorders datagrams, ikcp_recv returns the messages that
\* ikcp_send accepted at the other end whole, once and in their order.
THEOREM KcpIsChannel == Spec => ImplementsChannel
<1>1. Init => Channel!Init
  <2> SUFFICES ASSUME Init PROVE Channel!Init
    OBVIOUS
  <2>1. sent = [p \in Peer |-> <<>>] /\ received = [p \in Peer |-> <<>>]
    BY DEF Init
  <2>2. ASSUME NEW p \in Peer
        PROVE  [i \in 1..Len(received[Other(p)]) |-> Whole(received[Other(p)][i])] = <<>>
    <3>1. Other(p) \in Peer
      BY OtherFacts
    <3>2. Len(received[Other(p)]) = 0
      BY <2>1, <3>1
    <3> QED BY <3>2
  <2>3. Handed = [p \in Peer |-> <<>>]
    BY <2>2 DEF Handed
  <2> QED BY <2>1, <2>3 DEF Channel!Init, Handed
<1>2. Sound /\ [Next]_vars => [Channel!Next]_(Channel!vars)
  BY StepIsChannel
<1> QED BY <1>1, <1>2, AlwaysSound, PTL DEF Spec, ImplementsChannel, Channel!Spec
=============================================================================
