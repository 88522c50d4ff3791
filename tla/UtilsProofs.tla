---------------------------- MODULE UtilsProofs ----------------------------
(***************************************************************************)
(* Proofs about the two utilities with a protocol of their own: the ring   *)
(* of utils/loop_buffer.hpp and the timers of utils/timer.hpp.             *)
(***************************************************************************)
EXTENDS LoopBuffer, Timer, SequenceTheorems, FiniteSetTheorems, TLAPS

----------------------------------------------------------------------------
(* The ring, for every number of producers, every size of the ring and     *)
(* every word size that is a multiple of it.                               *)

----------------------------------------------------------------------------
(* Remainders: what & (BufferSize - 1) and the wrapping of a uint32_t do.  *)

LEMMA DivMod ==
    ASSUME NEW a \in Int, NEW n \in Nat \ {0}
    PROVE  \E d \in Int, r \in 0..(n - 1) : a = n * d + r /\ r = a % n
  <1>1. a \div n \in Int /\ a % n \in 0..(n - 1) /\ a = n * (a \div n) + (a % n)
    OBVIOUS
  <1> QED BY <1>1

LEMMA Distribute ==
    ASSUME NEW n \in Int, NEW d \in Int, NEW e \in Int
    PROVE  /\ n * d \in Int /\ n * e \in Int
           /\ n * (d + e) = n * d + n * e /\ n * (d - e) = n * d - n * e
  OBVIOUS

LEMMA Quotients ==
    ASSUME NEW n \in Nat \ {0}, NEW d \in Int, NEW e \in Int, d < e
    PROVE  n * d + n <= n * e
  <1>1. n * (e - d) >= n
    OBVIOUS
  <1> QED BY <1>1, Distribute

LEMMA ModUnique ==
    ASSUME NEW a \in Int, NEW n \in Nat \ {0}, NEW q \in Int, NEW r \in 0..(n - 1), a = n * q + r
    PROVE  a % n = r
  <1>1. PICK d \in Int, t \in 0..(n - 1) : a = n * d + t /\ t = a % n
    BY DivMod
  <1>2. n * q \in Int /\ n * d \in Int
    BY <1>1, Distribute
  <1>3. ~(q < d)
    BY <1>1, <1>2, Quotients
  <1>4. ~(d < q)
    BY <1>1, <1>2, Quotients
  <1>5. d = q
    BY <1>3, <1>4
  <1>6. a = n * d + t
    BY <1>1
  <1>7. t = r
    BY <1>2, <1>5, <1>6
  <1> QED BY <1>1, <1>7

LEMMA ModEqual ==
    ASSUME NEW a \in Int, NEW b \in Int, NEW n \in Nat \ {0}, NEW q \in Int, b = a + n * q
    PROVE  b % n = a % n
  <1>1. PICK d \in Int, r \in 0..(n - 1) : a = n * d + r /\ r = a % n
    BY DivMod
  <1>2. PICK e \in Int : e = d + q
    OBVIOUS
  <1>3. n * e = n * d + n * q /\ n * d \in Int /\ n * q \in Int
    BY <1>2, Distribute
  <1>4. b = n * e + r
    <2>1. a = n * d + r
      BY <1>1
    <2> QED BY <1>3, <2>1
  <1>5. b % n = r
    BY <1>4, ModUnique
  <1> QED BY <1>1, <1>5

LEMMA ModAdd ==
    ASSUME NEW x \in Int, NEW n \in Nat \ {0}, NEW k \in Int
    PROVE  ((x % n) + k) % n = (x + k) % n
  <1>1. PICK d \in Int, r \in 0..(n - 1) : x = n * d + r /\ r = x % n
    BY DivMod
  <1>2. PICK u \in Int, v \in Int : u = r + k /\ v = x + k
    OBVIOUS
  <1>3. v = u + n * d
    <2>1. x = n * d + r /\ n * d \in Int
      BY <1>1, Distribute
    <2> QED BY <1>2, <2>1
  <1>4. v % n = u % n
    BY <1>3, ModEqual
  <1> QED BY <1>1, <1>2, <1>4

LEMMA ModOfMod ==
    ASSUME NEW x \in Int, NEW n \in Nat \ {0}, NEW w \in Nat \ {0}, w % n = 0
    PROVE  (x % w) % n = x % n
  <1>1. PICK d \in Int, r \in 0..(w - 1) : x = w * d + r /\ r = x % w
    BY DivMod
  <1>2. PICK m \in Int, z \in 0..(n - 1) : w = n * m + z /\ z = w % n
    BY DivMod
  <1>3. w = n * m
    BY <1>2, Distribute
  <1>4. PICK e \in Int : e = m * d
    OBVIOUS
  <1>5. w * d = n * e
    BY <1>3, <1>4
  <1>6. x = r + n * e
    BY <1>1, <1>5, Distribute
  <1>7. r \in Int
    OBVIOUS
  <1>8. x % n = r % n
    BY <1>6, <1>7, ModEqual
  <1> QED BY <1>1, <1>8

LEMMA ModDiff ==
    ASSUME NEW x \in Int, NEW y \in Int, NEW n \in Nat \ {0}
    PROVE  ((x % n) - (y % n)) % n = (x - y) % n
  <1>1. PICK d \in Int, r \in 0..(n - 1) : x = n * d + r /\ r = x % n
    BY DivMod
  <1>2. PICK e \in Int, t \in 0..(n - 1) : y = n * e + t /\ t = y % n
    BY DivMod
  <1>3. PICK u \in Int, v \in Int, f \in Int : u = r - t /\ v = x - y /\ f = d - e
    OBVIOUS
  <1>4. n * f = n * d - n * e /\ n * d \in Int /\ n * e \in Int
    BY <1>3, Distribute
  <1>5. v = u + n * f
    <2>1. x = n * d + r /\ y = n * e + t
      BY <1>1, <1>2
    <2> QED BY <1>3, <1>4, <2>1
  <1>6. v % n = u % n
    BY <1>5, ModEqual, ZenonT(30)
  <1> QED BY <1>1, <1>2, <1>3, <1>6

LEMMA ModStep ==
    ASSUME NEW x \in Int, NEW n \in Nat \ {0}, NEW i \in 0..n
    PROVE  /\ x % n \in 0..(n - 1)
           /\ (x + i) % n = IF (x % n) + i < n THEN (x % n) + i ELSE (x % n) + i - n
  <1>1. PICK d \in Int, r \in 0..(n - 1) : x = n * d + r /\ r = x % n
    BY DivMod
  <1>2. PICK v \in Int, e \in Int : v = x + i /\ e = d + 1
    OBVIOUS
  <1>3. n * e = n * d + n /\ n * d \in Int
    BY <1>2, Distribute
  <1>4. CASE r + i < n
    <2>1. v = n * d + (r + i) /\ r + i \in 0..(n - 1)
      <3>1. x = n * d + r
        BY <1>1
      <3> QED BY <3>1, <1>2, <1>3, <1>4
    <2>2. v % n = r + i
      BY <2>1, ModUnique
    <2> QED BY <1>1, <1>2, <1>4, <2>2
  <1>5. CASE ~(r + i < n)
    <2>1. v = n * e + (r + i - n) /\ r + i - n \in 0..(n - 1)
      <3>1. x = n * d + r
        BY <1>1
      <3> QED BY <3>1, <1>2, <1>3, <1>5
    <2>2. v % n = r + i - n
      BY <2>1, ModUnique
    <2> QED BY <1>1, <1>2, <1>5, <2>2
  <1> QED BY <1>4, <1>5

LEMMA ModInjective ==
    ASSUME NEW x \in Int, NEW y \in Int, NEW n \in Nat \ {0}, x <= y, y < x + n, x % n = y % n
    PROVE  x = y
  <1>1. PICK i \in 0..n : y = x + i /\ i < n
    <2>1. y - x \in 0..n /\ y = x + (y - x) /\ y - x < n
      OBVIOUS
    <2> QED BY <2>1
  <1>2. /\ x % n \in 0..(n - 1)
        /\ y % n = IF (x % n) + i < n THEN (x % n) + i ELSE (x % n) + i - n
    BY <1>1, ModStep
  <1> QED BY <1>1, <1>2

----------------------------------------------------------------------------
(* The inductive invariant.  The counters of the code are remainders of    *)
(* two numbers that only grow: the bytes pushed and the bytes taken.       *)

(* The number of bytes taken.                                              *)
Gone == Len(taken)

(* The cell of byte k + 1.                                                 *)
Cell(k) == k % BufferSize

(* head and tail are the two numbers modulo the word, never further apart  *)
(* than the ring is long.                                                  *)
Counters ==
    /\ head = Gone % Word /\ tail = accepted % Word
    /\ Gone <= accepted /\ accepted <= Gone + BufferSize

(* Every byte pushed and not yet taken is in its cell.                     *)
Stored == \A k \in Gone..(accepted - 1) : buffer[Cell(k)] = k + 1

Writing == {"checked", "copied"}

(* Whoever is inside push() or wait() uses the ring and asks for at least  *)
(* one byte.                                                               *)
Active == \A p \in Producers : pc[p] # "idle" => p \in users /\ want[p] >= 1

(* One producer at a time is between its check and its publication.        *)
Exclusive ==
    /\ ~mutex => Cardinality(users) <= 1
    /\ \A p \in Producers : mutex /\ pc[p] \in Writing \cup {"dozing"} => write_mutex = p

(* The room that its check found is still there.                           *)
Room == \A p \in Producers : pc[p] \in Writing => accepted + want[p] <= Gone + BufferSize

(* What it copied lies behind the bytes published so far.                  *)
CopyDone ==
    \A p \in Producers : pc[p] = "copied" =>
        \A k \in accepted..(accepted + want[p] - 1) : buffer[Cell(k)] = k + 1

(* The reader was given no more than there is, and nothing past the end.   *)
Reader ==
    cpc \in {"reading", "read"} =>
        1 <= len /\ Gone + len <= accepted /\ Cell(Gone) + len <= BufferSize

(* Its handler saw the next bytes of the stream.                           *)
Seen == cpc = "read" => Len(seen) = len /\ \A k \in 1..len : seen[k] = Gone + k

Waited ==
    Cardinality(users) <= 1 =>
        \A p \in Producers : pc[p] = "waited" => accepted + want[p] <= Gone + BufferSize

RingInv == /\ TypeOK /\ Counters /\ Stored /\ Active /\ Exclusive
           /\ Room /\ CopyDone /\ Reader /\ Seen /\ Waited

----------------------------------------------------------------------------
(* Cells and counters.                                                     *)

LEMMA CellType ==
    ASSUME NEW k \in Nat
    PROVE  Cell(k) \in Cells /\ Cell(k) \in Nat /\ Cell(k) < BufferSize
<1>1. k % BufferSize \in 0..(BufferSize - 1)
  BY ConstantsAssumption
<1>2. QED
  BY <1>1, ConstantsAssumption DEF Cell, Cells

LEMMA CellStep ==
    ASSUME NEW k \in Nat, NEW i \in 0..BufferSize
    PROVE  Cell(k + i) = IF Cell(k) + i < BufferSize THEN Cell(k) + i
                         ELSE Cell(k) + i - BufferSize
<1>1. k \in Int /\ BufferSize \in Nat \ {0}
  BY ConstantsAssumption
<1>2. (k + i) % BufferSize = IF (k % BufferSize) + i < BufferSize THEN (k % BufferSize) + i
                             ELSE (k % BufferSize) + i - BufferSize
  BY <1>1, ModStep
<1>3. QED
  BY <1>2 DEF Cell

LEMMA CellInjective ==
    ASSUME NEW j \in Nat, NEW k \in Nat, j < k, k < j + BufferSize
    PROVE  Cell(j) # Cell(k)
<1>1. j \in Int /\ k \in Int /\ BufferSize \in Nat \ {0} /\ j <= k /\ j # k
  BY ConstantsAssumption
<1>2. j % BufferSize # k % BufferSize
  BY <1>1, ModInjective
<1>3. QED
  BY <1>2 DEF Cell

(* What the code computes from the two counters, in terms of the bytes     *)
(* pushed and taken: the difference survives the wrapping.                 *)
LEMMA View ==
    ASSUME TypeOK, Counters
    PROVE  /\ Gone \in Nat /\ accepted \in Nat
           /\ size = accepted - Gone /\ Space = BufferSize - (accepted - Gone)
           /\ readPos = Cell(Gone) /\ tail % BufferSize = Cell(accepted)
<1>1. Gone \in Nat /\ accepted \in Nat
  BY LenProperties DEF TypeOK, Gone
<1>2. Word \in Nat \ {0} /\ BufferSize \in Nat \ {0} /\ Word % BufferSize = 0
  BY ConstantsAssumption
<1>3. size = (accepted - Gone) % Word
  <2>1. accepted \in Int /\ Gone \in Int
    BY <1>1
  <2>2. ((accepted % Word) - (Gone % Word)) % Word = (accepted - Gone) % Word
    BY <2>1, <1>2, ModDiff
  <2>3. QED
    BY <2>2 DEF size, Counters
<1>4. (accepted - Gone) % Word = accepted - Gone
  <2>1. PICK z \in Int, d \in 0..(Word - 1) : z = 0 /\ d = accepted - Gone
    BY <1>1, ConstantsAssumption DEF Counters
  <2>2. d = Word * z + d
    BY <2>1, <1>2
  <2>3. d % Word = d
    BY <2>2, <1>2, ModUnique
  <2>4. QED
    BY <2>1, <2>3
<1>5. ASSUME NEW x \in Nat PROVE (x % Word) % BufferSize = x % BufferSize
  <2>1. x \in Int
    OBVIOUS
  <2>2. QED
    BY <2>1, <1>2, ModOfMod
<1>6. readPos = Cell(Gone) /\ tail % BufferSize = Cell(accepted)
  BY <1>1, <1>5 DEF readPos, Cell, Counters
<1>7. QED
  BY <1>1, <1>3, <1>4, <1>6 DEF Space

LEMMA Advance ==
    ASSUME NEW x \in Nat, NEW c, c = x % Word, NEW n \in Nat
    PROVE  (c + n) % Word = (x + n) % Word
  BY ModAdd, ConstantsAssumption

(* A push writes the cells of its own bytes and no other.                  *)
LEMMA CopiedSpec ==
    ASSUME TypeOK, Counters, NEW n \in 1..BufferSize
    PROVE  /\ \A j \in 0..(n - 1) : Copied(n, Cell(accepted + j)) = accepted + j + 1
           /\ \A c \in Cells : \/ Copied(n, c) = buffer[c]
                             \/ \E j \in 0..(n - 1) : c = Cell(accepted + j)
           /\ \A c \in Cells : Copied(n, c) \in Nat
<1> DEFINE w == Cell(accepted)
<1>1. tail % BufferSize = w /\ accepted \in Nat /\ w \in Nat /\ w < BufferSize
  BY View, CellType
<1>2. \A j \in 0..(n - 1) :
         Cell(accepted + j) = IF w + j < BufferSize THEN w + j ELSE w + j - BufferSize
  BY <1>1, CellStep, ConstantsAssumption, SMTT(30)
<1>3. \A c : Copied(n, c) = IF w <= c /\ c < w + n THEN accepted + (c - w) + 1
                            ELSE IF c < n - (BufferSize - w) THEN accepted + (BufferSize - w) + c + 1
                            ELSE buffer[c]
  BY <1>1 DEF Copied
<1> HIDE DEF w
<1>4. ASSUME NEW j \in 0..(n - 1)
      PROVE  Copied(n, Cell(accepted + j)) = accepted + j + 1
  BY <1>1, <1>2, <1>3, ConstantsAssumption, SMTT(40)
<1>5. ASSUME NEW c \in Cells
      PROVE  Copied(n, c) = buffer[c] \/ \E j \in 0..(n - 1) : c = Cell(accepted + j)
  <2>1. CASE w <= c /\ c < w + n
    <3>1. c - w \in 0..(n - 1) /\ w + (c - w) < BufferSize /\ c = w + (c - w)
      BY <2>1, <1>1, ConstantsAssumption DEF Cells
    <3>2. QED
      BY <3>1, <1>2
  <2>2. CASE ~(w <= c /\ c < w + n) /\ c < n - (BufferSize - w)
    <3>1. /\ c + (BufferSize - w) \in 0..(n - 1)
          /\ ~(w + (c + (BufferSize - w)) < BufferSize)
          /\ c = w + (c + (BufferSize - w)) - BufferSize
      BY <2>2, <1>1, ConstantsAssumption DEF Cells
    <3>2. QED
      BY <3>1, <1>2
  <2>3. CASE ~(w <= c /\ c < w + n) /\ ~(c < n - (BufferSize - w))
    BY <2>3, <1>3
  <2>4. QED
    BY <2>1, <2>2, <2>3
<1>6. ASSUME NEW c \in Cells PROVE Copied(n, c) \in Nat
  <2>1. buffer[c] \in Nat /\ c \in Nat /\ BufferSize \in Nat
    BY ConstantsAssumption DEF TypeOK, Cells
  <2>2. QED
    BY <2>1, <1>1, <1>3
<1>7. QED
  BY <1>4, <1>5, <1>6

(* Where at most one producer uses the ring, any two of its users are the  *)
(* same.                                                                   *)
LEMMA OneUser ==
    ASSUME TypeOK, Cardinality(users) <= 1, NEW p \in users, NEW q \in users
    PROVE  p = q
<1>1. IsFiniteSet(users)
  BY ConstantsAssumption, FS_Subset DEF TypeOK
<1>2. SUFFICES ASSUME p # q PROVE FALSE
  OBVIOUS
<1>3. IsFiniteSet({p}) /\ Cardinality({p}) = 1
  BY FS_Singleton
<1>4. Cardinality({p} \cup {q}) = 2
  <2>1. q \notin {p}
    BY <1>2
  <2>2. Cardinality({p} \cup {q}) = Cardinality({p}) + 1
    BY <1>3, <2>1, FS_AddElement
  <2>3. QED
    BY <1>3, <2>2
<1>5. {p} \cup {q} \subseteq users
  OBVIOUS
<1>6. Cardinality({p} \cup {q}) <= Cardinality(users) /\ Cardinality(users) \in Nat
  BY <1>1, <1>5, FS_Subset, FS_CardinalityType
<1>7. QED
  BY <1>4, <1>6

(* Nobody else writes while p does.                                        *)
LEMMA OneWriter ==
    ASSUME TypeOK, Active, Exclusive, NEW p \in Producers, NEW q \in Producers,
           pc[p] \in Writing, pc[q] \in Writing \cup {"dozing"}
    PROVE  p = q
<1>1. CASE mutex
  BY <1>1 DEF Exclusive
<1>2. CASE ~mutex
  <2>1. p \in users /\ q \in users
    BY DEF Active, Writing
  <2>2. QED
    BY <2>1, <1>2, OneUser DEF Exclusive
<1>3. QED
  BY <1>1, <1>2

----------------------------------------------------------------------------
(* The steps of the producers.                                             *)

LEMMA InitInv ==
    ASSUME Init PROVE RingInv
<1>1. Gone = 0 /\ accepted = 0
  BY DEF Init, Gone
<1>2. TypeOK
  BY ConstantsAssumption DEF Init, TypeOK, Cells
<1>3. Counters
  <2>1. 0 % Word = 0
    BY ConstantsAssumption
  <2>2. QED
    BY <1>1, <2>1, ConstantsAssumption DEF Init, Counters
<1>4. QED
  BY <1>1, <1>2, <1>3
  DEF Init, RingInv, Stored, Active, Exclusive, Room, CopyDone, Reader, Seen, Waited, Writing

(* A step that leaves the ring, the bytes and the reader alone keeps what  *)
(* is said of them.                                                        *)
LEMMA RingSame ==
    ASSUME RingInv, UNCHANGED <<ring, accepted, consumer>>
    PROVE  Counters' /\ Stored' /\ Reader' /\ Seen' /\ Gone' = Gone
  BY DEF RingInv, ring, consumer, Counters, Stored, Reader, Seen, Gone

LEMMA CallStep ==
    ASSUME RingInv, NEW p \in users, NEW n \in 1..MaxPush, NEW next \in {"push", "wait"},
           Call(p, n, next)
    PROVE  RingInv'
<1> USE DEF Call, Goto, config
<1>1. Counters' /\ Stored' /\ Reader' /\ Seen' /\ Gone' = Gone
  BY RingSame
<1>2. p \in Producers /\ TypeOK'
  BY ConstantsAssumption DEF RingInv, TypeOK, ring, consumer
<1>3. Active'
  BY <1>2 DEF RingInv, TypeOK, Active
<1>4. Exclusive'
  BY <1>2 DEF RingInv, TypeOK, Exclusive, Writing
<1>5. Room' /\ CopyDone' /\ Waited'
  BY <1>1, <1>2 DEF RingInv, TypeOK, Room, CopyDone, Waited, Writing, ring
<1>6. QED
  BY <1>1, <1>2, <1>3, <1>4, <1>5 DEF RingInv

LEMMA PushCheckStep ==
    ASSUME RingInv, NEW p \in users, PushCheck(p)
    PROVE  RingInv'
<1> USE DEF PushCheck, Goto, config, Lock, Lockable
<1>1. Counters' /\ Stored' /\ Reader' /\ Seen' /\ Gone' = Gone
  BY RingSame
<1>2. p \in Producers /\ TypeOK'
  BY ConstantsAssumption DEF RingInv, TypeOK, ring, consumer
<1>3. Active'
  BY <1>2 DEF RingInv, TypeOK, Active
<1>4. Exclusive'
  BY <1>2, ConstantsAssumption DEF RingInv, TypeOK, Exclusive, Writing
<1>5. Room'
  <2>1. Space = BufferSize - (accepted - Gone) /\ Gone \in Nat /\ accepted \in Nat
    BY View DEF RingInv
  <2>2. pc'[p] = "checked" => accepted + want[p] <= Gone + BufferSize
    BY <2>1, <1>2, ConstantsAssumption DEF RingInv, TypeOK, HasRoom
  <2>3. QED
    BY <2>2, <1>1, <1>2 DEF RingInv, TypeOK, Room, Writing
<1>6. CopyDone' /\ Waited'
  BY <1>1, <1>2 DEF RingInv, TypeOK, CopyDone, Waited, Writing, ring
<1>7. QED
  BY <1>1, <1>2, <1>3, <1>4, <1>5, <1>6 DEF RingInv

LEMMA PushCopyStep ==
    ASSUME RingInv, NEW p \in users, PushCopy(p)
    PROVE  RingInv'
<1> USE DEF PushCopy, Goto, config
<1> DEFINE n == want[p]
<1>1. /\ p \in Producers /\ Gone \in Nat /\ accepted \in Nat /\ Gone' = Gone
      /\ BufferSize \in Nat /\ accepted' = accepted /\ want' = want
  BY View, ConstantsAssumption DEF RingInv, TypeOK, Gone, consumer
<1>2. n \in 1..BufferSize /\ accepted + n <= Gone + BufferSize /\ Gone <= accepted
  BY <1>1 DEF RingInv, TypeOK, Active, Room, Counters, Writing
<1>3. /\ \A j \in 0..(n - 1) : buffer'[Cell(accepted + j)] = accepted + j + 1
      /\ \A c \in Cells : buffer'[c] = buffer[c] \/ \E j \in 0..(n - 1) : c = Cell(accepted + j)
      /\ buffer' \in [Cells -> Nat]
  <2>1. \A j \in 0..(n - 1) : Cell(accepted + j) \in Cells
    BY <1>1, <1>2, CellType
  <2>2. /\ \A j \in 0..(n - 1) : Copied(n, Cell(accepted + j)) = accepted + j + 1
        /\ \A c \in Cells : \/ Copied(n, c) = buffer[c]
                          \/ \E j \in 0..(n - 1) : c = Cell(accepted + j)
        /\ \A c \in Cells : Copied(n, c) \in Nat
    BY <1>2, CopiedSpec DEF RingInv
  <2>3. QED
    BY <2>1, <2>2
<1> HIDE DEF n
<1>4. TypeOK'
  BY <1>3, <1>1 DEF RingInv, TypeOK, consumer
<1>5. Counters' /\ Reader' /\ Seen'
  BY <1>1 DEF RingInv, Counters, Reader, Seen, consumer
<1>6. Stored'
  <2>1. SUFFICES ASSUME NEW k \in Gone..(accepted - 1)
                 PROVE  buffer'[Cell(k)] = k + 1
    BY <1>1 DEF Stored
  <2>2. Cell(k) \in Cells /\ buffer[Cell(k)] = k + 1 /\ k \in Nat
    BY <1>1, CellType DEF RingInv, Stored
  <2>3. ASSUME NEW j \in 0..(n - 1) PROVE Cell(k) # Cell(accepted + j)
    <3>1. accepted + j \in Nat /\ k < accepted + j /\ accepted + j < k + BufferSize
      BY <1>1, <1>2
    <3>2. QED
      BY <3>1, <2>2, CellInjective
  <2>4. QED
    BY <2>2, <2>3, <1>3
<1>7. CopyDone'
  <2>1. ASSUME NEW k \in accepted..(accepted + n - 1) PROVE buffer'[Cell(k)] = k + 1
    <3>1. k - accepted \in 0..(n - 1) /\ k = accepted + (k - accepted)
      BY <1>1, <1>2
    <3>2. QED
      BY <3>1, <1>3
  <2>2. ASSUME NEW q \in Producers, pc'[q] = "copied" PROVE q = p
    BY <2>2, <1>1, OneWriter DEF RingInv, TypeOK, Writing
  <2>3. QED
    BY <2>1, <2>2, <1>1 DEF CopyDone, n
<1>8. Active' /\ Exclusive' /\ Room' /\ Waited'
  BY <1>1 DEF RingInv, TypeOK, Active, Exclusive, Room, Waited, Writing
<1>9. QED
  BY <1>4, <1>5, <1>6, <1>7, <1>8 DEF RingInv

LEMMA PushDoneStep ==
    ASSUME RingInv, NEW p \in users, PushDone(p)
    PROVE  RingInv'
<1> USE DEF PushDone, Goto, config, Unlock
<1>1. /\ p \in Producers /\ Gone \in Nat /\ accepted \in Nat /\ Gone' = Gone
      /\ BufferSize \in Nat /\ want' = want /\ buffer' = buffer
  BY View, ConstantsAssumption DEF RingInv, TypeOK, Gone, consumer
<1>2. want[p] \in 1..BufferSize /\ accepted + want[p] <= Gone + BufferSize /\ Gone <= accepted
  BY <1>1, SMTT(30) DEF RingInv, TypeOK, Active, Room, Counters, Writing
<1>3. (tail + want[p]) % Word = (accepted + want[p]) % Word /\ (tail + want[p]) % Word \in 0..(Word - 1)
  <2> HIDE DEF PushDone, Goto, config, Unlock
  <2>1. (tail + want[p]) % Word = (accepted + want[p]) % Word
    <3>1. want[p] \in Nat /\ tail = accepted % Word
      BY <1>2 DEF RingInv, Counters
    <3>2. QED
      BY <3>1, <1>1, Advance
  <2>2. tail + want[p] \in Int /\ Word \in Nat \ {0}
    BY <1>2, ConstantsAssumption DEF RingInv, TypeOK
  <2>3. QED
    BY <2>1, <2>2
<1>4. TypeOK'
  BY <1>1, <1>2, <1>3, SMTT(30) DEF RingInv, TypeOK, consumer
<1>5. Counters'
  <2>1. tail' = accepted' % Word
    BY <1>3
  <2>2. head' = Gone' % Word
    BY <1>1 DEF RingInv, Counters
  <2>3. Gone' <= accepted' /\ accepted' <= Gone' + BufferSize
    BY <1>1, <1>2
  <2>4. QED
    BY <2>1, <2>2, <2>3 DEF Counters
<1>6. PICK a \in Nat : accepted' = a /\ accepted <= a /\ a = accepted + want[p]
  <2>1. accepted' = accepted + want[p]
    OBVIOUS
  <2> HIDE DEF PushDone, Goto, config, Unlock
  <2>2. accepted + want[p] \in Nat /\ accepted <= accepted + want[p]
    BY <1>1, <1>2
  <2>3. QED
    BY <2>1, <2>2
<1>7. Stored'
  <2>1. \A k \in accepted..(a - 1) : buffer[Cell(k)] = k + 1
    <3> HIDE DEF PushDone, Goto, config, Unlock
    <3>0. pc[p] = "copied"
      BY DEF PushDone
    <3>1. \A k \in accepted..(accepted + want[p] - 1) : buffer[Cell(k)] = k + 1
      BY <3>0, <1>1 DEF RingInv, CopyDone
    <3>2. QED
      BY <3>1, <1>1, <1>2, <1>6
  <2>2. \A k \in Gone..(accepted - 1) : buffer[Cell(k)] = k + 1
    BY DEF RingInv, Stored
  <2>3. QED
    BY <2>1, <2>2, <1>1, <1>6 DEF Stored
<1>8. \A q \in Producers : pc'[q] \notin Writing
  BY <1>1, OneWriter DEF RingInv, TypeOK, Writing
<1>9. Room' /\ CopyDone'
  BY <1>8 DEF Room, CopyDone, Writing
<1>10. Reader' /\ Seen'
  BY <1>1, <1>6 DEF RingInv, Reader, Seen, consumer, TypeOK
<1>11. Active'
  BY <1>1 DEF RingInv, TypeOK, Active
<1>12. Exclusive'
  BY <1>1, OneWriter DEF RingInv, TypeOK, Exclusive, Writing
<1>13. Waited'
  <2>1. ASSUME Cardinality(users) <= 1, NEW q \in Producers, pc'[q] = "waited" PROVE FALSE
    <3>1. q \in users /\ q # p
      BY <2>1, <1>1 DEF RingInv, TypeOK, Active
    <3>2. QED
      BY <3>1, <2>1, OneUser DEF RingInv
  <2>2. QED
    BY <2>1 DEF Waited
<1>14. QED
  BY <1>4, <1>5, <1>7, <1>9, <1>10, <1>11, <1>12, <1>13 DEF RingInv

LEMMA WaitStep ==
    ASSUME RingInv, NEW p \in users, WaitCheck(p) \/ WaitSleep(p) \/ Spurious(p)
    PROVE  RingInv'
<1> USE DEF WaitCheck, WaitSleep, Spurious, Goto, config, Lock, Unlock, Lockable
<1>1. Counters' /\ Stored' /\ Reader' /\ Seen' /\ Gone' = Gone
  BY RingSame
<1>2. p \in Producers /\ TypeOK'
  BY ConstantsAssumption DEF RingInv, TypeOK, ring, consumer
<1>3. Active'
  BY <1>2 DEF RingInv, TypeOK, Active
<1>4. Exclusive'
  BY <1>2, ConstantsAssumption DEF RingInv, TypeOK, Exclusive, Writing
<1>5. Waited'
  <2>1. Space = BufferSize - (accepted - Gone) /\ Gone \in Nat /\ accepted \in Nat
    BY View DEF RingInv
  <2>2. pc'[p] = "waited" => accepted + want[p] <= Gone + BufferSize
    BY <2>1, <1>2, ConstantsAssumption DEF RingInv, TypeOK, HasRoom
  <2>3. QED
    BY <2>2, <1>1, <1>2 DEF RingInv, TypeOK, Waited
<1>6. CopyDone' /\ Room'
  BY <1>1, <1>2 DEF RingInv, TypeOK, CopyDone, Room, Writing, ring
<1>7. QED
  BY <1>1, <1>2, <1>3, <1>4, <1>5, <1>6 DEF RingInv

----------------------------------------------------------------------------
(* The steps of the consumer.                                              *)

LEMMA Numbers ==
    ASSUME NEW h \in Nat, NEW n \in Nat
    PROVE  [i \in 1..n |-> h + i] \in Seq(Nat) /\ Len([i \in 1..n |-> h + i]) = n
  OBVIOUS

LEMMA ReadBeginStep ==
    ASSUME RingInv, ReadBegin
    PROVE  RingInv'
<1> USE DEF ReadBegin, config, ring
<1>1. /\ Gone \in Nat /\ accepted \in Nat /\ Gone' = Gone /\ size = accepted - Gone
      /\ BufferSize \in Nat /\ readPos = Cell(Gone) /\ Gone <= accepted
      /\ accepted <= Gone + BufferSize /\ accepted' = accepted
  BY View, ConstantsAssumption DEF RingInv, Gone, Counters
<1>2. Cell(Gone) \in Nat /\ Cell(Gone) < BufferSize
  BY <1>1, CellType
<1>3. len' \in 1..BufferSize /\ Gone + len' <= accepted /\ Cell(Gone) + len' <= BufferSize
  BY <1>1, <1>2 DEF Readable, Least
<1>4. TypeOK'
  BY <1>3 DEF RingInv, TypeOK
<1>5. Counters' /\ Stored' /\ Reader' /\ Seen'
  BY <1>1, <1>3 DEF RingInv, Counters, Stored, Reader, Seen
<1>6. Active' /\ Exclusive' /\ Room' /\ CopyDone' /\ Waited'
  BY <1>1 DEF RingInv, Active, Exclusive, Room, CopyDone, Waited
<1>7. QED
  BY <1>4, <1>5, <1>6 DEF RingInv

LEMMA ReadHandleStep ==
    ASSUME RingInv, ReadHandle
    PROVE  RingInv'
<1> USE DEF ReadHandle, config, ring
<1>1. /\ Gone \in Nat /\ accepted \in Nat /\ Gone' = Gone
      /\ BufferSize \in Nat /\ readPos = Cell(Gone) /\ accepted' = accepted
  BY View, ConstantsAssumption DEF RingInv, Gone
<1>2. Cell(Gone) \in Nat /\ Cell(Gone) < BufferSize
  BY <1>1, CellType
<1>3. len \in 1..BufferSize /\ Gone + len <= accepted /\ Cell(Gone) + len <= BufferSize
  BY <1>1 DEF RingInv, Reader, TypeOK
<1>4. ASSUME NEW k \in 1..len
      PROVE  readPos + k - 1 \in Cells /\ buffer[readPos + k - 1] = Gone + k
  <2>1. PICK j \in 0..BufferSize : j = k - 1
    BY <1>1, <1>3
  <2>2. Cell(Gone + j) = readPos + k - 1
    <3> HIDE DEF ReadHandle
    <3>1. Cell(Gone + j) = Cell(Gone) + j
      BY <2>1, <1>1, <1>2, <1>3, CellStep
    <3>2. QED
      BY <3>1, <2>1, <1>1, <1>2
  <2>3. Gone + j \in Gone..(accepted - 1)
    BY <2>1, <1>1, <1>3
  <2>4. buffer[Cell(Gone + j)] = Gone + j + 1
    BY <2>3 DEF RingInv, Stored
  <2>5. Cell(Gone + j) \in Cells
    BY <1>1, CellType
  <2>6. QED
    BY <2>1, <2>2, <2>4, <2>5, <1>1
<1>5. seen' = [k \in 1..len |-> Gone + k]
  BY <1>4
<1>6. seen' \in Seq(Nat) /\ Len(seen') = len
  <2> HIDE DEF ReadHandle
  <2>1. len \in Nat
    BY <1>1, <1>3
  <2>2. QED
    BY <1>5, <1>1, <2>1, Numbers
<1>7. TypeOK'
  BY <1>6 DEF RingInv, TypeOK
<1>8. Seen'
  BY <1>5, <1>6, <1>1 DEF Seen
<1>9. Counters' /\ Stored' /\ Reader'
  BY <1>1 DEF RingInv, Counters, Stored, Reader
<1>10. Active' /\ Exclusive' /\ Room' /\ CopyDone' /\ Waited'
  BY <1>1 DEF RingInv, Active, Exclusive, Room, CopyDone, Waited
<1>11. QED
  BY <1>7, <1>8, <1>9, <1>10 DEF RingInv

(* What the consumer takes is the next bytes of the stream.                *)
LEMMA Consumed ==
    ASSUME RingInv, cpc = "read", NEW n \in 1..len, Consume(n)
    PROVE  /\ taken' = taken \o [i \in 1..n |-> Gone + i]
           /\ taken' \in Seq(Nat) /\ Gone' = Gone + n
           /\ Gone \in Nat /\ n \in Nat /\ Gone + n <= accepted
<1>1. /\ seen \in Seq(Nat) /\ taken \in Seq(Nat) /\ Len(seen) = len /\ len \in Nat
      /\ \A k \in 1..len : seen[k] = Gone + k
  BY ConstantsAssumption DEF RingInv, TypeOK, Seen
<1>2. /\ SubSeq(seen, 1, n) = [i \in 1..n |-> seen[i]]
      /\ SubSeq(seen, 1, n) \in Seq(Nat) /\ Len(SubSeq(seen, 1, n)) = n
  BY <1>1
<1>3. SubSeq(seen, 1, n) = [i \in 1..n |-> Gone + i]
  BY <1>1, <1>2
<1>4. taken' = taken \o SubSeq(seen, 1, n)
  BY DEF Consume
<1>5. taken' \in Seq(Nat) /\ Len(taken') = Len(taken) + n
  BY <1>1, <1>2, <1>4, ConcatProperties
<1>6. Gone + n <= accepted /\ Gone \in Nat
  BY <1>1, View DEF RingInv, Reader
<1>7. QED
  BY <1>1, <1>3, <1>4, <1>5, <1>6, SMTT(30) DEF Gone

LEMMA ConsumeStep ==
    ASSUME RingInv, cpc = "read", NEW n \in 1..len, Consume(n), cpc' \in {"idle", "notify"}
    PROVE  RingInv'
<1>1. /\ taken' \in Seq(Nat) /\ Gone' = Gone + n
      /\ Gone \in Nat /\ n \in Nat /\ Gone + n <= accepted
  BY Consumed
<1>2. UNCHANGED <<mutex, users, tail, buffer, write_mutex, pc, want, accepted, len, seen>>
  BY DEF Consume, config
<1>3. (head + n) % Word = (Gone + n) % Word
  BY <1>1, Advance DEF RingInv, Counters
<1>4. head' = Gone' % Word
  BY <1>1, <1>3 DEF Consume
<1>5. head' \in 0..(Word - 1)
  <2>1. PICK x \in Int : x = Gone'
    BY <1>1
  <2>2. x % Word \in 0..(Word - 1)
    BY ConstantsAssumption
  <2>3. QED
    BY <1>4, <2>1, <2>2
<1>6. TypeOK'
  BY <1>1, <1>2, <1>5 DEF RingInv, TypeOK
<1>7. accepted \in Nat /\ BufferSize \in Nat /\ accepted <= Gone + BufferSize
  BY ConstantsAssumption DEF RingInv, TypeOK, Counters
<1>8. Counters'
  <2>1. Gone' <= accepted' /\ accepted' <= Gone' + BufferSize
    BY <1>1, <1>2, <1>7
  <2>2. tail' = accepted' % Word
    BY <1>2 DEF RingInv, Counters
  <2>3. QED
    BY <2>1, <2>2, <1>4 DEF Counters
<1>9. Stored'
  BY <1>1, <1>2, <1>7 DEF RingInv, Stored
<1>10. Room' /\ Waited'
  BY <1>1, <1>2, <1>7, SMTT(30) DEF RingInv, TypeOK, Room, Waited
<1>11. Active' /\ Exclusive' /\ CopyDone' /\ Reader' /\ Seen'
  BY <1>2 DEF RingInv, Active, Exclusive, CopyDone, Reader, Seen
<1>12. QED
  BY <1>6, <1>8, <1>9, <1>10, <1>11 DEF RingInv

LEMMA NotifyStep ==
    ASSUME RingInv, Notify
    PROVE  RingInv'
<1> USE DEF Notify, config, ring, Goto
<1>1. Gone' = Gone /\ accepted' = accepted
  BY DEF Gone
<1>2. TypeOK'
  BY DEF RingInv, TypeOK
<1>3. Counters' /\ Stored' /\ Reader' /\ Seen'
  BY <1>1 DEF RingInv, Counters, Stored, Reader, Seen
<1>4. Active' /\ Exclusive'
  BY DEF RingInv, TypeOK, Active, Exclusive, Writing
<1>5. Room' /\ CopyDone' /\ Waited'
  BY <1>1 DEF RingInv, TypeOK, Room, CopyDone, Waited, Writing
<1>6. QED
  BY <1>2, <1>3, <1>4, <1>5 DEF RingInv

LEMMA StutterStep ==
    ASSUME RingInv, UNCHANGED vars
    PROVE  RingInv' /\ Gone' = Gone
<1> USE DEF vars, config, ring, consumer
<1>1. Gone' = Gone
  BY DEF Gone
<1>2. TypeOK'
  BY DEF RingInv, TypeOK
<1>3. Counters' /\ Stored' /\ Reader' /\ Seen'
  BY <1>1 DEF RingInv, Counters, Stored, Reader, Seen
<1>4. Active' /\ Exclusive' /\ Room' /\ CopyDone' /\ Waited'
  BY <1>1 DEF RingInv, Active, Exclusive, Room, CopyDone, Waited
<1>5. QED
  BY <1>1, <1>2, <1>3, <1>4 DEF RingInv

LEMMA NextStep ==
    ASSUME RingInv, [Next]_vars
    PROVE  RingInv'
<1>1. ASSUME NEW p \in users, Produce(p) PROVE RingInv'
  <2>1. CASE \E n \in 1..MaxPush : Call(p, n, "push") \/ Call(p, n, "wait")
    BY <2>1, CallStep
  <2>2. CASE PushCheck(p)
    BY <2>2, PushCheckStep
  <2>3. CASE PushCopy(p)
    BY <2>3, PushCopyStep
  <2>4. CASE PushDone(p)
    BY <2>4, PushDoneStep
  <2>5. CASE WaitCheck(p) \/ WaitSleep(p) \/ Spurious(p)
    BY <2>5, WaitStep
  <2>6. QED
    BY <1>1, <2>1, <2>2, <2>3, <2>4, <2>5 DEF Produce
<1>2. CASE ReadBegin
  BY <1>2, ReadBeginStep
<1>3. CASE ReadHandle
  BY <1>3, ReadHandleStep
<1>4. CASE Pop
  <2>1. len \in 1..len
    BY <1>4 DEF Pop, RingInv, Reader, TypeOK
  <2>2. QED
    BY <2>1, <1>4, ConsumeStep DEF Pop
<1>5. CASE Notify
  BY <1>5, NotifyStep
<1>6. CASE \E n \in 1..len : Commit(n)
  BY <1>6, ConsumeStep DEF Commit
<1>7. CASE UNCHANGED vars
  BY <1>7, StutterStep
<1>8. QED
  BY <1>1, <1>2, <1>3, <1>4, <1>5, <1>6, <1>7 DEF Next

(* What the run checks follows from the invariant.                         *)
LEMMA InvGives ==
    ASSUME RingInv PROVE RingIntact
<1>1. /\ Gone \in Nat /\ accepted \in Nat /\ BufferSize \in Nat \ {0}
      /\ size = accepted - Gone /\ Space = BufferSize - (accepted - Gone)
  BY View, ConstantsAssumption DEF RingInv
<1>2. UnreadIntact
  <2>1. ASSUME NEW i \in 0..(size - 1)
        PROVE  buffer[(head + i) % BufferSize] = Len(taken) + i + 1
    <3>1. Gone + i \in Gone..(accepted - 1) /\ i \in Int
      BY <1>1
    <3>2. buffer[Cell(Gone + i)] = Gone + i + 1
      BY <3>1 DEF RingInv, Stored
    <3>3. (head + i) % BufferSize = Cell(Gone + i)
      <4>1. head \in Int /\ Gone \in Int
        BY <1>1, ConstantsAssumption DEF RingInv, TypeOK
      <4>2. head % BufferSize = Gone % BufferSize
        BY View DEF RingInv, readPos, Cell
      <4>3. /\ ((head % BufferSize) + i) % BufferSize = (head + i) % BufferSize
            /\ ((Gone % BufferSize) + i) % BufferSize = (Gone + i) % BufferSize
        BY <4>1, <3>1, <1>1, ModAdd
      <4>4. QED
        BY <4>2, <4>3 DEF Cell
    <3>4. QED
      BY <3>2, <3>3 DEF Gone
  <2>2. QED
    BY <2>1, <1>1 DEF UnreadIntact, Gone
<1>3. WaitSuffices
  <2>1. ASSUME Cardinality(users) <= 1, NEW p \in Producers, pc[p] = "waited"
        PROVE  Space >= want[p]
    <3>1. accepted + want[p] <= Gone + BufferSize /\ want[p] \in Nat
      BY <2>1, ConstantsAssumption DEF RingInv, Waited, TypeOK
    <3>2. QED
      BY <3>1, <1>1
  <2>2. QED
    BY <2>1 DEF WaitSuffices
<1>4. QED
  BY <1>2, <1>3 DEF RingIntact, RingInv

(* The unread bytes are in the ring where the reader looks for them, while *)
(* pushes and reads overlap and after the counters of the ring wrapped     *)
(* (loop_buffer.hpp, push() and read()); a single producer's wait() finds  *)
(* the space its push needs.                                               *)
THEOREM RingIsIntact == Spec => []RingIntact
<1>1. Init => RingInv
  BY InitInv
<1>2. RingInv /\ [Next]_vars => RingInv'
  BY NextStep
<1>3. RingInv => RingIntact
  BY InvGives
<1>4. QED
  BY <1>1, <1>2, <1>3, PTL DEF Spec

----------------------------------------------------------------------------
(* The refinement of ByteQueue.                                            *)

(* The bytes h + 1 .. h + m; the queue is the span of the unread bytes.    *)
Span(h, m) == [i \in 1..m |-> h + i]

LEMMA SpanType ==
    ASSUME NEW h \in Nat, NEW m \in Nat
    PROVE  /\ Span(h, m) \in Seq(Nat) /\ Len(Span(h, m)) = m
           /\ \A i \in 1..m : Span(h, m)[i] = h + i
  BY Numbers DEF Span

LEMMA SpanConcat ==
    ASSUME NEW h \in Nat, NEW m \in Nat, NEW n \in Nat
    PROVE  Span(h, m + n) = Span(h, m) \o Span(h + m, n)
<1>0. PICK g \in Nat, t \in Nat : g = h + m /\ t = m + n
  OBVIOUS
<1>1. PICK a \in Seq(Nat), b \in Seq(Nat) : a = Span(h, m) /\ b = Span(g, n)
  BY SpanType
<1>2. Len(a) = m /\ Len(b) = n /\ Span(h, t) \in Seq(Nat) /\ Len(Span(h, t)) = t
  BY <1>1, SpanType
<1>3. /\ a \o b \in Seq(Nat) /\ Len(a \o b) = t
      /\ \A i \in 1..t : (a \o b)[i] = IF i <= m THEN a[i] ELSE b[i - m]
  <2>1. /\ a \o b \in Seq(Nat) /\ Len(a \o b) = Len(a) + Len(b)
        /\ \A i \in 1..(Len(a) + Len(b)) :
             (a \o b)[i] = IF i <= Len(a) THEN a[i] ELSE b[i - Len(a)]
    BY ConcatProperties, ZenonT(30)
  <2>2. QED
    BY <1>0, <1>2, <2>1
<1>4. ASSUME NEW i \in 1..t PROVE Span(h, t)[i] = (a \o b)[i]
  <2>1. Span(h, t)[i] = h + i
    BY SpanType
  <2>2. CASE i <= m
    <3>1. i \in 1..m
      BY <2>2
    <3>2. a[i] = h + i
      BY <1>1, <3>1, SpanType
    <3>3. QED
      BY <1>3, <2>1, <2>2, <3>2
  <2>3. CASE ~(i <= m)
    <3>1. i - m \in 1..n /\ g + (i - m) = h + i
      BY <1>0, <2>3
    <3>2. b[i - m] = g + (i - m)
      BY <1>1, <3>1, SpanType
    <3>3. QED
      BY <1>3, <2>1, <2>3, <3>1, <3>2
  <2>4. QED
    BY <2>2, <2>3
<1>5. QED
  <2>1. Span(h, t) = a \o b
    BY <1>2, <1>3, <1>4, SeqEqual
  <2>2. QED
    BY <1>0, <1>1, <2>1

LEMMA SpanPrefix ==
    ASSUME NEW h \in Nat, NEW m \in Nat, NEW n \in 1..m
    PROVE  SubSeq(Span(h, m), 1, n) = Span(h, n)
<1>1. n \in Nat /\ Span(h, m) \in Seq(Nat) /\ Len(Span(h, m)) = m
  BY SpanType
<1>2. SubSeq(Span(h, m), 1, n) = [i \in 1..n |-> Span(h, m)[i]]
  BY <1>1
<1>3. QED
  BY <1>1, <1>2, SpanType DEF Span

LEMMA SpanSuffix ==
    ASSUME NEW h \in Nat, NEW m \in Nat, NEW n \in 1..m
    PROVE  SubSeq(Span(h, m), n + 1, m) = Span(h + n, m - n)
<1>1. n \in Nat /\ n <= m /\ Span(h, m) \in Seq(Nat) /\ Len(Span(h, m)) = m
  BY SpanType
<1>2. m - n \in Nat /\ h + n \in Nat
  BY <1>1
<1>3. SubSeq(Span(h, m), n + 1, m) = [i \in 1..(m - n) |-> Span(h, m)[i + n]]
  BY <1>1, <1>2
<1>4. ASSUME NEW i \in 1..(m - n) PROVE Span(h, m)[i + n] = (h + n) + i
  <2>1. i + n \in 1..m /\ (h + n) + i = h + (i + n)
    BY <1>1
  <2>2. QED
    BY <2>1, SpanType
<1>5. QED
  BY <1>3, <1>4 DEF Span

Unread == Span(Gone, accepted - Gone)

(* A publication puts the bytes of the push into the queue.                *)
LEMMA PushIsPut ==
    ASSUME RingInv, NEW p \in users, PushDone(p)
    PROVE  Queue!Next
<1>1. /\ p \in Producers /\ Gone \in Nat /\ accepted \in Nat /\ BufferSize \in Nat
      /\ Gone' = Gone /\ taken' = taken /\ accepted' = accepted + want[p]
  BY View, ConstantsAssumption DEF RingInv, TypeOK, Gone, PushDone, consumer
<1>2. pc[p] = "copied"
  BY DEF PushDone
<1>3. want[p] \in 1..BufferSize /\ accepted + want[p] <= Gone + BufferSize /\ Gone <= accepted
  BY <1>1, <1>2 DEF RingInv, TypeOK, Active, Room, Counters, Writing
<1>4. PICK n \in 1..BufferSize, m \in Nat : n = want[p] /\ m = accepted - Gone
  BY <1>1, <1>3
<1>5. n \in Nat /\ accepted' - Gone' = m + n /\ m + n <= BufferSize /\ Gone + m = accepted
  BY <1>1, <1>3, <1>4
<1>6. Unread = Span(Gone, m) /\ Unread' = Span(Gone, m + n) /\ Len(Unread) = m
  BY <1>1, <1>4, <1>5, SpanType DEF Unread
<1>7. Unread' = Unread \o Span(Gone + m, n)
  BY <1>1, <1>5, <1>6, SpanConcat, ZenonT(30)
<1>8. Queue!Put(n)
  BY <1>1, <1>5, <1>6, <1>7 DEF Queue!Put, Queue!Total, Unread, Span, Gone
<1>9. QED
  BY <1>8 DEF Queue!Next

(* pop() and commit() take its first bytes out.                            *)
LEMMA ConsumeIsTake ==
    ASSUME RingInv, cpc = "read", NEW n \in 1..len, Consume(n)
    PROVE  Queue!Next
<1>1. /\ taken' = taken \o Span(Gone, n) /\ Gone' = Gone + n
      /\ Gone \in Nat /\ n \in Nat /\ Gone + n <= accepted
      /\ accepted' = accepted /\ accepted \in Nat
  BY Consumed, View DEF RingInv, Span, Consume
<1>2. PICK m \in Nat : m = accepted - Gone
  BY <1>1
<1>3. n \in 1..m /\ accepted' - Gone' = m - n
  BY <1>1, <1>2
<1>4. Unread = Span(Gone, m) /\ Unread' = Span(Gone + n, m - n) /\ Len(Unread) = m
  BY <1>1, <1>2, <1>3, SpanType DEF Unread
<1>5. taken' = taken \o SubSeq(Unread, 1, n)
  BY <1>1, <1>3, <1>4, SpanPrefix
<1>6. Unread' = SubSeq(Unread, n + 1, Len(Unread))
  BY <1>1, <1>3, <1>4, SpanSuffix
<1>7. Queue!Take(n)
  BY <1>5, <1>6 DEF Queue!Take, Unread, Span, Gone
<1>8. n \in 1..Len(Unread)
  BY <1>3, <1>4
<1>9. QED
  BY <1>7, <1>8 DEF Queue!Next, Unread, Span, Gone

LEMMA StepRefines ==
    ASSUME RingInv, [Next]_vars
    PROVE  [Queue!Next]_(Queue!vars)
<1>1. ASSUME taken' = taken, accepted' = accepted PROVE UNCHANGED Queue!vars
  BY <1>1 DEF Queue!vars
<1>2. ASSUME NEW p \in users, Produce(p) PROVE [Queue!Next]_(Queue!vars)
  <2>1. CASE PushDone(p)
    BY <2>1, PushIsPut
  <2>2. CASE ~PushDone(p)
    <3>1. taken' = taken /\ accepted' = accepted
      BY <1>2, <2>2 DEF Produce, Call, PushCheck, PushCopy, WaitCheck, WaitSleep, Spurious, consumer
    <3>2. QED
      BY <3>1, <1>1
  <2>3. QED
    BY <2>1, <2>2
<1>3. CASE ReadBegin \/ ReadHandle \/ Notify \/ UNCHANGED vars
  BY <1>1, <1>3 DEF ReadBegin, ReadHandle, Notify, vars, consumer
<1>4. CASE Pop
  <2>1. len \in 1..len
    BY <1>4 DEF Pop, RingInv, Reader, TypeOK
  <2>2. QED
    BY <2>1, <1>4, ConsumeIsTake DEF Pop
<1>5. CASE \E n \in 1..len : Commit(n)
  BY <1>5, ConsumeIsTake DEF Commit
<1>6. QED
  BY <1>2, <1>3, <1>4, <1>5 DEF Next

(* The ring implements a bounded queue of bytes: a push appends all its    *)
(* bytes at once, when tail moves, and the reader takes a prefix out when  *)
(* head moves.  No byte is lost, repeated or overtaken.                    *)
THEOREM RingRefinesQueue == Spec => ImplementsByteQueue
<1>1. Init => RingInv /\ Queue!Init
  <2>1. ASSUME Init PROVE Queue!Init
    BY <2>1 DEF Init, Queue!Init
  <2>2. QED
    BY <2>1, InitInv
<1>2. RingInv /\ [Next]_vars => RingInv' /\ [Queue!Next]_(Queue!vars)
  BY NextStep, StepRefines
<1>3. QED
  BY <1>1, <1>2, PTL DEF Spec, ImplementsByteQueue, Queue!Spec

----------------------------------------------------------------------------
(***************************************************************************)
(* The timers.  For any set of timers and any interleaving of the worker   *)
(* with the application: what stop_timer() guarantees, and that a looping  *)
(* timer that is alive is never lost.                                      *)
(***************************************************************************)
(* The strengthening for StopStops: a stopped timer is dead, so a call of  *)
(* its handler needs a handle_timeout() that looked at alive before.       *)
Dead(t) ==
    /\ t \in stopped \/ (op = "stop" /\ target = t) => ~alive[t]
    /\ ~otherThread /\ t \in stopped => ~(node = t /\ at = "checked")
    /\ late[t] # 0 => /\ late[t] = 1 /\ otherThread /\ t \in stopped
                      /\ ~(node = t /\ at = "checked")

Uninterrupted == ~otherThread /\ op # "none" => at \in {"idle", "calling"}

StopInv ==
    /\ TimerTypeOK
    /\ Uninterrupted
    /\ \A t \in Timers : Dead(t)

LEMMA TimerTypeInit == TimerInit => TimerTypeOK
  BY TimerAssumption DEF TimerInit, TimerTypeOK

LEMMA TimerTypeStep == TimerTypeOK /\ [TimerNext]_timerVars => TimerTypeOK'
<1> SUFFICES ASSUME TimerTypeOK, [TimerNext]_timerVars PROVE TimerTypeOK'
  OBVIOUS
<1> USE TimerAssumption DEF TimerTypeOK, Set, cancel, async_wait
<1>1. ASSUME NEW t \in Timers, Expire(t) PROVE TimerTypeOK'
  BY <1>1 DEF Expire, nodes, worker, app
<1>2. ASSUME NEW t \in Timers, Timeout(t) PROVE TimerTypeOK'
  BY <1>2 DEF Timeout, app, worker
<1>3. CASE Skip
  BY <1>3 DEF Skip, After, app
<1>4. CASE CallHandler
  BY <1>4 DEF CallHandler, nodes, app
<1>5. CASE Return
  BY <1>5 DEF Return, After, nodes, app
<1>6. CASE ReturnFalse
  BY <1>6 DEF ReturnFalse, app
<1>7. CASE Arm
  BY <1>7 DEF Arm, nodes, app
<1>8. ASSUME NEW t \in Timers, start_timer(t) PROVE TimerTypeOK'
  BY <1>8 DEF start_timer, worker, app
<1>9. ASSUME NEW t \in Timers, stop_timer(t) PROVE TimerTypeOK'
  BY <1>9 DEF stop_timer, worker
<1>10. ASSUME NEW t \in Timers, restart_timer(t) PROVE TimerTypeOK'
  BY <1>10 DEF restart_timer, worker
<1>11. ASSUME NEW t \in Timers, reset_interval(t) PROVE TimerTypeOK'
  BY <1>11 DEF reset_interval, nodes, worker
<1>12. CASE StopCancel
  BY <1>12 DEF StopCancel, nodes, worker
<1>13. CASE ResetArm
  BY <1>13 DEF ResetArm, nodes, worker
<1>14. CASE clear
  BY <1>14 DEF clear, worker
<1>15. CASE UNCHANGED timerVars
  BY <1>15 DEF timerVars, nodes, worker, app
<1>16. QED
  BY <1>1, <1>2, <1>3, <1>4, <1>5, <1>6, <1>7, <1>8, <1>9, <1>10, <1>11, <1>12, <1>13,
     <1>14, <1>15 DEF TimerNext, Worker, App

(* Every variable of the timers keeps its type.                            *)
THEOREM TimerTypeCorrect == TimerSpec => []TimerTypeOK
<1>1. QED
  BY TimerTypeInit, TimerTypeStep, PTL DEF TimerSpec

LEMMA StopStep == StopInv /\ [TimerNext]_timerVars => StopInv'
<1> DEFINE Goal == Uninterrupted' /\ \A u \in Timers : Dead(u)'
<1> SUFFICES ASSUME StopInv, [TimerNext]_timerVars PROVE Goal
  BY TimerTypeStep DEF StopInv
<1> USE TimerAssumption DEF StopInv, Uninterrupted, TimerTypeOK, Dead, Set, WorkerRuns, AppRuns
<1>1. ASSUME NEW t \in Timers, Expire(t) PROVE Goal
  BY <1>1 DEF Expire, nodes, worker, app
<1>2. ASSUME NEW t \in Timers, Timeout(t) PROVE Goal
  BY <1>2 DEF Timeout, app, worker
<1>3. CASE Skip
  BY <1>3 DEF Skip, After, app
<1>4. CASE CallHandler
  BY <1>4 DEF CallHandler, nodes, app
<1>5. CASE Return
  BY <1>5 DEF Return, After, nodes, app
<1>6. CASE ReturnFalse
  BY <1>6 DEF ReturnFalse, app
<1>7. CASE Arm
  BY <1>7 DEF Arm, nodes, app
<1>8. ASSUME NEW t \in Timers, start_timer(t) PROVE Goal
  BY <1>8 DEF start_timer, worker, app, Unused
<1>9. ASSUME NEW t \in Timers, stop_timer(t) PROVE Goal
  BY <1>9 DEF stop_timer, worker
<1>10. ASSUME NEW t \in Timers, restart_timer(t) PROVE Goal
  BY <1>10 DEF restart_timer, worker
<1>11. ASSUME NEW t \in Timers, reset_interval(t) PROVE Goal
  BY <1>11 DEF reset_interval, nodes, worker
<1>12. CASE StopCancel
  BY <1>12 DEF StopCancel, nodes, worker
<1>13. CASE ResetArm
  BY <1>13 DEF ResetArm, nodes, worker
<1>14. CASE clear
  BY <1>14 DEF clear, worker
<1>15. CASE UNCHANGED timerVars
  BY <1>15 DEF timerVars, nodes, worker, app
<1>16. QED
  BY <1>1, <1>2, <1>3, <1>4, <1>5, <1>6, <1>7, <1>8, <1>9, <1>10, <1>11, <1>12, <1>13,
     <1>14, <1>15 DEF TimerNext, Worker, App

LEMMA StopInvariant == TimerSpec => []StopInv
<1>1. TimerInit => StopInv
  BY TimerTypeInit DEF TimerInit, StopInv, Uninterrupted, Dead
<1>2. QED
  BY <1>1, StopStep, PTL DEF TimerSpec

(* A handler is not called after stop_timer() or clear() has returned,     *)
(* except once by a handle_timeout() on another thread.                    *)
THEOREM StopStopsAlways == TimerSpec => []StopStops
<1>1. StopInv => StopStops
  BY DEF StopInv, TimerTypeOK, Dead, StopStops
<1>2. QED
  BY <1>1, StopInvariant, PTL

LEMMA ArmedStep == StopInv /\ AliveIsArmed /\ [TimerNext]_timerVars => AliveIsArmed'
<1> SUFFICES ASSUME StopInv, AliveIsArmed, [TimerNext]_timerVars,
                    NEW u \in Timers, alive'[u], loop'[u]
             PROVE  \/ waits'[u] > 0 \/ due'[u] > 0
                    \/ node' = u
                    \/ op' = "reset" /\ target' = u
  BY DEF AliveIsArmed
<1> DEFINE Goal == \/ waits'[u] > 0 \/ due'[u] > 0
                   \/ node' = u
                   \/ op' = "reset" /\ target' = u
<1> USE TimerAssumption DEF AliveIsArmed, StopInv, Dead, TimerTypeOK, Set, cancel, async_wait
<1>1. ASSUME NEW t \in Timers, Expire(t) PROVE Goal
  BY <1>1 DEF Expire, nodes, worker, app
<1>2. ASSUME NEW t \in Timers, Timeout(t) PROVE Goal
  BY <1>2 DEF Timeout, app, worker
<1>3. CASE Skip
  BY <1>3 DEF Skip, After, app
<1>4. CASE CallHandler
  BY <1>4 DEF CallHandler, nodes, app
<1>5. CASE Return
  BY <1>5 DEF Return, After, nodes, app
<1>6. CASE ReturnFalse
  BY <1>6 DEF ReturnFalse, app
<1>7. CASE Arm
  BY <1>7 DEF Arm, nodes, app
<1>8. ASSUME NEW t \in Timers, start_timer(t) PROVE Goal
  BY <1>8 DEF start_timer, worker, app, Unused
<1>9. ASSUME NEW t \in Timers, stop_timer(t) PROVE Goal
  BY <1>9 DEF stop_timer, worker
<1>10. ASSUME NEW t \in Timers, restart_timer(t) PROVE Goal
  BY <1>10 DEF restart_timer, worker
<1>11. ASSUME NEW t \in Timers, reset_interval(t) PROVE Goal
  BY <1>11 DEF reset_interval, nodes, worker
<1>12. CASE StopCancel
  BY <1>12 DEF StopCancel, nodes, worker
<1>13. CASE ResetArm
  BY <1>13 DEF ResetArm, nodes, worker
<1>14. CASE clear
  BY <1>14 DEF clear, worker
<1>15. CASE UNCHANGED timerVars
  BY <1>15 DEF timerVars, nodes, worker, app
<1>16. QED
  BY <1>1, <1>2, <1>3, <1>4, <1>5, <1>6, <1>7, <1>8, <1>9, <1>10, <1>11, <1>12, <1>13,
     <1>14, <1>15 DEF TimerNext, Worker, App

(* No interleaving of calls with handle_timeout() loses a looping timer    *)
(* that is alive.                                                          *)
THEOREM AliveIsArmedAlways == TimerSpec => []AliveIsArmed
<1>1. TimerInit => AliveIsArmed
  BY DEF TimerInit, AliveIsArmed
<1>2. QED
  BY <1>1, ArmedStep, StopInvariant, PTL DEF TimerSpec
=============================================================================
