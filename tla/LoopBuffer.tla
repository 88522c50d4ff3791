----------------------------- MODULE LoopBuffer -----------------------------
(***************************************************************************)
(* The ring of include/utils/loop_buffer.hpp: producers that push() and    *)
(* wait() for space, and one consumer that calls read() and commit(), or   *)
(* pop().  head and tail are counters of Word values (uint32_t in the      *)
(* code), so they wrap, and are reduced to a position of the ring by       *)
(* & (BufferSize - 1).  Bytes are numbered in the order of their pushes.   *)
(* The mutex is a template parameter: with NonMutex, which does nothing,   *)
(* a LoopBuffer has one producer and wait() just sleeps before a push.     *)
(***************************************************************************)
EXTENDS Integers, Sequences, FiniteSets

CONSTANTS Producers,
          Free,        \* value of write_mutex when nobody holds it
          BufferSize,
          Word,        \* number of values of head and tail
          MaxPush,     \* bound: longest push
          MaxBytes     \* bound: bytes pushed

ASSUME ConstantsAssumption ==
    /\ IsFiniteSet(Producers) /\ Free \notin Producers
    /\ BufferSize \in Nat \ {0}
    /\ Word \in Nat /\ Word > BufferSize /\ Word % BufferSize = 0
    /\ MaxPush \in Nat /\ MaxBytes \in Nat

VARIABLES
    mutex,        \* the template parameter is a mutex, not NonMutex
    users,        \* the producers that use this LoopBuffer
    head, tail,   \* the counters
    buffer,       \* the bytes of the ring, 0 where none was written yet
    write_mutex,  \* its holder
    pc,           \* where each producer is
    want,         \* the length it pushes or waits for
    cpc,          \* where the consumer is
    len,          \* the length read() gave it
    seen,         \* the bytes its handler saw
    accepted,     \* bytes pushed so far
    taken         \* bytes consumed so far

ring     == <<head, tail, buffer>>
consumer == <<cpc, len, seen, taken>>
config   == <<mutex, users>>
vars     == <<config, ring, write_mutex, pc, want, accepted, consumer>>

Cells == 0..(BufferSize - 1)

Init == /\ mutex \in BOOLEAN
        /\ users \in SUBSET Producers
        /\ ~mutex => Cardinality(users) <= 1
        /\ head = 0 /\ tail = 0
        /\ buffer = [c \in Cells |-> 0]
        /\ write_mutex = Free
        /\ pc = [p \in Producers |-> "idle"]
        /\ want = [p \in Producers |-> 0]
        /\ cpc = "idle" /\ len = 0 /\ seen = <<>>
        /\ accepted = 0 /\ taken = <<>>

size == (tail - head) % Word
Space == BufferSize - size

Lockable  == mutex => write_mutex = Free
Lock(p)   == write_mutex' = IF mutex THEN p ELSE write_mutex
Unlock(p) == write_mutex' = IF write_mutex = p THEN Free ELSE write_mutex
Goto(p, to) == pc' = [pc EXCEPT ![p] = to]

----------------------------------------------------------------------------
(* push(), in three steps: the check, the copy and the publication.        *)

Call(p, n, at) ==
    /\ pc[p] = "idle" /\ accepted + n <= MaxBytes
    /\ want' = [want EXCEPT ![p] = n]
    /\ Goto(p, at)
    /\ UNCHANGED <<config, ring, write_mutex, accepted, consumer>>

HasRoom(n) == Space >= n

PushCheck(p) ==
    /\ pc[p] \in {"push", "waited"} /\ Lockable
    /\ IF HasRoom(want[p]) THEN Goto(p, "checked") /\ Lock(p)
                           ELSE Goto(p, "idle") /\ UNCHANGED write_mutex
    /\ UNCHANGED <<config, ring, want, accepted, consumer>>

(* Mutant: a push that does not fit before the end is not continued at     *)
(* the beginning of the ring.                                              *)
CopiedMutant(n, c) ==
    LET writePos == tail % BufferSize IN
    IF writePos <= c /\ c < writePos + n THEN accepted + (c - writePos) + 1 ELSE buffer[c]

(* Cell c of the ring after n bytes were copied to it: up to the end of    *)
(* the ring, and the rest from its beginning.                              *)
Copied(n, c) ==
    LET writePos == tail % BufferSize
        tailSize == BufferSize - writePos
    IN IF writePos <= c /\ c < writePos + n THEN accepted + (c - writePos) + 1
       ELSE IF c < n - tailSize THEN accepted + tailSize + c + 1
       ELSE buffer[c]

PushCopy(p) ==
    /\ pc[p] = "checked"
    /\ buffer' = [c \in Cells |-> Copied(want[p], c)]
    /\ Goto(p, "copied")
    /\ UNCHANGED <<config, head, tail, write_mutex, want, accepted, consumer>>

PushDone(p) ==
    /\ pc[p] = "copied"
    /\ tail' = (tail + want[p]) % Word
    /\ accepted' = accepted + want[p]
    /\ Unlock(p)
    /\ Goto(p, "idle")
    /\ UNCHANGED <<config, head, buffer, want, consumer>>

----------------------------------------------------------------------------
(* wait() of a LoopBuffer with a mutex: the predicate is evaluated under   *)
(* it, and falling asleep gives it back.                                   *)

(* Mutant: the predicate is not evaluated again after a wakeup.            *)
WaitCheckMutant(p) ==
    /\ pc[p] \in {"wait", "woken"} /\ Lockable
    /\ IF pc[p] = "woken" \/ HasRoom(want[p])
       THEN Goto(p, "waited") /\ Unlock(p) ELSE Goto(p, "dozing") /\ Lock(p)
    /\ UNCHANGED <<config, ring, want, accepted, consumer>>

WaitCheck(p) ==
    /\ pc[p] \in {"wait", "woken"} /\ Lockable
    /\ IF HasRoom(want[p]) THEN Goto(p, "waited") /\ Unlock(p)
                           ELSE Goto(p, "dozing") /\ Lock(p)
    /\ UNCHANGED <<config, ring, want, accepted, consumer>>

WaitSleep(p) ==
    /\ pc[p] = "dozing"
    /\ Goto(p, "asleep")
    /\ Unlock(p)
    /\ UNCHANGED <<config, ring, want, accepted, consumer>>

(* A wakeup that nobody caused, and the end of a wait_for(): the caller is *)
(* not told that it timed out and pushes.                                  *)
Spurious(p) ==
    /\ pc[p] = "asleep"
    /\ \/ Goto(p, "woken")
       \/ Goto(p, "push")
    /\ UNCHANGED <<config, ring, write_mutex, want, accepted, consumer>>

----------------------------------------------------------------------------
(* The consumer.                                                           *)

readPos == head % BufferSize
Least(a, b) == IF a <= b THEN a ELSE b

Readable == Least(size, BufferSize - readPos)

ReadBegin ==
    /\ cpc = "idle" /\ size # 0
    /\ len' = Readable
    /\ cpc' = "reading"
    /\ UNCHANGED <<config, ring, write_mutex, pc, want, accepted, seen, taken>>

(* The handler gets the bytes &buffer[readPos] .. + len.                   *)
ReadHandle ==
    /\ cpc = "reading"
    /\ seen' = [k \in 1..len |-> IF readPos + k - 1 \in Cells
                                 THEN buffer[readPos + k - 1] ELSE 0]
    /\ cpc' = "read"
    /\ UNCHANGED <<config, ring, write_mutex, pc, want, accepted, len, taken>>

Consume(n) ==
    /\ head' = (head + n) % Word
    /\ taken' = taken \o SubSeq(seen, 1, n)
    /\ UNCHANGED <<config, tail, buffer, write_mutex, pc, want, accepted, len, seen>>

(* pop() moves head by all it read, without a notification; commit() by    *)
(* what its caller says, and then notifies.                                *)
Pop == cpc = "read" /\ cpc' = "idle" /\ Consume(len)

Commit(n) == cpc = "read" /\ cpc' = "notify" /\ Consume(n)

Notify ==
    /\ cpc = "notify" /\ cpc' = "idle"
    /\ \/ \E p \in Producers : pc[p] = "asleep" /\ Goto(p, "woken")
       \/ (\A p \in Producers : pc[p] # "asleep") /\ UNCHANGED pc
    /\ UNCHANGED <<config, ring, write_mutex, want, accepted, len, seen, taken>>

Produce(p) ==
    \/ \E n \in 1..MaxPush : Call(p, n, "push")
    \/ mutex /\ \E n \in 1..MaxPush : Call(p, n, "wait")
    \/ PushCheck(p) \/ PushCopy(p) \/ PushDone(p)
    \/ WaitCheck(p) \/ WaitSleep(p) \/ Spurious(p)

Next == \/ \E p \in users : Produce(p)
        \/ ReadBegin \/ ReadHandle \/ Pop \/ Notify
        \/ \E n \in 1..len : Commit(n)

Spec == Init /\ [][Next]_vars

----------------------------------------------------------------------------
(* Properties.                                                             *)

TypeOK ==
    /\ mutex \in BOOLEAN /\ users \subseteq Producers
    /\ head \in 0..(Word - 1) /\ tail \in 0..(Word - 1)
    /\ buffer \in [Cells -> Nat]
    /\ write_mutex \in Producers \cup {Free}
    /\ pc \in [Producers -> {"idle", "push", "checked", "copied",
                             "wait", "dozing", "asleep", "woken", "waited"}]
    /\ want \in [Producers -> 0..MaxPush]
    /\ cpc \in {"idle", "reading", "read", "notify"}
    /\ len \in 0..BufferSize
    /\ seen \in Seq(Nat) /\ taken \in Seq(Nat)
    /\ accepted \in Nat

(* The bytes pushed and not yet taken are in the ring, where the reader    *)
(* looks for them, also while the next push is copied beside them and      *)
(* after the counters have wrapped.                                        *)
UnreadIntact ==
    /\ size = accepted - Len(taken)
    /\ \A i \in 0..(size - 1) : buffer[(head + i) % BufferSize] = Len(taken) + i + 1

(* With one producer, a wait() that was not cut short has found the space  *)
(* for the push that follows: nobody takes it away in between.             *)
WaitSuffices ==
    Cardinality(users) <= 1 => \A p \in Producers : pc[p] = "waited" => Space >= want[p]

(* The ring at rest and between the steps of its users.                    *)
RingIntact == TypeOK /\ UnreadIntact /\ WaitSuffices

Queue == INSTANCE ByteQueue WITH
           Capacity <- BufferSize,
           queue <- [i \in 1..(accepted - Len(taken)) |-> Len(taken) + i]

(* The ring implements a bounded FIFO queue of bytes.                      *)
ImplementsByteQueue == Queue!Spec
=============================================================================
