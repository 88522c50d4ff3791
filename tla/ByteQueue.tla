----------------------------- MODULE ByteQueue -----------------------------
(***************************************************************************)
(* What a LoopBuffer promises: a queue of at most Capacity bytes.  A push  *)
(* puts its bytes in all together, the reader takes them out in order.     *)
(***************************************************************************)
EXTENDS Naturals, Sequences

CONSTANT Capacity

VARIABLES queue,   \* bytes pushed and not yet taken
          taken    \* bytes taken so far; byte number i is the i-th pushed

vars == <<queue, taken>>

Init == queue = <<>> /\ taken = <<>>

Total == Len(taken) + Len(queue)

Put(n) == /\ Len(queue) + n <= Capacity
          /\ queue' = queue \o [i \in 1..n |-> Total + i]
          /\ UNCHANGED taken

Take(n) == /\ taken' = taken \o SubSeq(queue, 1, n)
           /\ queue' = SubSeq(queue, n + 1, Len(queue))

Next == \/ \E n \in 1..Capacity : Put(n)
        \/ \E n \in 1..Len(queue) : Take(n)

Spec == Init /\ [][Next]_vars
=============================================================================
