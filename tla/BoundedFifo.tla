---------------------------- MODULE BoundedFifo ----------------------------
(***************************************************************************)
(* What the queues of lockfree/ promise: a bounded queue whose operations  *)
(* take effect at one instant each.                                        *)
(***************************************************************************)
EXTENDS Naturals, Sequences

CONSTANTS Threads, Items, Capacity

VARIABLES items,   \* what is in the queue, oldest first
          got      \* what each thread has taken out, in order

vars == <<items, got>>

Init == /\ items = << >>
        /\ got = [t \in Threads |-> << >>]

Push == /\ Len(items) < Capacity
        /\ \E x \in Items : items' = Append(items, x)
        /\ UNCHANGED got

\* A thread takes the n oldest items, and nobody else gets them.
Take(t, n) == /\ got' = [got EXCEPT ![t] = @ \o SubSeq(items, 1, n)]
              /\ items' = SubSeq(items, n + 1, Len(items))

Next == \/ Push
        \/ \E t \in Threads, n \in 1..Capacity : n <= Len(items) /\ Take(t, n)

Spec == Init /\ [][Next]_vars
=============================================================================
