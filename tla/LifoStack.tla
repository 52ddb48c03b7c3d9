----------------------------- MODULE LifoStack -----------------------------
(***************************************************************************)
(* What LockFree::Stack promises: a stack whose operations take effect at  *)
(* one instant each.                                                       *)
(***************************************************************************)
EXTENDS Sequences

CONSTANTS Threads, Items

VARIABLES items,   \* what is in the stack, newest first
          got      \* what each thread has taken out, in order

vars == <<items, got>>

Init == items = << >> /\ got = [t \in Threads |-> << >>]

Push == /\ \E x \in Items : items' = << x >> \o items
        /\ UNCHANGED got

Pop(t) == /\ items # << >>
          /\ got' = [got EXCEPT ![t] = Append(@, Head(items))]
          /\ items' = Tail(items)

Next == Push \/ \E t \in Threads : Pop(t)
=============================================================================
