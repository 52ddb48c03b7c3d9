------------------------------ MODULE OneShot ------------------------------
(***************************************************************************)
(* What a contract of Futures promises: the result that the Promise sends  *)
(* is taken by the owner of the Future, or by its callback, once.          *)
(***************************************************************************)
CONSTANTS Contracts, Results, None

VARIABLES sent,   \* the result that was set, if any
          taken   \* the result that was taken, if any

Init == /\ sent = [c \in Contracts |-> None]
        /\ taken = [c \in Contracts |-> None]

Send(c) == /\ sent[c] = None
           /\ \E r \in Results : sent' = [sent EXCEPT ![c] = r]
           /\ UNCHANGED taken

Take(c) == /\ sent[c] # None
           /\ taken[c] = None
           /\ taken' = [taken EXCEPT ![c] = sent[c]]
           /\ UNCHANGED sent

Next == \E c \in Contracts : Send(c) \/ Take(c)

Spec == Init /\ [][Next]_<<sent, taken>>
=============================================================================
