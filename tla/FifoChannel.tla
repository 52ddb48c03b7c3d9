---------------------------- MODULE FifoChannel ----------------------------
(***************************************************************************)
(* What channels promise: a value that is sent is received once, by one    *)
(* receiver, and the values of a channel in the order in which they were   *)
(* sent.  Every value is sent at most once.                                *)
(***************************************************************************)
EXTENDS Sequences, Functions

CONSTANTS Channels, Receivers, Values

VARIABLES queue,   \* what has been sent through each channel and not received
          got      \* what each receiver has received, in order

Fresh == {v \in Values : /\ \A c \in Channels : v \notin Range(queue[c])
                         /\ \A r \in Receivers : v \notin Range(got[r])}

Init == /\ queue = [c \in Channels |-> << >>]
        /\ got = [r \in Receivers |-> << >>]

Send(c) == /\ \E v \in Fresh : queue' = [queue EXCEPT ![c] = Append(@, v)]
           /\ UNCHANGED got

Receive(c, r) == /\ queue[c] # << >>
                 /\ got' = [got EXCEPT ![r] = Append(@, Head(queue[c]))]
                 /\ queue' = [queue EXCEPT ![c] = Tail(@)]

\* A sender meets a receiver that waits.
Pass(c, r) == /\ queue[c] = << >>
              /\ \E v \in Fresh : got' = [got EXCEPT ![r] = Append(@, v)]
              /\ UNCHANGED queue

Next == \E c \in Channels : Send(c) \/ \E r \in Receivers : Receive(c, r) \/ Pass(c, r)

Spec == Init /\ [][Next]_<<queue, got>>
=============================================================================
