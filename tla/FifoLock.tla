------------------------------ MODULE FifoLock ------------------------------
(***************************************************************************)
(* What Detail::QueueSpinLock promises its callers: a lock that is granted *)
(* in the order in which the callers got in line.                          *)
(***************************************************************************)
EXTENDS Sequences

CONSTANT Threads

VARIABLES queue,   \* the threads in line, the first one has or gets the lock
          inside   \* the threads in the critical section

Init == queue = << >> /\ inside = {}

\* A thread that finds the lock free takes it on the spot.
Take(t) == /\ queue = << >>
           /\ queue' = << t >>
           /\ inside' = {t}

Join(t) == /\ queue # << >>
           /\ queue' = Append(queue, t)
           /\ UNCHANGED inside

Enter(t) == /\ queue # << >>
            /\ Head(queue) = t
            /\ inside = {}
            /\ inside' = {t}
            /\ UNCHANGED queue

Leave(t) == /\ inside = {t}
            /\ queue # << >>
            /\ inside' = {}
            /\ queue' = Tail(queue)

Next == \E t \in Threads : Take(t) \/ Join(t) \/ Enter(t) \/ Leave(t)

Spec == Init /\ [][Next]_<<queue, inside>>
=============================================================================
