--------------------------- MODULE SerialExecutor ---------------------------
(***************************************************************************)
(* What Executors::Strand promises: the routines given to it run one at a  *)
(* time, each once, in the order in which they were given.                 *)
(***************************************************************************)
EXTENDS Sequences

CONSTANT Routines

VARIABLES queue,     \* submitted routines that have not started, oldest first
          running,   \* the routine that runs now, if any
          done       \* the routines that have returned

Init == queue = << >> /\ running = {} /\ done = {}

Submit(r) == /\ queue' = Append(queue, r)
             /\ UNCHANGED <<running, done>>

Start == /\ queue # << >>
         /\ running = {}
         /\ running' = {Head(queue)}
         /\ queue' = Tail(queue)
         /\ UNCHANGED done

Finish(r) == /\ running = {r}
             /\ running' = {}
             /\ done' = done \cup {r}
             /\ UNCHANGED queue

Next == Start \/ \E r \in Routines : Submit(r) \/ Finish(r)

Spec == Init /\ [][Next]_<<queue, running, done>>
=============================================================================
