------------------------------- MODULE Strand -------------------------------
(***************************************************************************)
(* Executors::Strand (executors/strand.hpp): an asynchronous mutex.  The   *)
(* routines wait in a lock-free stack; whoever pushes onto the empty stack *)
(* takes all of it as a batch, marks the stack kClosed and hands the batch *)
(* to another executor.  The batch, when it has run, opens the stack or    *)
(* takes what has gathered there.                                          *)
(*                                                                         *)
(* A node in the stack keeps the next it was pushed with, so the stack is  *)
(* a sequence, top first, over its base (nullptr or kClosed).  A step is   *)
(* one access to shared memory.                                            *)
(***************************************************************************)
EXTENDS Naturals, Sequences, FiniteSets, SequencesExt

CONSTANTS Clients,   \* threads that call Execute
          Workers,   \* threads of the underlying executor
          Routines,
          Script,    \* the routines each client submits, in order
          Spawns,    \* the routines each routine submits to the strand it is in
          Null, Closed

Actors == Clients \cup Workers

ASSUME StrandAssumption ==
    /\ Clients \cap Workers = {}
    /\ Script \in [Clients -> Seq(Routines)]
    /\ Spawns \in [Routines -> Seq(Routines)]
    /\ Null \notin Routines /\ Closed \notin Routines /\ Null # Closed

VARIABLES stack,     \* stack_head_ and the nodes behind it
          base,      \* what is below them: Null or Closed
          batch_,    \* batch_.stack_: the routines of the batch left to run
          handed,    \* how often &batch_ waits in the underlying executor
          pc,
          todo,      \* the routines each actor has still to submit
          result,    \* locals: result of PushInStack, head of Lock
          queue,     \*   queue of Lock
          current,   \*   routine of TasksBatch::Run
          done       \* history: the routines that have returned

vars == <<stack, base, batch_, handed, pc, todo, result, queue, current, done>>

Init == /\ stack = << >>
        /\ base = Null
        /\ batch_ = << >>
        /\ handed = 0
        /\ pc = [a \in Actors |-> "idle"]
        /\ todo = [a \in Actors |-> IF a \in Clients THEN Script[a] ELSE << >>]
        /\ result = [a \in Actors |-> Null]
        /\ queue = [a \in Actors |-> << >>]
        /\ current = [w \in Workers |-> Null]
        /\ done = {}

Goto(a, from, to) == pc[a] = from /\ pc' = [pc EXCEPT ![a] = to]
stack_head_ == IF stack = << >> THEN base ELSE Head(stack)

\* A caller of Execute goes on with its own business: a routine that runs, or
\* the client's script.
Caller(a) == IF a \in Workers THEN "running" ELSE "idle"

------------------------------------------------------------------------------
\* Execute: PushInStack loads stack_head_ into routine->next.
Execute(a) ==
    /\ Goto(a, Caller(a), "push")
    /\ todo[a] # << >>
    /\ result' = [result EXCEPT ![a] = stack_head_]
    /\ UNCHANGED <<stack, base, batch_, handed, todo, queue, current, done>>

\* Variant: a stack that is empty but closed is taken for a free strand.
Push_LocksClosed(a) ==
    /\ Goto(a, "push", IF result[a] \in {Null, Closed} THEN "lock" ELSE Caller(a))
    /\ stack_head_ = result[a]
    /\ stack' = << Head(todo[a]) >> \o stack
    /\ todo' = [todo EXCEPT ![a] = Tail(@)]
    /\ UNCHANGED <<base, batch_, handed, result, queue, current, done>>

\* Its compare_exchange_strong; the push onto nullptr has to Lock().
Push(a) ==
    /\ Goto(a, "push", IF result[a] = Null THEN "lock" ELSE Caller(a))
    /\ stack_head_ = result[a]
    /\ stack' = << Head(todo[a]) >> \o stack
    /\ todo' = [todo EXCEPT ![a] = Tail(@)]
    /\ UNCHANGED <<base, batch_, handed, result, queue, current, done>>

PushFails(a) ==
    /\ pc[a] = "push"
    /\ stack_head_ # result[a]
    /\ result' = [result EXCEPT ![a] = stack_head_]
    /\ UNCHANGED <<stack, base, batch_, handed, pc, todo, queue, current, done>>

------------------------------------------------------------------------------
\* Lock: the load of stack_head_.
LockLoad(a) ==
    /\ Goto(a, "lock", "close")
    /\ result' = [result EXCEPT ![a] = stack_head_]
    /\ UNCHANGED <<stack, base, batch_, handed, todo, queue, current, done>>

\* Variant: the stack is run as it is.
Close_NoReverse(a) ==
    /\ Goto(a, "close", "hand")
    /\ stack_head_ = result[a]
    /\ queue' = [queue EXCEPT ![a] = stack]
    /\ stack' = << >>
    /\ base' = Closed
    /\ UNCHANGED <<batch_, handed, todo, result, current, done>>

\* The CAS to kClosed; MakeQueue then reverses what was in the stack.
Close(a) ==
    /\ Goto(a, "close", "hand")
    /\ stack_head_ = result[a]
    /\ queue' = [queue EXCEPT ![a] = Reverse(stack)]
    /\ stack' = << >>
    /\ base' = Closed
    /\ UNCHANGED <<batch_, handed, todo, result, current, done>>

CloseFails(a) ==
    /\ pc[a] = "close"
    /\ stack_head_ # result[a]
    /\ result' = [result EXCEPT ![a] = stack_head_]
    /\ UNCHANGED <<stack, base, batch_, handed, pc, todo, queue, current, done>>

\* batch_ is assigned and given to the underlying executor.  Lock was called
\* by Execute, or at the end of a batch.
Hand(a) ==
    /\ Goto(a, "hand", IF a \in Workers /\ current[a] = Null
                       THEN "idle" ELSE Caller(a))
    /\ batch_' = queue[a]
    /\ queue' = [queue EXCEPT ![a] = << >>]
    /\ handed' = handed + 1
    /\ UNCHANGED <<stack, base, todo, result, current, done>>

------------------------------------------------------------------------------
\* Variant: the underlying executor runs a batch it was not handed.
Take_Twice(w) ==
    /\ Goto(w, "idle", "batch")
    /\ handed' = handed - 1
    /\ UNCHANGED <<stack, base, batch_, todo, result, queue, current, done>>

\* The underlying executor runs the batch.
Take(w) ==
    /\ Goto(w, "idle", "batch")
    /\ handed > 0
    /\ handed' = handed - 1
    /\ UNCHANGED <<stack, base, batch_, todo, result, queue, current, done>>

\* TasksBatch::Run pops the next routine and runs it.
RunNext(w) ==
    /\ Goto(w, "batch", "running")
    /\ batch_ # << >>
    /\ current' = [current EXCEPT ![w] = Head(batch_)]
    /\ todo' = [todo EXCEPT ![w] = Spawns[Head(batch_)]]
    /\ batch_' = Tail(batch_)
    /\ UNCHANGED <<stack, base, handed, result, queue, done>>

\* The routine returns (and is discarded).
Finish(w) ==
    /\ Goto(w, "running", "batch")
    /\ todo[w] = << >>
    /\ done' = done \cup {current[w]}
    /\ current' = [current EXCEPT ![w] = Null]
    /\ UNCHANGED <<stack, base, batch_, handed, todo, result, queue>>

BatchEnds(w) ==
    /\ Goto(w, "batch", "unlock")
    /\ batch_ = << >>
    /\ UNCHANGED <<stack, base, batch_, handed, todo, result, queue, current, done>>

\* Variant: a store of nullptr instead of the compare_exchange.
Open_Store(w) ==
    /\ Goto(w, "unlock", "idle")
    /\ base' = Null
    /\ stack' = << >>
    /\ UNCHANGED <<batch_, handed, todo, result, queue, current, done>>

\* Unlock: the CAS from kClosed to nullptr, or Lock() again.
Open(w) ==
    /\ Goto(w, "unlock", "idle")
    /\ stack_head_ = Closed
    /\ base' = Null
    /\ UNCHANGED <<stack, batch_, handed, todo, result, queue, current, done>>

OpenFails(w) ==
    /\ Goto(w, "unlock", "lock")
    /\ stack_head_ # Closed
    /\ UNCHANGED <<stack, base, batch_, handed, todo, result, queue, current, done>>

Submitting(a) == \/ Execute(a) \/ Push(a) \/ PushFails(a)
                 \/ LockLoad(a) \/ Close(a) \/ CloseFails(a) \/ Hand(a)
Running(w) == \/ Take(w) \/ RunNext(w) \/ Finish(w) \/ BatchEnds(w)
              \/ Open(w) \/ OpenFails(w)

Next == \/ \E a \in Actors : Submitting(a)
        \/ \E w \in Workers : Running(w)

Spec == Init /\ [][Next]_vars

\* Threads keep running and the underlying executor runs what it is handed.
FairSpec == /\ Spec
            /\ \A c \in Clients : WF_vars(Submitting(c))
            /\ \A w \in Workers : WF_vars(Submitting(w) \/ Running(w))

------------------------------------------------------------------------------
TypeOK == /\ stack \in Seq(Routines)
          /\ base \in {Null, Closed}
          /\ batch_ \in Seq(Routines)
          /\ handed \in Nat
          /\ pc \in [Actors -> {"idle", "push", "lock", "close", "hand",
                                "batch", "running", "unlock"}]
          /\ todo \in [Actors -> Seq(Routines)]
          /\ result \in [Actors -> Routines \cup {Null, Closed}]
          /\ queue \in [Actors -> Seq(Routines)]
          /\ current \in [Workers -> Routines \cup {Null}]
          /\ done \subseteq Routines

\* The actors that own the strand: they are in Lock, or run the batch.
Locking == {a \in Actors : pc[a] \in {"lock", "close", "hand"}}
InBatch == {w \in Workers : pc[w] \in {"batch", "unlock"} \/ current[w] # Null}

\* There is one right to the strand, and somebody has it exactly while
\* stack_head_ is not nullptr: one caller in Lock, or the batch in the
\* underlying executor (&batch_ is never given to it twice), or one worker
\* that runs the batch.  A routine of the batch may itself call Execute.
OneOwner ==
    Cardinality(Locking \cup InBatch) + handed
        = IF stack_head_ = Null THEN 0 ELSE 1

\* The routines run one at a time and in the order of their pushes.
Locked == IF \E a \in Actors : queue[a] # << >>
          THEN queue[CHOOSE a \in Actors : queue[a] # << >>] ELSE << >>
Serial == INSTANCE SerialExecutor
              WITH queue <- batch_ \o Locked \o Reverse(stack),
                   running <- {current[w] : w \in Workers} \ {Null}
ImplementsSerialExecutor == Serial!Spec

\* Every routine that a client or a running routine submits does run.
Submitted(r) == \E a \in Actors : todo[a] # << >> /\ Head(todo[a]) = r
EveryRoutineRuns == \A r \in Routines : Submitted(r) ~> r \in done
=============================================================================
