------------------------------- MODULE Fibers -------------------------------
(***************************************************************************)
(* Fibers over an executor.  A fiber is one routine, step_, that resumes   *)
(* the fiber's coroutine.  To block, the fiber suspends the coroutine with *)
(* an awaiter; its worker is then back in step_, calls AwaitSuspend, which *)
(* lets others schedule step_ again, and afterwards Discard, which deletes *)
(* the fiber unless need_to_delete_after_discard_ says that it suspended.  *)
(*                                                                         *)
(* Fibers and other threads run programs of calls; a fiber makes its steps *)
(* while a worker runs it.  This module has the steps of the runtime and   *)
(* of the spin locks under which most calls do their work; FiberSync and   *)
(* Channels have the calls, and FiberLibrary puts them together.           *)
(*                                                                         *)
(* A spin lock is the line of its Guards, the first of which is inside, as *)
(* FifoLock describes it; a runner's Guard is named by the runner.  What   *)
(* is done under a spin lock is a step, unless others can see its parts.   *)
(***************************************************************************)
EXTENDS Integers, SequencesExt, FiniteSets

CONSTANTS Fibers,
          Threads,     \* threads of no executor
          Workers,     \* the threads that run routines: one for a Strand
          Locks,       \* the objects with a spin lock, by the names of the objects
          Programs,    \* the calls of each runner, [op |-> ..., at |-> object, ...]
          Null

Runners == Fibers \cup Threads

ASSUME RunnerAssumption == Fibers \cap Threads = {} /\ Null \notin Runners \cup Locks

VARIABLES
    scheduled,    \* how often step_ of each fiber is in the executor
    running,      \* the fiber whose step_ a worker runs
    stage,        \* what it does there
    awaiter_,     \* Fiber::awaiter_, as the call that made it
    need_to_delete_after_discard_,
    completed,    \* Coroutine::is_completed_
    deleted,      \* the Fiber is gone
    line,         \* the Guards of each spin lock
    released_,    \* Guard::released_
    pc, todo      \* where each runner is, and the calls it has to make

coroutines == <<running, stage, awaiter_, need_to_delete_after_discard_, completed, deleted>>
runtime == <<scheduled, coroutines>>
spinlocks == <<line, released_>>
program == <<pc, todo>>

\* The calls that begin with a Guard of the spin lock of their object, and
\* those of them that may suspend the fiber and leave that to its awaiter.
Guarded == {"Lock", "Unlock", "CvQueue", "NotifyOne", "NotifyAll",
            "Send", "TrySend", "Receive", "TryReceive", "SelectorReceive"}
SuspendsGuarded == {"Lock", "CvQueue", "Send", "Receive"}

RuntimeInit ==
    /\ scheduled = [f \in Fibers |-> 0]
    /\ running = [w \in Workers |-> Null]
    /\ stage = [w \in Workers |-> "idle"]
    /\ awaiter_ = [f \in Fibers |-> Null]
    /\ need_to_delete_after_discard_ = [f \in Fibers |-> TRUE]
    /\ completed = [f \in Fibers |-> FALSE]
    /\ deleted = [f \in Fibers |-> FALSE]
    /\ line = [l \in Locks |-> << >>]
    /\ released_ = [a \in Runners |-> FALSE]
    /\ pc = [a \in Runners |-> IF a \in Threads THEN "call" ELSE "new"]
    /\ todo \in Programs

Stage(w, from, to) == stage[w] = from /\ stage' = [stage EXCEPT ![w] = to]

\* The fiber's code runs on some worker.
Running(f) == \E w \in Workers : stage[w] = "run" /\ running[w] = f

Runs(a) == a \in Threads \/ Running(a)
To(a, to) == pc' = [pc EXCEPT ![a] = to]
Goto(a, from, to) == Runs(a) /\ pc[a] = from /\ To(a, to)
Call(a) == IF todo[a] = << >> THEN [op |-> "return"] ELSE Head(todo[a])
Return(a) == todo' = [todo EXCEPT ![a] = Tail(@)]

\* A runner begins a call, or is inside the spin lock of the call's object.
Calls(a, ops) == Runs(a) /\ pc[a] = "call" /\ Call(a).op \in ops
Inside(a, ops) == /\ Runs(a) /\ pc[a] = "guard" /\ Call(a).op \in ops
                  /\ Head(line[Call(a).at]) = a

------------------------------------------------------------------------------
\* Fiber::Schedule and Fiber::YieldSchedule
Schedule(f) == scheduled' = [scheduled EXCEPT ![f] = @ + 1]

\* A worker takes step_ and resumes the coroutine.
Resume(w) ==
    /\ Stage(w, "idle", "run")
    /\ \E f \in Fibers :
          /\ scheduled[f] > 0
          /\ scheduled' = [scheduled EXCEPT ![f] = @ - 1]
          /\ running' = [running EXCEPT ![w] = f]
    /\ UNCHANGED <<awaiter_, need_to_delete_after_discard_, completed, deleted, spinlocks,
                   program>>

\* The coroutine goes back to its worker.
SwitchOut(f, to) ==
    \E w \in Workers : running[w] = f /\ Stage(w, "run", to)

\* Fiber::Suspend
Suspend(f, call) ==
    /\ awaiter_' = [awaiter_ EXCEPT ![f] = call]
    /\ need_to_delete_after_discard_' =
          [need_to_delete_after_discard_ EXCEPT ![f] = FALSE]
    /\ SwitchOut(f, "await")
    /\ UNCHANGED <<scheduled, running, completed, deleted>>

\* Self::Suspend: to yield, or when its awaiter is where others find it.
SuspendSelf(f) ==
    /\ Calls(f, {"Yield", "SelectSuspend"}) \/ (Runs(f) /\ pc[f] = "suspend")
    /\ Suspend(f, Call(f))
    /\ IF Call(f).op \in SuspendsGuarded
       THEN To(f, "unguard") /\ UNCHANGED todo
       ELSE To(f, "call") /\ Return(f)
    /\ UNCHANGED spinlocks

\* The fiber's function has returned.
Complete(f) ==
    /\ Calls(f, {"return"})
    /\ To(f, "done")
    /\ completed' = [completed EXCEPT ![f] = TRUE]
    /\ SwitchOut(f, "discard")
    /\ UNCHANGED <<scheduled, running, awaiter_, need_to_delete_after_discard_, deleted,
                   spinlocks, todo>>

\* The worker has left the coroutine and calls AwaitSuspend of its awaiter.
Awaits(w, ops) == stage[w] = "await" /\ awaiter_[running[w]].op \in ops

\* YieldAwaiter::AwaitSuspend
AwaitYield(w) ==
    /\ Awaits(w, {"Yield"})
    /\ Stage(w, "await", "discard")
    /\ Schedule(running[w])
    /\ UNCHANGED <<running, awaiter_, need_to_delete_after_discard_, completed, deleted,
                   spinlocks, program>>

\* AwaitSuspend of the awaiters that hold a Guard: Guard::Unlock releases the
\* spin lock and then says so.
AwaitGuard(w) ==
    /\ Awaits(w, SuspendsGuarded)
    /\ Stage(w, "await", "flag")
    /\ line' = [line EXCEPT ![awaiter_[running[w]].at] = Tail(@)]
    /\ UNCHANGED <<scheduled, running, awaiter_, need_to_delete_after_discard_, completed,
                   deleted, released_, program>>

\* Variant: the Guard is not marked as released.
SetReleased_Not(w) ==
    /\ Stage(w, "flag", "discard")
    /\ UNCHANGED <<scheduled, running, awaiter_, need_to_delete_after_discard_, completed,
                   deleted, spinlocks, program>>

SetReleased(w) ==
    /\ Stage(w, "flag", "discard")
    /\ released_' = [released_ EXCEPT ![running[w]] = TRUE]
    /\ UNCHANGED <<scheduled, running, awaiter_, need_to_delete_after_discard_, completed,
                   deleted, line, program>>

\* FiberTask::Discard reads a plain flag, and deletes the fiber or sets it.
Discard(w) ==
    LET f == running[w]
    IN  /\ Stage(w, "discard", IF need_to_delete_after_discard_[f] THEN "idle" ELSE "rearm")
        /\ deleted' = [deleted EXCEPT ![f] = @ \/ need_to_delete_after_discard_[f]]
        /\ UNCHANGED <<scheduled, running, awaiter_, need_to_delete_after_discard_,
                       completed, spinlocks, program>>

Rearm(w) ==
    /\ Stage(w, "rearm", "idle")
    /\ need_to_delete_after_discard_' =
          [need_to_delete_after_discard_ EXCEPT ![running[w]] = TRUE]
    /\ UNCHANGED <<scheduled, running, awaiter_, completed, deleted, spinlocks, program>>

------------------------------------------------------------------------------
\* Go, for a new fiber.
Go(a) ==
    /\ Calls(a, {"Go"})
    /\ To(Call(a).fiber, "call")
    /\ Schedule(Call(a).fiber)
    /\ Return(a)
    /\ UNCHANGED <<coroutines, spinlocks>>

\* The Guard of a call gets in line.
Acquire(a) ==
    /\ Calls(a, Guarded)
    /\ To(a, "guard")
    /\ line' = [line EXCEPT ![Call(a).at] = Append(@, a)]
    /\ released_' = [released_ EXCEPT ![a] = FALSE]
    /\ UNCHANGED <<runtime, todo>>

\* ~Guard at the end of the call.  A Guard that has been released and does
\* not know it waits for a successor that does not come.
Unguard(a) ==
    LET l == Call(a).at
    IN  /\ Goto(a, "unguard", "call")
        /\ \/ released_[a] /\ UNCHANGED line
           \/ /\ ~released_[a] /\ line[l] # << >> /\ Head(line[l]) = a
              /\ line' = [line EXCEPT ![l] = Tail(@)]
        /\ Return(a)
        /\ UNCHANGED <<runtime, released_>>

WorkerStep(w) == \/ Resume(w) \/ AwaitYield(w) \/ AwaitGuard(w) \/ SetReleased(w)
                 \/ Discard(w) \/ Rearm(w)
RunnerStep(a) == Go(a) \/ Acquire(a) \/ Unguard(a)
FiberStep(f) == SuspendSelf(f) \/ Complete(f)

------------------------------------------------------------------------------
RuntimeTypeOK ==
    /\ scheduled \in [Fibers -> Nat]
    /\ running \in [Workers -> Fibers \cup {Null}]
    /\ stage \in [Workers -> {"idle", "run", "await", "flag", "discard", "rearm"}]
    /\ need_to_delete_after_discard_ \in [Fibers -> BOOLEAN]
    /\ completed \in [Fibers -> BOOLEAN]
    /\ deleted \in [Fibers -> BOOLEAN]
    /\ line \in [Locks -> Seq(Runners)]
    /\ released_ \in [Runners -> BOOLEAN]

\* "because after suspend we want to reschedule this fiber, and we shouldn't
\* delete this" (fiber.cpp): a fiber is deleted only when its function has
\* returned, whatever its awaiters and its workers do in between.
SuspendedNotDeleted == \A f \in Fibers : deleted[f] => completed[f]
=============================================================================
