---------------------------- MODULE FiberFutures ----------------------------
(***************************************************************************)
(* Fibers that wait for futures: Self::Await, and AsyncVia, whose fiber    *)
(* sets a Promise at its end.  Futures has the contracts in detail; here   *)
(* one is the word in which its Promise and the fiber that awaits it meet. *)
(* The executor of the futures is that of the fibers: Await brings a       *)
(* SemiFuture to the scheduler of its fiber.                               *)
(***************************************************************************)
EXTENDS Fibers

CONSTANTS Contracts, kValueIsSet

ASSUME ContractAssumption == kValueIsSet \notin Fibers \cup {Null}

VARIABLES
    callback,    \* FutureValue::callback: Null, kValueIsSet or the fiber to schedule
    invoked      \* the callbacks that are in the executor, by their contracts

futures == <<callback, invoked>>

FutureInit == /\ callback = [c \in Contracts |-> Null]
              /\ invoked = [c \in Contracts |-> Null]

Exchange(c, to) == callback' = [callback EXCEPT ![c] = to]
Invoke(c, f) == invoked' = [invoked EXCEPT ![c] = f]

\* Await returns the result if there is one, or suspends with a FutureAwaiter.
Await(f) ==
    /\ Calls(f, {"Await"})
    /\ IF callback[Call(f).at] # Null THEN Return(f) /\ UNCHANGED pc
                                      ELSE To(f, "suspend") /\ UNCHANGED todo
    /\ UNCHANGED <<runtime, spinlocks, futures>>

\* FutureAwaiter::AwaitSuspend, on the worker: Subscribe, with a callback that
\* schedules the fiber.  It goes to the executor if the value was set meanwhile.
AwaitFuture(w) ==
    LET c == awaiter_[running[w]].at
    IN  /\ Awaits(w, {"Await"})
        /\ Stage(w, "await", "discard")
        /\ Exchange(c, running[w])
        /\ IF callback[c] = kValueIsSet THEN Invoke(c, running[w]) ELSE UNCHANGED invoked
        /\ UNCHANGED <<scheduled, running, awaiter_, need_to_delete_after_discard_, completed,
                       deleted, spinlocks, program>>

\* Promise::Set, the last call of the fiber that AsyncVia makes, or of a thread.
SetPromise(a) ==
    LET c == Call(a).at
    IN  /\ Calls(a, {"SetPromise"})
        /\ Exchange(c, kValueIsSet)
        /\ IF callback[c] \in Fibers THEN Invoke(c, callback[c]) ELSE UNCHANGED invoked
        /\ Return(a)
        /\ UNCHANGED <<runtime, spinlocks, pc>>

\* A worker runs the callback: the fiber has its result and is scheduled.
RunCallback(w) ==
    /\ stage[w] = "idle"
    /\ \E c \in Contracts :
          /\ invoked[c] # Null
          /\ Invoke(c, Null)
          /\ Schedule(invoked[c])
    /\ UNCHANGED <<coroutines, spinlocks, program, callback>>

------------------------------------------------------------------------------
FutureTypeOK ==
    /\ callback \in [Contracts -> Fibers \cup {Null, kValueIsSet}]
    /\ invoked \in [Contracts -> Fibers \cup {Null}]

\* Where the awaiter of a fiber may be.
Unset(c) == \E a \in Runners : [op |-> "SetPromise", at |-> c] \in Range(todo[a])
AwaitsFuture(f) == \E c \in Contracts : (callback[c] = f /\ Unset(c)) \/ invoked[c] = f
=============================================================================
