---------------------------- MODULE FiberLibrary ----------------------------
(***************************************************************************)
(* Fibers with all that they can block on: the composition of the runtime, *)
(* the synchronisation primitives, the channels and the futures.           *)
(***************************************************************************)
EXTENDS FiberSync, Channels, FiberFutures

vars == <<runtime, spinlocks, program, syncs, channels, futures>>

Init == RuntimeInit /\ SyncInit /\ ChannelInit /\ FutureInit

RunnerNext(a) == \/ RunnerStep(a) /\ UNCHANGED <<syncs, channels, futures>>
                 \/ SyncStep(a) /\ UNCHANGED <<channels, futures>>
                 \/ ChannelStep(a) /\ UNCHANGED <<syncs, futures>>
                 \/ SetPromise(a) /\ UNCHANGED <<syncs, channels>>

FiberNext(f) == \/ RunnerNext(f)
                \/ FiberStep(f) /\ UNCHANGED <<syncs, channels, futures>>
                \/ FiberSyncStep(f) /\ UNCHANGED <<channels, futures>>
                \/ FiberChannelStep(f) /\ UNCHANGED <<syncs, futures>>
                \/ Await(f) /\ UNCHANGED <<syncs, channels>>

WorkerNext(w) == \/ WorkerStep(w) /\ UNCHANGED <<syncs, channels, futures>>
                 \/ AwaitWaitGroup(w) /\ UNCHANGED <<channels, futures>>
                 \/ AwaitSelect(w) /\ UNCHANGED <<syncs, futures>>
                 \/ (AwaitFuture(w) \/ RunCallback(w)) /\ UNCHANGED <<syncs, channels>>

Next == \/ \E t \in Threads : RunnerNext(t)
        \/ \E f \in Fibers : FiberNext(f)
        \/ \E w \in Workers : WorkerNext(w)

Spec == Init /\ [][Next]_vars

\* Threads keep running; a fiber moves on with the worker that runs it.
FairSpec ==
    /\ Spec
    /\ \A t \in Threads : WF_vars(RunnerNext(t))
    /\ \A w \in Workers :
          WF_vars(WorkerNext(w) \/ \E f \in Fibers : running[w] = f /\ FiberNext(f))

------------------------------------------------------------------------------
Ops == Guarded \cup {"Go", "Yield", "WaitUntil", "SetReady", "Add", "Done", "AllDone", "Wait",
                     "Select", "TrySelect", "SelectSuspend", "Await", "SetPromise"}
TypeOK ==
    /\ RuntimeTypeOK
    /\ SyncTypeOK
    /\ ChannelTypeOK
    /\ FutureTypeOK
    /\ pc \in [Runners -> {"new", "call", "guard", "unguard", "suspend", "take", "resume",
                           "push", "unlink", "setQueue", "set", "refill", "move", "done"}]
    /\ \A a \in Runners : \A i \in DOMAIN todo[a] : todo[a][i].op \in Ops
    /\ \A f \in Fibers : awaiter_[f] # Null => awaiter_[f].op \in Ops

\* A fiber that has been started and has not finished runs, or is in the
\* executor, once; or else it is suspended, and then somebody has its awaiter
\* or its worker is about to publish it.  Nobody schedules a fiber that runs
\* or is scheduled, and none is forgotten by everybody.
Waiting(f) == AwaitsSync(f) \/ AwaitsChannel(f) \/ AwaitsFuture(f)
Publishing(f) == pc[f] = "suspend" \/ Call(f).op \in {"SelectorReceive", "SelectSuspend"}
FiberInOnePlace ==
    \A f \in Fibers :
        LET runs == scheduled[f]
                    + Cardinality({w \in Workers : stage[w] = "run" /\ running[w] = f})
        IN  /\ runs <= 1
            /\ pc[f] \notin {"new", "done"} /\ runs = 0
                  => Waiting(f) \/ \E w \in Workers : stage[w] = "await" /\ running[w] = f
            /\ runs = 1 /\ Waiting(f) => Publishing(f)

\* In the end every fiber that was started has finished and is deleted, unless
\* it waits for a channel that nobody uses any more, or has pushed its awaiter
\* when the count of the WaitGroup was zero already, or waits for a mutex that
\* such a fiber holds.
Left(f) == \/ Forgotten(f)
           \/ \E c \in ChannelNames : f \in Range(producers_queue_[c]) \/ Consumes(f, c)
EveryFiberFinishes ==
    <>[](\A f \in Fibers :
            \/ pc[f] = "new" \/ deleted[f]
            \/ Left(f)
            \/ f \in Range(queue_["mutex"]) /\ owner # Null /\ Left(owner))
=============================================================================
