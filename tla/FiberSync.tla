----------------------------- MODULE FiberSync -----------------------------
(***************************************************************************)
(* The Mutex, the ConditionVariable and the WaitGroup of fibers.  Mutex    *)
(* and ConditionVariable have a queue of awaiters under a spin lock;       *)
(* WaitGroup has a count and a stack of awaiters, each of them atomic.     *)
(***************************************************************************)
EXTENDS Fibers

ASSUME SyncAssumption == {"mutex", "condvar"} \subseteq Locks

VARIABLES
    queue_,       \* Mutex::queue_, ConditionVariable::queue_
    closed_,      \* Mutex::closed_
    count_, head_,   \* WaitGroup; head_ with the newest first
    resumed,      \* the local of WaitGroup::Wait
    queue,        \* the local of ResumeAwaiters
    ready,        \* what the callers of the condition variable wait for
    owner         \* history: who has the mutex

waitgroup == <<count_, head_, resumed, queue>>
syncs == <<queue_, closed_, waitgroup, ready, owner>>

SyncInit == /\ queue_ = [l \in {"mutex", "condvar"} |-> << >>]
            /\ closed_ = FALSE
            /\ count_ = 0
            /\ head_ = << >>
            /\ resumed = [f \in Fibers |-> FALSE]
            /\ queue = [a \in Runners |-> << >>]
            /\ ready = FALSE
            /\ owner = Null

\* while (!ready) condvar.Wait(mutex); CvQueue is the part of Wait between its
\* calls of the mutex.
WaitUntil(f) ==
    /\ Calls(f, {"WaitUntil"})
    /\ todo' = [todo EXCEPT ![f] =
                  IF ready THEN Tail(@)
                  ELSE << [op |-> "Unlock", at |-> "mutex"], [op |-> "CvQueue", at |-> "condvar"],
                          [op |-> "Lock", at |-> "mutex"] >> \o @]
    /\ UNCHANGED <<runtime, spinlocks, pc, syncs>>

SetReady(a) ==
    /\ Calls(a, {"SetReady"})
    /\ ready' = TRUE
    /\ Return(a)
    /\ UNCHANGED <<runtime, spinlocks, pc, queue_, closed_, waitgroup, owner>>

------------------------------------------------------------------------------
\* Mutex::Lock, when nobody has the mutex.
Lock(f) ==
    /\ Inside(f, {"Lock"})
    /\ ~closed_
    /\ To(f, "unguard")
    /\ closed_' = TRUE
    /\ owner' = f
    /\ UNCHANGED <<runtime, spinlocks, todo, queue_, waitgroup, ready>>

\* Mutex::Lock, when somebody has it, and ConditionVariable::Wait.
Enqueue(f) ==
    /\ Inside(f, {"Lock", "CvQueue"})
    /\ Call(f).op = "Lock" => closed_
    /\ To(f, "suspend")
    /\ queue_' = [queue_ EXCEPT ![Call(f).at] = Append(@, f)]
    /\ UNCHANGED <<runtime, spinlocks, todo, closed_, waitgroup, ready, owner>>

\* MutexAwaiter::Resume of the first awaiter of l.
ResumeFirst(l) ==
    /\ Schedule(Head(queue_[l]))
    /\ queue_' = [queue_ EXCEPT ![l] = Tail(@)]
    /\ UNCHANGED coroutines

\* Variant: the mutex is open although the next fiber is given it.
Unlock_Open(a) ==
    /\ Inside(a, {"Unlock"})
    /\ To(a, "unguard")
    /\ closed_' = FALSE
    /\ IF queue_["mutex"] = << >>
       THEN owner' = Null /\ UNCHANGED <<runtime, queue_>>
       ELSE owner' = Head(queue_["mutex"]) /\ ResumeFirst("mutex")
    /\ UNCHANGED <<spinlocks, todo, waitgroup, ready>>

\* Mutex::Unlock gives the mutex to the first that waits, or opens it.
Unlock(a) ==
    /\ Inside(a, {"Unlock"})
    /\ To(a, "unguard")
    /\ IF queue_["mutex"] = << >>
       THEN closed_' = FALSE /\ owner' = Null /\ UNCHANGED <<runtime, queue_>>
       ELSE owner' = Head(queue_["mutex"]) /\ ResumeFirst("mutex") /\ UNCHANGED closed_
    /\ UNCHANGED <<spinlocks, todo, waitgroup, ready>>

\* ConditionVariable::NotifyOne, or a round of NotifyAll.
Notify(a) ==
    /\ Inside(a, {"NotifyOne", "NotifyAll"})
    /\ queue_["condvar"] # << >>
    /\ IF Call(a).op = "NotifyOne" THEN To(a, "unguard") ELSE UNCHANGED pc
    /\ ResumeFirst("condvar")
    /\ UNCHANGED <<spinlocks, todo, closed_, waitgroup, ready, owner>>

NotifyEnds(a) ==
    /\ Inside(a, {"NotifyOne", "NotifyAll"})
    /\ queue_["condvar"] = << >>
    /\ To(a, "unguard")
    /\ UNCHANGED <<runtime, spinlocks, todo, syncs>>

------------------------------------------------------------------------------
\* WaitGroup::Add(1)
Add(a) ==
    /\ Calls(a, {"Add"})
    /\ count_' = count_ + 1
    /\ Return(a)
    /\ UNCHANGED <<runtime, spinlocks, pc, queue_, closed_, head_, resumed, queue, ready,
                   owner>>

\* WaitGroup::Done and AllDone: the count, and then the stack of awaiters.
Done(a) ==
    /\ Calls(a, {"Done", "AllDone"})
    /\ To(a, IF Call(a).op = "AllDone" \/ count_ = 1 THEN "take" ELSE "resume")
    /\ count_' = IF Call(a).op = "AllDone" THEN 0 ELSE count_ - 1
    /\ UNCHANGED <<runtime, spinlocks, todo, queue_, closed_, head_, resumed, queue, ready,
                   owner>>

TakeStack(a) ==
    /\ Goto(a, "take", "resume")
    /\ queue' = [queue EXCEPT ![a] = Reverse(head_)]
    /\ head_' = << >>
    /\ UNCHANGED <<runtime, spinlocks, todo, queue_, closed_, count_, resumed, ready, owner>>

\* WaitGroupAwaiter::Resume and AwaitSuspend: whoever tests resumed second
\* schedules the fiber.
TestResumed(f) ==
    /\ resumed' = [resumed EXCEPT ![f] = TRUE]
    /\ IF resumed[f] THEN Schedule(f) ELSE UNCHANGED scheduled

\* ResumeAwaiters, one awaiter at a time.
ResumeAwaiter(a) ==
    /\ Goto(a, "resume", "resume")
    /\ queue[a] # << >>
    /\ queue' = [queue EXCEPT ![a] = Tail(@)]
    /\ TestResumed(Head(queue[a]))
    /\ UNCHANGED <<coroutines, spinlocks, todo, queue_, closed_, count_, head_, ready, owner>>

DoneReturns(a) ==
    /\ Goto(a, "resume", "call")
    /\ queue[a] = << >>
    /\ Return(a)
    /\ UNCHANGED <<runtime, spinlocks, syncs>>

\* WaitGroup::Wait looks at the count and, later, pushes its awaiter.
Wait(f) ==
    /\ Calls(f, {"Wait"})
    /\ IF count_ = 0 THEN Return(f) /\ UNCHANGED pc
                     ELSE To(f, "push") /\ UNCHANGED todo
    /\ UNCHANGED <<runtime, spinlocks, syncs>>

PushInStack(f) ==
    /\ Goto(f, "push", "suspend")
    /\ head_' = << f >> \o head_
    /\ resumed' = [resumed EXCEPT ![f] = FALSE]
    /\ UNCHANGED <<runtime, spinlocks, todo, queue_, closed_, count_, queue, ready, owner>>

\* Variant: AwaitSuspend schedules the fiber whoever comes first.
AwaitWaitGroup_Always(w) ==
    /\ Awaits(w, {"Wait"})
    /\ Stage(w, "await", "discard")
    /\ resumed' = [resumed EXCEPT ![running[w]] = TRUE]
    /\ Schedule(running[w])
    /\ UNCHANGED <<running, awaiter_, need_to_delete_after_discard_, completed, deleted,
                   spinlocks, program, queue_, closed_, count_, head_, queue, ready, owner>>

\* WaitGroupAwaiter::AwaitSuspend, on the worker.
AwaitWaitGroup(w) ==
    /\ Awaits(w, {"Wait"})
    /\ Stage(w, "await", "discard")
    /\ TestResumed(running[w])
    /\ UNCHANGED <<running, awaiter_, need_to_delete_after_discard_, completed, deleted,
                   spinlocks, program, queue_, closed_, count_, head_, queue, ready, owner>>

------------------------------------------------------------------------------
SyncStep(a) == \/ SetReady(a) \/ Unlock(a) \/ Notify(a) \/ NotifyEnds(a)
               \/ Add(a) \/ Done(a) \/ TakeStack(a) \/ ResumeAwaiter(a) \/ DoneReturns(a)

\* What only a fiber can do, since it may block.
FiberSyncStep(f) == WaitUntil(f) \/ Lock(f) \/ Enqueue(f) \/ Wait(f) \/ PushInStack(f)

------------------------------------------------------------------------------
SyncTypeOK ==
    /\ queue_ \in [{"mutex", "condvar"} -> Seq(Fibers)]
    /\ closed_ \in BOOLEAN
    /\ count_ \in Nat
    /\ head_ \in Seq(Fibers)
    /\ resumed \in [Fibers -> BOOLEAN]
    /\ queue \in [Runners -> Seq(Fibers)]
    /\ ready \in BOOLEAN
    /\ owner \in Fibers \cup {Null}

\* The mutex is a lock that fibers get in the order in which they asked for
\* it, across suspension, hand-over and the condition variable.  A fiber that
\* was handed the mutex is inside when it has left Lock.
HandedOver(f) == Call(f).op = "Lock" /\ pc[f] = "unguard" /\ f \notin Range(line["mutex"])
Mutex == INSTANCE FifoLock
             WITH Threads <- Fibers,
                  inside <- {f \in Fibers : f = owner /\ ~HandedOver(f)},
                  queue <- (IF owner = Null THEN << >> ELSE << owner >>) \o queue_["mutex"]
ImplementsFifoLock == Mutex!Spec

\* Where the awaiter of a fiber may be.
AwaitsSync(f) == \/ \E l \in {"mutex", "condvar"} : f \in Range(queue_[l])
                 \/ f \in Range(head_)
                 \/ \E a \in Runners : f \in Range(queue[a])

\* A fiber has pushed its awaiter when the count was zero already.
Forgotten(f) == f \in Range(head_) /\ count_ = 0 /\ \A a \in Runners : pc[a] # "take"
=============================================================================
