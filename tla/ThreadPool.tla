----------------------------- MODULE ThreadPool -----------------------------
(***************************************************************************)
(* Executors::WithWaitIdle::ThreadPool: workers with a LIFO slot and a     *)
(* local ring each, a global queue under a mutex, a counter of queued      *)
(* routines that idle workers sleep on, and a Detail::WaitGroup that       *)
(* WaitIdle waits for.  WithoutWaitIdle::ThreadPool has the same queues,   *)
(* but neither of the counters: its idle workers spin.                     *)
(*                                                                         *)
(* A step is one access to shared memory, one call of a local ring (they   *)
(* take effect at one instant: module RingQueue) or one critical section   *)
(* of global_queue_mutex_, with the local computation that follows.  What  *)
(* the random generators decide is left open.                              *)
(***************************************************************************)
EXTENDS Integers, Sequences, FiniteSets, SequencesExt, FiniteSetsExt

CONSTANTS
    Workers, Clients, Routines,
    Scripts,                 \* a pool and the calls each client makes, in order
    Spawns,                  \* the sequences of calls each routine may make
    kLocalQueueSize,
    kRobbedPart,             \* a robber takes this part of kLocalQueueSize, 4 in the code
    kMaxLIFORoutinesCount,
    kStopTokens,             \* what Stop adds to routines_in_queue_
    Word,                    \* size_t counts modulo Word
    Null

Actors == Workers \cup Clients
Calls == {[op |-> "Execute", routine |-> r, hint |-> h] :
             r \in Routines, h \in {"LIFO", "Local", "Global"}}
         \cup {[op |-> "WaitIdle"], [op |-> "Stop"], [op |-> "Destroy"]}

ASSUME PoolAssumption ==
    /\ Workers \cap Clients = {}
    /\ IsFiniteSet(Actors) /\ Cardinality(Workers) > 1
    /\ IsFiniteSet(Routines)
    /\ Scripts \subseteq [variant : {"WithWaitIdle", "WithoutWaitIdle"},
                           calls : [Clients -> Seq(Calls)]]
    /\ \A s \in Scripts, c \in Clients :
          s.variant = "WithoutWaitIdle" => [op |-> "WaitIdle"] \notin Range(s.calls[c])
    /\ \A s \in Scripts, c, d \in Clients : \* the workers can be joined once
          \A i \in DOMAIN s.calls[c], j \in DOMAIN s.calls[d] :
             s.calls[c][i].op = "Stop" /\ s.calls[d][j].op = "Stop" => c = d /\ i = j
    /\ \A r \in Routines : Spawns[r] \subseteq Seq(Calls)
    /\ kLocalQueueSize \in Nat \ {0} /\ kRobbedPart \in 1..kLocalQueueSize
    /\ kMaxLIFORoutinesCount \in Nat
    /\ kStopTokens \in Nat /\ Word \in Nat
    /\ kStopTokens + Cardinality(Routines) + Cardinality(Workers) < Word
    /\ Null \notin Routines

VARIABLES
    global_queue_, local_queues_, lifo_slots_,
    lifo_count,          \* lifo_slots_routines_count_
    routines_in_queue_,
    routines_wg_,        \* its count_
    robbers_count_, closed,
    variant,             \* which of the two pools this is
    pc,
    todo,                \* the calls each actor has still to make
    steps,               \* steps of its TakeStrategy that a worker has not tried
    routine,             \* the routine a worker has taken, or runs
    moving,              \* routines a worker pushes into its local queue,
    spilled,             \*   and those it moves from there to the global queue
    old_count,           \* WaitGroup::Wait's local
    submitted, finished, discarded   \* histories

queues == <<global_queue_, local_queues_, lifo_slots_>>
counters == <<routines_in_queue_, routines_wg_, robbers_count_, closed>>
history == <<submitted, finished, discarded>>
taking == <<lifo_count, steps, routine>>
transit == <<moving, spilled>>
vars == <<queues, counters, history, taking, transit, pc, todo, old_count, variant>>
WithWaitIdle == variant = "WithWaitIdle"

Init == /\ global_queue_ = << >>
        /\ local_queues_ = [w \in Workers |-> << >>]
        /\ lifo_slots_ = [w \in Workers |-> Null]
        /\ lifo_count = [w \in Workers |-> 0]
        /\ routines_in_queue_ = 0
        /\ routines_wg_ = 0
        /\ robbers_count_ = 0
        /\ closed = [w \in Workers |-> FALSE]
        /\ pc = [a \in Actors |-> IF a \in Workers THEN "loop" ELSE "idle"]
        /\ \E script \in Scripts :
              /\ variant = script.variant
              /\ todo = [a \in Actors |-> IF a \in Clients THEN script.calls[a] ELSE << >>]
        /\ steps = [w \in Workers |-> << >>]
        /\ routine = [w \in Workers |-> Null]
        /\ moving = [w \in Workers |-> << >>]
        /\ spilled = [w \in Workers |-> << >>]
        /\ old_count = [c \in Clients |-> 0]
        /\ submitted = {} /\ finished = {} /\ discarded = {}

Goto(a, from, to) == pc[a] = from /\ pc' = [pc EXCEPT ![a] = to]
Call(a) == Head(todo[a])
Next_(a, op) == todo[a] # << >> /\ Call(a).op = op

------------------------------------------------------------------------------
\* Execute, called by a client or by the routine that a worker runs.  Nobody
\* submits what somebody has submitted before: a routine that is submitted
\* again counts as another one.
Caller(a) == IF a \in Workers THEN "run" ELSE "idle"
Submits(a) == /\ Next_(a, "Execute")
              /\ Call(a).routine \notin submitted
              /\ submitted' = submitted \cup {Call(a).routine}

ExecuteAdd(a) ==
    /\ WithWaitIdle
    /\ Submits(a)
    /\ Goto(a, Caller(a), "execute")
    /\ routines_wg_' = (routines_wg_ + 1) % Word
    /\ UNCHANGED <<queues, routines_in_queue_, robbers_count_, closed, finished,
                   discarded, taking, transit, todo, old_count>>

PushGlobal(a) ==
    /\ Goto(a, "execute", "count")
    /\ Call(a).hint = "Global"
    /\ global_queue_' = Append(global_queue_, Call(a).routine)
    /\ UNCHANGED <<local_queues_, lifo_slots_, counters, history, taking,
                   transit, todo, old_count>>

PushLocal(w) ==
    /\ Goto(w, "execute", "move")
    /\ Call(w).hint = "Local"
    /\ moving' = [moving EXCEPT ![w] = << Call(w).routine >>]
    /\ UNCHANGED <<queues, counters, history, taking, spilled, todo, old_count>>

\* Variant: the routine that was in the slot is overwritten.
PushLIFO_Overwrite(w) ==
    /\ Goto(w, "execute", "count")
    /\ Call(w).hint = "LIFO"
    /\ lifo_slots_' = [lifo_slots_ EXCEPT ![w] = Call(w).routine]
    /\ UNCHANGED <<global_queue_, local_queues_, counters, history, taking,
                   transit, todo, old_count>>

\* The routine that was in the slot goes to the local queue.
PushLIFO(w) ==
    /\ Goto(w, "execute", IF lifo_slots_[w] = Null THEN "count" ELSE "move")
    /\ Call(w).hint = "LIFO"
    /\ lifo_slots_' = [lifo_slots_ EXCEPT ![w] = Call(w).routine]
    /\ moving' = [moving EXCEPT ![w] = IF lifo_slots_[w] = Null
                                       THEN << >> ELSE << lifo_slots_[w] >>]
    /\ UNCHANGED <<global_queue_, local_queues_, counters, history, taking,
                   spilled, todo, old_count>>

\* routines_in_queue_.fetch_add(1), and the notify_one that follows 0.
Count(a) ==
    /\ WithWaitIdle
    /\ Goto(a, "count", IF routines_in_queue_ = 0 THEN "notify" ELSE Caller(a))
    /\ routines_in_queue_' = (routines_in_queue_ + 1) % Word
    /\ todo' = [todo EXCEPT ![a] = Tail(@)]
    /\ UNCHANGED <<queues, routines_wg_, robbers_count_, closed, history,
                   taking, transit, old_count>>

Asleep == {w \in Workers : pc[w] = "asleep"}

\* Variant: nobody is notified.
NotifyOne_Nobody(a) ==
    /\ Goto(a, "notify", Caller(a))
    /\ UNCHANGED <<queues, counters, history, taking, transit, todo, old_count>>

NotifyOne(a) ==
    /\ pc[a] = "notify"
    /\ IF Asleep = {}
       THEN pc' = [pc EXCEPT ![a] = Caller(a)]
       ELSE \E w \in Asleep : pc' = [pc EXCEPT ![a] = Caller(a), ![w] = "wait"]
    /\ UNCHANGED <<queues, counters, history, taking, transit, todo, old_count>>

------------------------------------------------------------------------------
\* PushRoutineInTheLocalQueue, for each of the routines in moving.  Then the
\* worker counts the routine it submits, or goes on with what it has taken.
AfterMove(w) == IF todo[w] # << >> THEN "count" ELSE "taken"

\* Variant: the ring takes more than its capacity.
Move_Full(w) ==
    /\ Goto(w, "move", IF Len(moving[w]) = 1 THEN AfterMove(w) ELSE "move")
    /\ local_queues_' = [local_queues_ EXCEPT ![w] = Append(@, Head(moving[w]))]
    /\ moving' = [moving EXCEPT ![w] = Tail(@)]
    /\ UNCHANGED <<global_queue_, lifo_slots_, counters, history, taking,
                   spilled, todo, old_count>>

Move(w) ==
    /\ Goto(w, "move", IF Len(moving[w]) = 1 THEN AfterMove(w) ELSE "move")
    /\ Len(local_queues_[w]) < kLocalQueueSize
    /\ local_queues_' = [local_queues_ EXCEPT ![w] = Append(@, Head(moving[w]))]
    /\ moving' = [moving EXCEPT ![w] = Tail(@)]
    /\ UNCHANGED <<global_queue_, lifo_slots_, counters, history, taking,
                   spilled, todo, old_count>>

MoveFails(w) ==
    /\ Goto(w, "move", "grab")
    /\ Len(local_queues_[w]) = kLocalQueueSize
    /\ UNCHANGED <<queues, counters, history, taking, transit, todo, old_count>>

\* What Grab(n) takes from a ring that holds q, and what it leaves.
Grabbed(q, n) == SubSeq(q, 1, Min({n, Len(q)}))
Left(q, n) == SubSeq(q, Min({n, Len(q)}) + 1, Len(q))

\* GrabFromLocalQueueToGlobalQueue
GrabHalf(w) ==
    LET n == kLocalQueueSize \div 2
        taken == Grabbed(local_queues_[w], n)
    IN  /\ Goto(w, "grab", IF taken = << >> THEN "move" ELSE "spill")
        /\ spilled' = [spilled EXCEPT ![w] = taken]
        /\ local_queues_' = [local_queues_ EXCEPT ![w] = Left(@, n)]
        /\ UNCHANGED <<global_queue_, lifo_slots_, counters, history, taking,
                       moving, todo, old_count>>

Spill(w) ==
    /\ Goto(w, "spill", "move")
    /\ global_queue_' = global_queue_ \o spilled[w]
    /\ spilled' = [spilled EXCEPT ![w] = << >>]
    /\ UNCHANGED <<local_queues_, lifo_slots_, counters, history, taking,
                   moving, todo, old_count>>

------------------------------------------------------------------------------
\* WorkerRoutine: the test of closed and the choice of a strategy.
DefaultTakeStrategy == << "LIFOSlot", "LocalQueue", "GlobalQueue", "Grab" >>
GlobalQueueTakeStrategy == << "GlobalQueue", "LIFOSlot", "LocalQueue", "Grab" >>
WithoutLIFOSlotTakeStrategy == << "LocalQueue", "GlobalQueue", "Grab", "LIFOSlot" >>

Exit(w) ==
    /\ Goto(w, "loop", "exited")
    /\ closed[w]
    /\ UNCHANGED <<queues, counters, history, taking, transit, todo, old_count>>

ChooseStrategy(w) ==
    /\ Goto(w, "loop", "take")
    /\ ~closed[w]
    /\ \E s \in {GlobalQueueTakeStrategy,
                 IF lifo_count[w] >= kMaxLIFORoutinesCount
                 THEN WithoutLIFOSlotTakeStrategy ELSE DefaultTakeStrategy} :
          steps' = [steps EXCEPT ![w] = s]
    /\ UNCHANGED <<queues, counters, history, lifo_count, routine, transit, todo,
                   old_count>>

\* TryTake: a step of the strategy yields a routine (and others, that are
\* moved to the local queue), or nullptr and the next one is tried.
Trying(w, step) == pc[w] = "take" /\ Head(steps[w]) = step

Takes(w, r, rest) ==
    /\ routine' = [routine EXCEPT ![w] = r]
    /\ moving' = [moving EXCEPT ![w] = rest]
    /\ lifo_count' = [lifo_count EXCEPT ![w] =
                         IF Head(steps[w]) = "LIFOSlot" THEN @ + 1 ELSE 0]
    /\ steps' = [steps EXCEPT ![w] = << >>]
    /\ pc' = [pc EXCEPT ![w] = IF rest = << >> THEN "taken" ELSE "move"]

TakesNothing(w) ==
    /\ steps' = [steps EXCEPT ![w] = Tail(@)]
    /\ pc' = [pc EXCEPT ![w] = IF Len(steps[w]) = 1 THEN "wait" ELSE "take"]
    /\ UNCHANGED <<queues, routine, moving, lifo_count>>

TakeFromLIFOSlot(w) ==
    /\ Trying(w, "LIFOSlot")
    /\ \/ /\ lifo_slots_[w] # Null
          /\ Takes(w, lifo_slots_[w], << >>)
          /\ lifo_slots_' = [lifo_slots_ EXCEPT ![w] = Null]
          /\ UNCHANGED <<global_queue_, local_queues_>>
       \/ lifo_slots_[w] = Null /\ TakesNothing(w)
    /\ UNCHANGED <<counters, history, spilled, todo, old_count>>

TakeFromLocalQueue(w) ==
    /\ Trying(w, "LocalQueue")
    /\ \/ /\ local_queues_[w] # << >>
          /\ Takes(w, Head(local_queues_[w]), << >>)
          /\ local_queues_' = [local_queues_ EXCEPT ![w] = Tail(@)]
          /\ UNCHANGED <<global_queue_, lifo_slots_>>
       \/ local_queues_[w] = << >> /\ TakesNothing(w)
    /\ UNCHANGED <<counters, history, spilled, todo, old_count>>

\* A worker that has already tried its local queue takes a share of the
\* others, too.
TakeFromGlobalQueue(w) ==
    LET was_local_queue == "LocalQueue" \notin Range(steps[w])
        size == Len(global_queue_) - 1
        n == IF was_local_queue
             THEN Min({kLocalQueueSize \div 2, size \div Cardinality(Workers)})
             ELSE 0
    IN  /\ Trying(w, "GlobalQueue")
        /\ \/ /\ global_queue_ # << >>
              /\ Takes(w, Head(global_queue_), SubSeq(global_queue_, 2, n + 1))
              /\ global_queue_' = SubSeq(global_queue_, n + 2, size + 1)
              /\ UNCHANGED <<local_queues_, lifo_slots_>>
           \/ global_queue_ = << >> /\ TakesNothing(w)
        /\ UNCHANGED <<counters, history, spilled, todo, old_count>>

\* TryGrabRoutineFromLocalQueue first becomes a robber, if there are not too
\* many.
BecomeRobber(w) ==
    /\ Trying(w, "Grab")
    /\ \/ /\ robbers_count_ < Cardinality(Workers)
          /\ robbers_count_' = robbers_count_ + 1
          /\ pc' = [pc EXCEPT ![w] = "rob"]
          /\ UNCHANGED <<queues, taking, moving>>
       \/ /\ robbers_count_ >= Cardinality(Workers)
          /\ TakesNothing(w)
          /\ UNCHANGED robbers_count_
    /\ UNCHANGED <<routines_in_queue_, routines_wg_, closed, history, spilled,
                   todo, old_count>>

Rob(w) ==
    LET n == kLocalQueueSize \div kRobbedPart
    IN  /\ pc[w] = "rob"
        /\ \E from \in Workers \ {w} :
              LET taken == Grabbed(local_queues_[from], n)
              IN  \/ /\ taken # << >>
                     /\ Takes(w, Head(taken), Tail(taken))
                     /\ local_queues_' = [local_queues_ EXCEPT ![from] = Left(@, n)]
                     /\ UNCHANGED <<global_queue_, lifo_slots_>>
                  \/ taken = << >> /\ TakesNothing(w)
        /\ UNCHANGED <<counters, history, spilled, todo, old_count>>

------------------------------------------------------------------------------
\* Variant: a taken routine is not subtracted.
CountTaken_Not(w) ==
    /\ WithWaitIdle
    /\ Goto(w, "taken", "run")
    /\ \E calls \in Spawns[routine[w]] : todo' = [todo EXCEPT ![w] = calls]
    /\ UNCHANGED <<queues, counters, history, taking, transit, old_count>>

\* WorkerRoutine has a routine: fetch_sub, Run (and Discard), Done.
CountTaken(w) ==
    /\ WithWaitIdle
    /\ Goto(w, "taken", "run")
    /\ routines_in_queue_' = (routines_in_queue_ + Word - 1) % Word
    /\ \E calls \in Spawns[routine[w]] : todo' = [todo EXCEPT ![w] = calls]
    /\ UNCHANGED <<queues, routines_wg_, robbers_count_, closed, history, taking,
                   transit, old_count>>

Return(w) ==
    /\ WithWaitIdle
    /\ Goto(w, "run", "done")
    /\ todo[w] = << >>
    /\ finished' = finished \cup {routine[w]}
    /\ routine' = [routine EXCEPT ![w] = Null]
    /\ UNCHANGED <<queues, counters, submitted, discarded, lifo_count, steps,
                   transit, todo, old_count>>

Done(w) ==
    /\ Goto(w, "done", IF routines_wg_ = 1 THEN "notifyIdle" ELSE "loop")
    /\ routines_wg_' = (routines_wg_ + Word - 1) % Word
    /\ UNCHANGED <<queues, routines_in_queue_, robbers_count_, closed, history,
                   taking, transit, todo, old_count>>

\* routines_wg_.count_.notify_all()
NotifyIdle(a, from, to) ==
    /\ pc[a] = from
    /\ pc' = [b \in Actors |-> IF b = a THEN to
                               ELSE IF pc[b] = "idleWait" THEN "idleCheck"
                               ELSE pc[b]]
    /\ UNCHANGED <<queues, counters, history, taking, transit, todo, old_count>>

\* Variant: the worker goes to sleep without looking at the counter again.
Wait_Blindly(w) ==
    /\ WithWaitIdle
    /\ Goto(w, "wait", "asleep")
    /\ UNCHANGED <<queues, counters, history, taking, transit, todo, old_count>>

\* It has none: routines_in_queue_.wait(0), which a notification makes look
\* again.
Wait(w) ==
    /\ WithWaitIdle
    /\ Goto(w, "wait", IF routines_in_queue_ = 0 THEN "asleep" ELSE "loop")
    /\ UNCHANGED <<queues, counters, history, taking, transit, todo, old_count>>

------------------------------------------------------------------------------
\* WaitIdle: WaitGroup::Wait loads count_ and, while it is not 0, waits for it
\* to change.
WaitIdle(c) ==
    /\ Next_(c, "WaitIdle")
    /\ Goto(c, "idle", "idleLoad")
    /\ UNCHANGED <<queues, counters, history, taking, transit, todo, old_count>>

IdleLoad(c) ==
    /\ Goto(c, "idleLoad", IF routines_wg_ = 0 THEN "idle" ELSE "idleCheck")
    /\ old_count' = [old_count EXCEPT ![c] = routines_wg_]
    /\ todo' = IF routines_wg_ = 0 THEN [todo EXCEPT ![c] = Tail(@)] ELSE todo
    /\ UNCHANGED <<queues, counters, history, taking, transit>>

\* Variant: any change of count_ ends the wait ("if" instead of "while").
IdleCheck_Once(c) ==
    /\ Goto(c, "idleCheck", IF routines_wg_ = old_count[c] THEN "idleWait"
                                                           ELSE "idle")
    /\ todo' = IF routines_wg_ = old_count[c] THEN todo
               ELSE [todo EXCEPT ![c] = Tail(@)]
    /\ UNCHANGED <<queues, counters, history, taking, transit, old_count>>

IdleCheck(c) ==
    /\ Goto(c, "idleCheck", IF routines_wg_ = old_count[c] THEN "idleWait"
                                                           ELSE "idleLoad")
    /\ UNCHANGED <<queues, counters, history, taking, transit, todo, old_count>>

------------------------------------------------------------------------------
\* Stop: fetch_add, notify_all, the closed flags, join, AllDone.
StopAdd(c) ==
    /\ WithWaitIdle
    /\ Next_(c, "Stop")
    /\ Goto(c, "idle", "stopNotify")
    /\ routines_in_queue_' = (routines_in_queue_ + kStopTokens) % Word
    /\ UNCHANGED <<queues, routines_wg_, robbers_count_, closed, history, taking,
                   transit, todo, old_count>>

\* Variant: notify_one instead of notify_all.
StopNotify_One(c) ==
    /\ pc[c] = "stopNotify"
    /\ IF Asleep = {}
       THEN pc' = [pc EXCEPT ![c] = "close"]
       ELSE \E w \in Asleep : pc' = [pc EXCEPT ![c] = "close", ![w] = "wait"]
    /\ UNCHANGED <<queues, counters, history, taking, transit, todo, old_count>>

StopNotify(c) ==
    /\ pc[c] = "stopNotify"
    /\ pc' = [a \in Actors |-> IF a = c THEN "close"
                               ELSE IF a \in Asleep THEN "wait" ELSE pc[a]]
    /\ UNCHANGED <<queues, counters, history, taking, transit, todo, old_count>>

Close(c) ==
    /\ pc[c] = "close"
    /\ \E w \in Workers :
          /\ ~closed[w]
          /\ closed' = [closed EXCEPT ![w] = TRUE]
          /\ pc' = IF \A v \in Workers \ {w} : closed[v]
                   THEN [pc EXCEPT ![c] = "join"] ELSE pc
    /\ UNCHANGED <<queues, routines_in_queue_, routines_wg_, robbers_count_,
                   history, taking, transit, todo, old_count>>

Join(c) ==
    /\ WithWaitIdle
    /\ Goto(c, "join", "allDone")
    /\ \A w \in Workers : pc[w] = "exited"
    /\ routines_wg_' = 0
    /\ todo' = [todo EXCEPT ![c] = Tail(@)]
    /\ UNCHANGED <<queues, routines_in_queue_, robbers_count_, closed, history,
                   taking, transit, old_count>>

\* The pool without WaitIdle: Execute is its push, a worker runs what it takes
\* and spins when it finds nothing, and Stop closes and joins the workers.
PlainExecute(a) ==
    /\ ~WithWaitIdle
    /\ Submits(a)
    /\ Goto(a, Caller(a), "execute")
    /\ UNCHANGED <<queues, counters, finished, discarded, taking, transit, todo, old_count>>

PlainPushed(a) ==
    /\ ~WithWaitIdle
    /\ Goto(a, "count", Caller(a))
    /\ todo' = [todo EXCEPT ![a] = Tail(@)]
    /\ UNCHANGED <<queues, counters, history, taking, transit, old_count>>

PlainRun(w) ==
    /\ ~WithWaitIdle
    /\ Goto(w, "taken", "run")
    /\ \E calls \in Spawns[routine[w]] : todo' = [todo EXCEPT ![w] = calls]
    /\ UNCHANGED <<queues, counters, history, taking, transit, old_count>>

PlainReturn(w) ==
    /\ ~WithWaitIdle
    /\ Goto(w, "run", "loop")
    /\ todo[w] = << >>
    /\ finished' = finished \cup {routine[w]}
    /\ routine' = [routine EXCEPT ![w] = Null]
    /\ UNCHANGED <<queues, counters, submitted, discarded, lifo_count, steps, transit, todo,
                   old_count>>

PlainSpin(w) ==
    /\ ~WithWaitIdle
    /\ Goto(w, "wait", "loop")
    /\ UNCHANGED <<queues, counters, history, taking, transit, todo, old_count>>

PlainStop(c) ==
    /\ ~WithWaitIdle
    /\ Next_(c, "Stop")
    /\ Goto(c, "idle", "close")
    /\ UNCHANGED <<queues, counters, history, taking, transit, todo, old_count>>

PlainJoin(c) ==
    /\ ~WithWaitIdle
    /\ Goto(c, "join", "idle")
    /\ \A w \in Workers : pc[w] = "exited"
    /\ todo' = [todo EXCEPT ![c] = Tail(@)]
    /\ UNCHANGED <<queues, counters, history, taking, transit, old_count>>

------------------------------------------------------------------------------
Waiting == Range(global_queue_) \cup (UNION {Range(local_queues_[w]) : w \in Workers})
           \cup ({lifo_slots_[w] : w \in Workers} \ {Null})

\* Variant: the global queue is forgotten.
Destroy_LocalOnly(c) ==
    /\ Next_(c, "Destroy")
    /\ \A b \in Clients : pc[b] = "idle" /\ (b # c => todo[b] = << >>)
    /\ discarded' = discarded \cup (Waiting \ Range(global_queue_))
    /\ local_queues_' = [w \in Workers |-> << >>]
    /\ lifo_slots_' = [w \in Workers |-> Null]
    /\ todo' = [todo EXCEPT ![c] = Tail(@)]
    /\ UNCHANGED <<global_queue_, counters, submitted, finished, taking, transit,
                   pc, old_count>>

\* ~ThreadPool discards what is left.  By then nobody else uses the pool.
Destroy(c) ==
    /\ Next_(c, "Destroy")
    /\ \A b \in Clients : pc[b] = "idle" /\ (b # c => todo[b] = << >>)
    /\ discarded' = discarded \cup Waiting
    /\ global_queue_' = << >>
    /\ local_queues_' = [w \in Workers |-> << >>]
    /\ lifo_slots_' = [w \in Workers |-> Null]
    /\ todo' = [todo EXCEPT ![c] = Tail(@)]
    /\ UNCHANGED <<counters, submitted, finished, taking, transit, pc, old_count>>

------------------------------------------------------------------------------
Execute(a) == \/ ExecuteAdd(a) \/ PushGlobal(a) \/ Count(a) \/ NotifyOne(a)
              \/ PlainExecute(a) \/ PlainPushed(a)

WorkerStep(w) ==
    \/ Exit(w) \/ ChooseStrategy(w)
    \/ TakeFromLIFOSlot(w) \/ TakeFromLocalQueue(w) \/ TakeFromGlobalQueue(w)
    \/ BecomeRobber(w) \/ Rob(w)
    \/ CountTaken(w) \/ Execute(w) \/ PushLocal(w) \/ PushLIFO(w)
    \/ Move(w) \/ MoveFails(w) \/ GrabHalf(w) \/ Spill(w)
    \/ Return(w) \/ Done(w) \/ NotifyIdle(w, "notifyIdle", "loop")
    \/ Wait(w)
    \/ PlainRun(w) \/ PlainReturn(w) \/ PlainSpin(w)

ClientStep(c) ==
    \/ Execute(c)
    \/ WaitIdle(c) \/ IdleLoad(c) \/ IdleCheck(c)
    \/ StopAdd(c) \/ StopNotify(c) \/ Close(c) \/ Join(c)
    \/ NotifyIdle(c, "allDone", "idle")
    \/ PlainStop(c) \/ PlainJoin(c)
    \/ Destroy(c)

Next == /\ \/ \E w \in Workers : WorkerStep(w)
           \/ \E c \in Clients : ClientStep(c)
        /\ UNCHANGED variant

Spec == Init /\ [][Next]_vars

\* The operating system runs every thread, routines return, and clients make
\* the calls of their scripts.
FairSpec == /\ Spec
            /\ \A w \in Workers : WF_vars(WorkerStep(w) /\ UNCHANGED variant)
            /\ \A c \in Clients : WF_vars(ClientStep(c) /\ UNCHANGED variant)

------------------------------------------------------------------------------
Labels == {"loop", "take", "rob", "taken", "run", "done", "notifyIdle", "wait", "asleep",
           "exited", "execute", "move", "grab", "spill", "count", "notify", "idle",
           "idleLoad", "idleCheck", "idleWait", "stopNotify", "close", "join", "allDone"}
TypeOK ==
    /\ global_queue_ \in Seq(Routines)
    /\ local_queues_ \in [Workers -> Seq(Routines)]
    /\ \A w \in Workers : Len(local_queues_[w]) <= kLocalQueueSize
    /\ lifo_slots_ \in [Workers -> Routines \cup {Null}]
    /\ lifo_count \in [Workers -> Nat]
    /\ routines_in_queue_ \in 0..(Word - 1)
    /\ routines_wg_ \in 0..(Word - 1)
    /\ robbers_count_ \in 0..Cardinality(Workers)
    /\ closed \in [Workers -> BOOLEAN]
    /\ pc \in [Actors -> Labels]
    /\ todo \in [Actors -> Seq(Calls)]
    /\ steps \in [Workers -> Seq(Range(DefaultTakeStrategy))]
    /\ routine \in [Workers -> Routines \cup {Null}]
    /\ moving \in [Workers -> Seq(Routines)]
    /\ spilled \in [Workers -> Seq(Routines)]
    /\ old_count \in [Clients -> 0..(Word - 1)]
    /\ submitted \subseteq Routines
    /\ finished \subseteq Routines
    /\ discarded \subseteq Routines

\* The places that hold r: it waits in a queue or a slot, or is on its way
\* between queues, or about to be pushed by Execute, or taken by a worker.
Positions(s, r) == {i \in DOMAIN s : s[i] = r}
Where(r) ==
    ({"global_queue_"} \X {Null} \X Positions(global_queue_, r))
    \cup (UNION {({"local_queues_"} \X {w} \X Positions(local_queues_[w], r))
                 \cup ({"moving"} \X {w} \X Positions(moving[w], r))
                 \cup ({"spilled"} \X {w} \X Positions(spilled[w], r)) : w \in Workers})
    \cup ({"lifo_slots_"} \X {w \in Workers : lifo_slots_[w] = r} \X {1})
    \cup ({"execute"} \X {a \in Actors : pc[a] = "execute" /\ Call(a).routine = r} \X {1})
    \cup ({"routine"} \X {w \in Workers : routine[w] = r} \X {1})

\* No routine is lost, run twice or in two queues, whatever moves between the
\* slots, the local queues and the global queue: until it has returned or the
\* pool's destructor has discarded it, it is in exactly one place.
EachRoutineInOnePlace ==
    /\ finished \cap discarded = {}
    /\ \A r \in Routines :
          Cardinality(Where(r)) = IF r \in submitted \ (finished \cup discarded) THEN 1 ELSE 0

\* "routines in all queues and LIFO slots": routines_in_queue_ differs from
\* that number by the calls of Execute that have pushed and not yet counted
\* and by the routines that have been taken and not yet subtracted, so that it
\* wraps below 0 and back, but never drifts.
Stopped == \/ \E c \in Clients : pc[c] \in {"stopNotify", "close", "join", "allDone"}
           \/ \E w \in Workers : closed[w]
Queued == Waiting \cup UNION {Range(moving[w]) \cup Range(spilled[w]) : w \in Workers}
Uncounted == {a \in Actors : \/ pc[a] = "count"
                             \/ pc[a] \in {"move", "grab", "spill"} /\ todo[a] # << >>}
Unsubtracted == {w \in Workers : routine[w] # Null /\ todo[w] = << >>
                                 /\ pc[w] \in {"move", "grab", "spill", "taken"}}
CounterIsExact ==
    WithWaitIdle =>
    (routines_in_queue_ + Cardinality(Uncounted)) % Word
        = (Cardinality(Queued) + Cardinality(Unsubtracted) + Cardinality(discarded)
           + IF Stopped THEN kStopTokens ELSE 0) % Word

\* Workers never all sleep over a queued routine: one of them is awake, or
\* somebody is about to wake one.
NoLostWakeup ==
    Asleep = Workers =>
        \/ \E a \in Actors : pc[a] \in {"count", "notify", "stopNotify"}
        \/ Queued = {}

\* WaitIdle returns only when every routine submitted so far has returned, and
\* so has every routine that these submitted; Stop lets it return early.
IdleMeansDone ==
    [][\A c \in Clients :
          pc[c] \in {"idleLoad", "idleCheck", "idleWait"} /\ pc'[c] = "idle"
              => submitted \subseteq finished \/ Stopped]_vars

\* Stop and the destructor leave nothing behind.
NothingLeaks ==
    (\A c \in Clients : pc[c] = "idle" /\ todo[c] = << >>)
        => submitted = finished \cup discarded

\* A routine that was submitted runs to its end, unless the pool is stopped.
EveryRoutineRuns == <>[](submitted \subseteq finished \/ Stopped)

\* Every call of a client returns.
CallsReturn == <>(\A c \in Clients : pc[c] = "idle" /\ todo[c] = << >>)
=============================================================================
