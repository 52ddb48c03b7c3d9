# TLA+ models of the concurrency library

The library is a stack of small concurrent components: a queue spin lock, lock-free queues, thread
pools, a strand, futures, fibers with their own mutexes, and channels with `Select`. Nearly all of
its logic is a handful of atomic words that several threads change at once, and the repository has
no test suite: `main.cpp` is an example. This directory models the components step by step,
checks them with TLC on small instances and proves, with TLAPS, what can be proved for every
instance.

Paths of source files are relative to `src/`. "pool" is `Executors::WithWaitIdle::ThreadPool` unless
said otherwise.

## 1. The system

| Component | State | Operations | Uses |
|---|---|---|---|
| `QueueSpinLock` (`detail/spinlock.hpp`) | `tail_`; per `Guard`: `next_`, `owner_`, `released_` | `Guard()` / `Acquire`, `Unlock`, `~Guard` / `Release` | - |
| `WaitGroup` (`detail/waitgroup.hpp`) | `count_` | `Add`, `Done`, `AllDone`, `Wait` | futex wait / notify |
| `RingQueue` (`lockfree/ring_queue.hpp`) | `buffer_`, `head_`, `tail_` | `TryPush` (one producer), `TryPop`, `Grab` | `Intrusive::Queue` |
| `LockFree::Stack`, `LockFree::Queue` | counted head (and tail) pointers; per node: inner and external reference counts | `Push`, `TryPop`, `Clear`, destructor | CAS of an address and a count in one word |
| Thread pool (`executors/thread_pool/with_waitidle`) | LIFO slots, local rings, global queue + mutex, `routines_in_queue_`, `routines_wg_`, `robbers_count_`, `closed` flags | `Execute(hint)`, `YieldExecute`, `WaitIdle`, `Stop`, destructor; the workers | rings, wait group |
| Thread pool without `WaitIdle` | the same less the two counters | `Execute`, `Stop` | rings |
| `Strand` (`executors/strand.hpp`) | `stack_head_`, `batch_` | `Execute`, `TasksBatch::Run`, `Lock`, `Unlock` | any executor |
| `ManualExecutor` | one queue | `Execute`, `RunNext`, `RunAtMost`, `Drain` | - |
| Futures (`futures/`) | shared state: the word for callback or value, the owners' count | `Promise::Set`, `GetResult`, `Then`/`Recover`/`Subscribe`, `All`, `FirstOf` | executors |
| Fibers (`fibers/`) | coroutine, `awaiter_`, `need_to_delete_after_discard_` | `Go`, `AsyncVia`, `Schedule`, `Suspend`, `Yield`, `Await`; `Run` and `Discard` of `step_` | executors, coroutines, futures |
| Fiber sync (`fibers/sync/`) | mutex queue, waiters of a condition variable, wait-group stack | `Lock`/`Unlock`, `Wait`/`Notify*`, `Add`/`Done`/`Wait` | spin lock, lock-free stack, fibers |
| Channels, `Select` (`channels/`) | `buffer_`, waiting producers, waiting consumers and selectors | `Send`, `TrySend`, `Receive`, `TryReceive`, `Select`, `TrySelect` | spin lock, intrusive list, fibers |
| Intrusive structures | the links of the nodes | `Push`, `TryPop`, `PushQueue`, `Clear`; of the list `PushBack`, `TryPopFront`, `Unlink` | - |
| Coroutines, `AtomicSharedPtr` | context switching; unfinished code | - | Boost-like context |

How they interact:

* A **client thread** calls `Execute`, `WaitIdle`, `Stop` and the destructor of a pool. A **worker**
  loops in `WorkerRoutine`: it takes a routine from its slot, its ring, the global queue or another
  worker's ring and runs it; the routine may call `Execute` again, with a hint that names the slot,
  the ring or the global queue. Client and workers meet in the global queue (a mutex), the rings
  (lock-free) and two counters that threads sleep on.
* A **strand** is itself an executor: it collects routines in a lock-free stack and hands them, as
  one routine (`batch_`), to a pool. The same `batch_` object is used again for the next batch.
* A **fiber** is a routine. To block, it suspends its coroutine with an awaiter; the worker then
  calls `awaiter->AwaitSuspend`, which publishes the fiber (in a mutex's queue, a channel's list)
  and from that point on another worker may run it.
* A **future**'s consumer and producer meet in one word: the producer swaps a value in, the consumer
  a callback, and whoever is second runs the callback.

What is hard in each of them, and what would make it correct:

* *Spin lock*: the successor writes into its predecessor's `Guard`, and the holder into its
  successor's. Exclusion, FIFO order, no write to a `Guard` that has left the stack, no hang.
* *Ring*: items are read **before** the CAS that takes them, from slots that the producer may be
  about to reuse. Each item goes to exactly one taker, oldest first; "empty" is said only of an empty
  ring; the list that `Grab` builds is the grabbed items.
* *Pool*: work moves between four kinds of queue without a common lock; the counter that workers
  sleep on is changed after the push and after the take, so it wraps below zero. No routine is lost or
  run twice, no wakeup is lost, `WaitIdle` waits for spawned work too, `Stop` and the destructor
  terminate and lose nothing.
* *Strand*: between the push onto `nullptr` and the CAS to `kClosed`, and between an empty batch and the
  CAS back, others push. One owner at a time, push order, nothing forgotten.
* *Lock-free stack and queue*: a node is freed by the last thread that looked at it; 16-bit counts.
* *Futures*: the callback runs exactly once, and the shared state is deleted once, after the last use.
* *Fibers*: a fiber can run on a second worker while the first is still in its `AwaitSuspend` or about
  to `Discard` it. No step runs twice at the same time, none is lost, nothing is used after it is freed.
* *Fiber sync, channels*: no lost wakeup between a check and the publication of the waiter; a `Select`
  that waits in several channels is given exactly one value.

`PROJECT.json` lists the components and, under "hazards", the places in the code where each of these
bites.

## 2. The modules

| Module | Models | Specification it is shown to implement |
|---|---|---|
| `QueueSpinLock` | `detail/spinlock.hpp` | `FifoLock` |
| `RingQueue` | `lockfree/ring_queue.hpp`, with `Push` and `Clear` of `intrusive/structures/queue.hpp` | `BoundedFifo` |
| `Strand` | `executors/strand.hpp` | `SerialExecutor` |
| `ThreadPool` | both pools, `executors/thread_pool/*`, and `detail/waitgroup.hpp` | - |
| `LockFreeQueue` | `lockfree/queue.hpp` | `BoundedFifo` |
| `LockFreeStack` | `lockfree/stack.hpp` | `LifoStack` |
| `Futures` | `futures/*`, with what `intrusive/tasks/default_task.hpp` does to a discarded routine | `OneShot` |
| `Fibers` | `fibers/fiber.*`, `fibers/fiber_handle.hpp`, `Go` and `Self` of `fibers/api.hpp`, the awaiters that yield or release a `Guard`, as `fibers/awaiters.hpp` has them | - |
| `FiberSync`, which extends `Fibers` | `fibers/sync/*`, `WaitGroupAwaiter` | `FifoLock` |
| `IntrusiveList` | `intrusive/structures/list.hpp`, as operators on the links | - |
| `Channels`, which extends `Fibers` | `channels/*`, with the awaiters of channels; it has an `IntrusiveList` | `FifoChannel` |
| `FiberFutures`, which extends `Fibers` | `Await` and `AsyncVia` of `fibers/api.hpp`, `FutureAwaiter` | - |
| `FiberLibrary` | the composition of the last four | |
| `QueueSpinLockProofs`, `RingQueueProofs`, `StrandProofs`, `ThreadPoolProofs`, `FuturesProofs`, `LockFreeStackProofs`, `LockFreeQueueProofs` | the theorems about the module each is named for | |
| `SequenceFacts` | lemmas about sequences as queues, sizes of sets and recursive functions that the proofs share | |
| `MC...` | instances for TLC | |

Conventions, the same in all modules:

* **A step is one access to shared memory** and the thread's local computation up to the next access.
  `pc[t]` says which access is next. Variables have the names of the members they model (`tail_`,
  `stack_head_`, `routines_wg_`); locals that survive a step are functions from threads (`old_tail_`,
  `result`, `steps`). Variables marked "history" do not exist in the code and no guard reads them.
* **Memory order.** The steps are interleaved (sequential consistency). The library's spin lock and
  rings publish with release and read with acquire; the strand's `Unlock` is relaxed, which on x86
  changes nothing but is listed as a hazard that these models cannot see.
* A `compare_exchange_weak` that fails spuriously only repeats itself and is a stuttering step.
* **Random choices** (which strategy a worker tries, which worker it robs) are existential quantifiers.
* **Routines** are model values; what a routine does that matters here is which calls it makes
  (`Spawns`). It returns after finitely many of them.
* Operators such as `CasTail_Store` or `Wait_Blindly`, marked *Variant*, are not part of any
  specification: they are the mutated forms of the definition that follows them, used to show that
  each property does fail when the code has the bug the variant describes.

### QueueSpinLock

One `Guard` per thread, named by the thread: a thread that comes back builds its `Guard` at the same
address, so pointers kept from an earlier round would hit the new one. `Construct` is the constructor
with Acquire's first load; `CasTail`/`CasTailFails`, `Link` and `Spin` are the rest of `Acquire`;
`CasRelease`/`CasReleaseFails`, `ReadNext` and `Grant` are `Release`, called by `Unlock` (which then
sets `released_`) or by the destructor (which does not release twice). `line` is a history variable:
the order in which Guards entered the chain.

### RingQueue

Items are the sequence numbers of their pushes, so "slot `s` holds item `k`" says which round of the ring
wrote it. `PushBegin`, `Store`, `Publish` are `TryPush`; `PopLoadHead` ... `PopCasFails` are `TryPop`;
`GrabLoadHead`, `GrabLoadTail`, `Copy`, `GrabCas`, `GrabCasFails` are `Grab`, whose loop reads one slot
per step and links the node into the caller's list in the same step, as `Queue::Push` does: `next` is
the nodes' own pointer, shared by everybody who holds the node. `Drain` is the caller's emptying of the list.

### Strand

`stack` and `base` are the chain behind `stack_head_`: routines over `nullptr` or over `kClosed`.
`Execute`, `Push`/`PushFails` are `PushInStack`; `LockLoad`, `Close`/`CloseFails`, `Hand` are `Lock`
(`MakeQueue` is the reversal in `Close`); `Take` is the underlying executor that starts the batch it was
handed; `RunNext`, `Finish`, `BatchEnds`, `Open`/`OpenFails` are `TasksBatch::Run` and `Unlock`.
`handed` counts how often `&batch_` is in the underlying executor: since it is one object, more
than once would be a disaster, and `OneOwner` excludes it.

### ThreadPool

The workers start in `loop`: the constructor's start barrier is the initial state. `ExecuteAdd`,
`PushGlobal` / `PushLocal` / `PushLIFO`, `Count`, `NotifyOne` are `Execute`, called by a client or by the
routine that a worker runs. `Move`, `MoveFails`, `GrabHalf`, `Spill` are `PushRoutineInTheLocalQueue` with its
retreat to the global queue. `ChooseStrategy` and the `Take...` actions are `TryTake`; `BecomeRobber`
and `Rob` are the stealing; `CountTaken`, `Return`, `Done`, `NotifyIdle`, `Wait`, `Exit` are the rest of
`WorkerRoutine`. `WaitIdle`, `IdleLoad`, `IdleCheck` are the client's wait; `StopAdd` ... `Join` and
`Destroy` are `Stop` and the destructor.

A ring's operation is one step here and its items come out in order: this is what
`ImplementsBoundedFifo` and `NothingMeansEmpty` show of `RingQueue`. The one promise of the ring that
does not hold, the intact list of a `Grab` (finding 1 below), is assumed to hold in the pool.
Nobody submits a routine that is submitted already (`Submits`): a routine object may be used again once it has returned, and then counts as another one.
A client has no `thread_id` and uses the global queue, as `Execute(routine)` does for it; a client
that names another hint would index an array with -1.

The pool without `WaitIdle` is the same code without the two counters, and so the same module: `variant` says which pool
an execution is about. Its `Execute`, `WorkerRoutine` and `Stop` are the actions named `Plain...`; the pushes, the takes, `Close`, `Exit`
and `Destroy` are shared. Its idle workers spin (`PlainSpin`), so its liveness does not rest on a notification.

### Futures

A contract is a `FutureValue`: `callback` (the word: empty, `kValueIsSet`, or a callback), `value`, and
`owners_count`. A client runs a program of calls, each of which consumes the futures `at` and may make the
contract `to`; `todo` is what is left of it. `Execute`, `Attach`, `SetCallback`, `SubmitCallback`, `GetResult`,
`Wait`, `Read`, `DropFuture` are the consumer's side. `Run`, `RunSubscriber`, `RunAll`, `RunFirstOf` with
`Compare` are the bodies of the callbacks, and `SetValue`, `Exchange`, `Invoke`, `Notify`, `DropPromise` are
`Promise::Set` and the end of the Promise. `group[to]` holds the call that made a contract and the shared
count of `All` or `FirstOf`.

Four decisions deserve a word. The executor is a bag: a worker takes any routine in it, which covers every
executor of the library. A load of `callback` followed by a compare-and-swap loop is one exchange, since the
value loaded is used for nothing else. The functors are opaque: a `Then` or `Recover` functor gives a value or
throws, and both are tried. And `FirstOf`'s comparison with `futures_count` after its object has been
deleted is undefined, so `Compare` chooses either answer.

What a program may be is `ProgramAssumption`. A `Future` is moved into the call that uses it, so the future of a contract is made by one call and used by one
later call, of the same client: handing it to another thread is a move that touches one thread's data. `WellFormed` says how many futures a call takes. `All` and
`FirstOf` of no futures are excluded, whose futures nobody would make ready, and so is `FirstOf` of more than two (section 4).

`Stop` may happen at any moment and `Discard` then destroys what is left, after the workers have finished,
as the pool's destructor does. Nobody makes the future of a discarded routine ready, so the properties about
delivery and deletion are asked of executions in which the executor is not stopped.

### Fibers and FiberLibrary

`Fibers` has what a worker does with a fiber. `scheduled[f]` counts how often `step_` is in the executor, which may
run its routines in any order. A worker takes one (`Resume`, stage `run`), and while it is in that stage the fiber's
own actions are enabled. `Suspend` and `Complete` are the switches back; then come the awaiter's `AwaitSuspend`
(stage `await`, and `flag` where it releases a `Guard`), `Discard` and, when the fiber only suspended, `Rearm`, which sets
`need_to_delete_after_discard_` again. The flag is a plain `bool` that the fiber and an earlier worker of it write
without order, so `Discard`'s test and its assignment are two steps.

*Runners* are fibers and other threads; each executes a sequence of calls, `todo`, chosen in `Init`. A thread cannot block on the objects of
this library and so makes only the calls that do not suspend. Most calls hold the spin lock of their object through a `Guard`, which is a place in
`line`: this is the lock that `QueueSpinLock` is proved to be. `Acquire` gets in line, `Inside` says that it is this Guard's turn, and
`Unguard` is the destructor at the end of the call. A fiber that must wait suspends with its `Guard` still in line, and its worker releases
it in `AwaitGuard`; `SetReleased` is the later assignment of `released_`, which the fiber's own `~Guard` reads.

`FiberSync`, `Channels` and `FiberFutures` add calls and the `AwaitSuspend` of their awaiters; each leaves the others' variables to `FiberLibrary`, which
composes them. `FiberInOnePlace` and `EveryFiberFinishes` are stated there, since a fiber that waits for a channel may hold a mutex.

### FiberSync

`Lock`, `Enqueue`, `Unlock`, `Notify`, `NotifyEnds` are the calls of `Mutex` and `ConditionVariable` inside their spin locks.
`ConditionVariable::Wait` is its three parts, `Unlock`, `CvQueue` and `Lock`, and `WaitUntil` the caller's loop around it.
`Add`, `Done`, `TakeStack`, `ResumeAwaiter`, `DoneReturns`, `Wait`, `PushInStack`, `AwaitWaitGroup` are the wait group;
`resumed` is the exchange by which `ResumeAwaiters` and `AwaitSuspend` agree on who schedules the fiber.

`EveryFiberFinishes` has an exception, `Forgotten`, which the code makes necessary: `WaitGroup::Wait` loads the
count and pushes its awaiter later, without looking again. If the last `Done` empties the stack in between, which it
can when it is called by a thread outside the executor, the fiber stays in the list until the count goes up and
comes down to zero once more. The other exception, a producer or consumer of a channel that nobody else uses any more, is the caller's doing.

### Channels

`buffer_[c]` is the ring between `head_` and `tail_`, `producers_queue_[c]` the fibers that wait because it is full, and `consumers_queue_` the memory of
all lists of awaiters, link by link, because `Intrusive::List` is not a sequence once it has been empty (finding 4). Where the code would use `nullptr` as a node, `IntrusiveList` sets
`broken`, and `TypeOK` says that this does not happen. An awaiter is named by its fiber and
its place among the arguments of `Select`, 0 for `Receive`: it is an address on the fiber's stack, which the fiber's next call uses again.

`SendToConsumer`, `SendToBuffer`, `SendWaits`, `TrySendFails` are the outcomes of `Send` and `TrySend`; `Receive`, `ReceiveWaits`,
`TryReceiveFails` those of `Receive` and `TryReceive`. After a value has left the buffer `Refill` pops the first producer and schedules it, and `MoveValue` then
moves the value out of its awaiter: two steps, because the code calls `Schedule` first. In between the producer may leave `Send`, and its awaiter then holds anything. `Select` builds its awaiters,
shuffles them with the channels exactly as the code does (`Permuted`, where an awaiter that ends in the first place keeps its old index) and calls
`SelectorReceive` or `SelectorWaits` for each channel, then suspends; `SetQueue` is a step of its own. A `Select` that finds a value executes its own `Resume`, and refills the buffer after it. `Unlink` and `SetIsResult` are `SelectorAwaiter::Resume`: it
leaves the lists of the other channels and then agrees, through `is_result_set`, with `AwaitSelect` on who schedules the fiber. `TrySelect` is a
`TryReceive` of each channel in any order.

`got[a]` is what a runner has received. `ImplementsFifoChannel` maps the queue of a channel to its buffer followed by the value that `MoveValue` is about to
move and those of the producers that wait, so a producer's value counts as sent when its awaiter is queued. `NobodyWaitsInVain` leaves out the producers of a channel whose
spin lock is held by one who has taken a value and has still to refill (`Refilling`).

### FiberFutures

`callback[c]` is the word of a `FutureValue`, with the fiber whose `FutureAwaiter` is subscribed in place of the callback. `Await` returns or suspends; `AwaitFuture` is
its `Subscribe`, on the worker; `SetPromise` is `Promise::Set`, at the end of a fiber made by `AsyncVia` or in a thread; `RunCallback` is the routine by which the executor
brings the value to the fiber and schedules it. The lifetime of the value is the business of `Futures`. `FiberInOnePlace` says of all this that the
fiber is scheduled once, whoever comes first.

### LockFreeQueue

`head_`, `tail_` and `next` are counted pointers; `node[n]` is the node at address `n`, or `Null` when nothing lives there, and
`Push` takes any free address. `ViewTail` and `ViewHead` are `IncreaseExternalCount`; `Link`, `LoadNextTail`, `Swing`,
`ReleaseTail` are the rounds of `Push`, and `LoadTail`, `LoadNextHead`, `Help`, `ReleaseHelped`, `SwingHead`, `Read`, `ReleaseHead` those of
`TryPop`. `ReleaseRef` ends a round of either. `Add` is the `fetch_add` on `internal_count` with the deletion that may follow it.
`Destroy` is the destructor, which walks the list from `head_`. The count of a pointer is taken modulo `kCounts`, as the 16 bits
of the code are.

The abstract queue is the list behind `head_`: `Push` takes effect in `Link` and `TryPop` in `SwingHead`. It is bounded by the number of addresses, since the first
node of the list holds no value. The
property about deletion, `NodesReclaimed`, says that nobody reads a node that is gone (`OnlyLiveNodes`) and that after the destructor none is
left (`NothingLeaks`); since addresses are used again, a node deleted too early also shows as a wrong item in `ImplementsFifo`.

### LockFreeStack

The same conventions for the stack. `Push` makes the node and `Link` is its compare-exchange loop. `ViewHead` and `FindsNothing` are `IncreaseExternalCount`, for a
`head_` with and without a node; `LoadNext` reads `old_head->next`, as the argument of the compare-exchange `Swing`, before it; `Read` takes the value, `Release` adds
`count - 2` to the popped node's `internal_count`, and `Leave` is the failed round that gives up its view. `Clear` is `TryPop` until it finds nothing. The abstract
stack is the list behind `head_`, popped in `Swing`. A node's `next` keeps the count that `head_` had when the node was pushed, and `Swing` brings it back: this
is why the views of a node survive its being covered by another one.

## 3. What is checked

| Run | Instance | Properties | What it shows |
|---|---|---|---|
| `spinlock` | 3 threads, for ever | `TypeOK`, `MutualExclusion`, `GuardsAlive`, `GrantedInOrder`, `NobodyHangs` | one holder; no access to a `Guard` that has left; FIFO; every waiter enters; `Release` ends |
| `ring` | owner and one thief, capacity 2, 5 pushes, grabs of 1 or 2 | `TypeOK`, `ImplementsBoundedFifo`, `NothingMeansEmpty` | reading before the CAS is right: only the thief whose CAS succeeds uses what it read, and that is the oldest items |
| `ring_copies` | the same, grabs of 2, 3 pushes | `GrabbedListIntact` (violated) | finding 1 |
| `strand` | 2 clients, 2 workers, 5 routines of which 2 submit another | `TypeOK`, `OneOwner`, `ImplementsSerialExecutor`, `EveryRoutineRuns` | one batch in flight, push order, nothing forgotten |
| `thread_pool` | 2 workers, 5 routines; two clients with `WaitIdle`, `Stop` and the destructor; a routine that submits 3; the pool without `WaitIdle`, stopped at any time | `TypeOK`, `EachRoutineInOnePlace`, `CounterIsExact`, `NoLostWakeup`, `NothingLeaks`, `IdleMeansDone`, `EveryRoutineRuns`, `CallsReturn` | displacing, overflowing, sharing and stealing lose and duplicate nothing; no worker sleeps over a routine it is needed for; `WaitIdle` returns when all is done, and every call returns; what is never run is discarded |
| `futures` | 1 client, 2 workers, 3 contracts; four programs | `TypeOK`, `ValuesReclaimed`, `ResultsFollow`, `ImplementsOneShot`, `EverythingSettles` | a result is handed on once, and is in the end: every `GetResult` returns and every callback has run; values are deleted once, after their last use; results follow from their inputs |
| `first_of` | the program with `FirstOf` | `FirstOfDelivers` (violated) | finding 2 |
| `fibers` | 3 fibers on a strand, 2 other threads, 2 channels; nine programs | `TypeOK`, `FiberInOnePlace`, `NobodyWaitsInVain`, `ImplementsFifoLock`, `ImplementsFifoChannel`, `EveryFiberFinishes` | the mutex is a FIFO lock across suspension, a channel a FIFO however a value gets through it; no fiber runs twice at once, waits for what is there, or is forgotten |
| `fibers_pool` | 2 fibers that yield, on 2 workers | `SuspendedNotDeleted` (violated) | finding 3 |
| `channels_list` | 1 fiber that receives, 1 that sends twice | `PopsWaiting` (violated) | finding 4 |
| `lockfree_queue` | 2 threads with 3 pushes and 3 pops, or 3 threads with 2 and 2; 4 addresses | `TypeOK`, `NodesReclaimed`, `ImplementsFifo`, `NothingMeansEmpty`, `SurvivorFinishes` | a FIFO; nodes are deleted once, by the last who looks; a thread finishes when the others stop |
| `lockfree_stack` | 3 threads with 3 pushes and 3 pops, or 3 pushes, a pop and a `Clear`; 3 addresses | `TypeOK`, `NodesReclaimed`, `ImplementsLifo`, `SurvivorFinishes` | a LIFO, though addresses recur in `head_`; nodes are deleted once, by the last who looks; a thread finishes when the others stop |

Every property of a passing run has a mutant in `PROJECT.json`: a form of one of the operators, with a bug
of the kind one makes in this code, under which the property fails in that very run. A bound that never
lets the interesting case happen would leave its mutant alive.

**Bounds and why they are enough.**

* *Spin lock.* No counter, so the state space of three threads is finite as it is. Three gives a holder,
  its successor and a thread that links behind the successor; the theorems cover the rest.
* *Ring.* With capacity 2 the buffer has 3 slots, and `MaxPush = 5` writes two of them a second time, so an old
  `head_` meets a slot of the next round. Numbers of pushes are unbounded in the code only by 2^64.
* *Strand.* `r1` submits `r4`, which submits `r5`: a batch grows while it runs and the strand is
  taken up again by a routine it has just run. Two workers are enough to have one still in `Unlock` while
  the other starts the next batch.
* *Pool.* `kLocalQueueSize = 2` instead of 1024: a third routine makes the ring overflow, which moves 1 to the global queue, and a
  worker that takes from the global queue shares 1 more. A robber takes a quarter of the size in the code, which of 2 is nothing; with `kRobbedPart = 1`
  it takes up to 2, one that it runs and one for its own ring. `kMaxLIFORoutinesCount = 1` instead of 20 lets the
  limit be reached. `kStopTokens = 8` stands for the `10^12` that `Stop` adds to the counter and `Word = 16` for
  `2^64`: as in the code the counter can go below zero and wrap, and there are more tokens than takes that
  could use them up. `r1` has three ways to submit its routines, which use the slot, the ring beyond its capacity, or the global queue.
* *Futures.* The programs are a chain of `Then` and `Recover` ending in `GetResult`; `All` and `FirstOf` of two
  futures, subscribed to; a future that is dropped before or after its promise is set. Two workers
  let the two callbacks of a group run at once, and one of them beside a `Promise::Set`.
* *Fibers.* One worker stands for a strand, which is proved to run one routine at a time; it is the executor for
  which finding 3 does not apply. The other threads still make every call that does not block at any moment. One
  program has a mutex held across a `Yield`, with a condition variable that is notified with and without reason; others
  have a wait group with waiters before, during and after the last `Done`, and `AllDone`; one has futures set by a fiber and by a thread, one of them awaited
  with the mutex held.
* *Channels.* Capacities 1 and 2 and three producers, two of them with a mutex, fill a channel and make producers wait while a fiber's `TryReceive` and `TrySelect`
  empty it (`Producing`). Two fibers wait in line for room while a third takes their values with `Select` and `Receive`, and a thread tries to get ahead of them (`Handing`). Two fibers that `Select` from both channels and one that receives meet a value that comes through the one or the other (`Selecting`),
  before, between and after their calls of `Receive`. `kArgsCount = 2`, the least for which anything is to unlink. Because of finding 4 a program lets **at most
  one value go through a waiting consumer of a channel**, and because of the limits of `Select` below at most one through all channels that a selector waits for; without these bounds
  the properties fail. For the same reason **no thread outside the executor takes a value while a producer may wait** (see `MoveValue` in section 4): of the threads only main receives, from a channel that is never full.
* *Lock-free queue.* Four addresses are as many as the nodes of the longest program, so `Push` never waits for one, and a
  node popped early may still give its address to a later one. *Lock-free stack.* The same with three addresses and `MaxCount = 4`. The threads other than `Survivor` may stop anywhere, and do stop when they
  would raise a count beyond `MaxCount = 3`: two of them then look at a node together with the survivor. This makes the runs finite,
  since the code lets two threads that keep invalidating each other's compare-and-swap go on for ever
  (each view changes the word the other compares). `kCounts = 50` is out of reach in the passing run, and
  `kOneCounter = 100` is more than all views together, as `2^60` is.

**Deadlock** is checked for the spin lock and the ring, where somebody can always move.
The other runs have executions that end because the work is done or the object is destroyed, so their
configurations switch the check off and leave "somebody is stuck" to the liveness properties.

**Fairness** is weak fairness of each thread's own steps, and nothing else: the operating system runs every
runnable thread. It is not assumed that

* a thread asks for the spin lock at all (`Construct` has no fairness);
* a compare-and-swap of a particular thread ever succeeds: `NobodyHangs` begins once the `Guard` is in the
  chain, and in the other runs a loop fails only because of steps of others, of which there are finitely many;
* a fiber moves by itself: it moves with the worker that runs it, whose fairness covers the fiber's steps;
* the threads other than `Survivor` in `LockFreeQueue` and `LockFreeStack` take any step;
* a stopped executor runs, or is ever stopped (`Stop` and `Discard` in `Futures` have no fairness).

It is assumed that a routine, a functor or a critical section ends. `notify_one` wakes one of the sleepers, any of
them; a thread in `atomic::wait` is a process whose step is disabled until it is notified and that then
loads the word again.

## 4. Findings

1. **`Grab` writes into nodes it does not own** (`ring_copies`, `lockfree/ring_queue.hpp:72`). The comment says a copy that
   is thrown away did nothing, but `queue.Push(node)` writes `next` in the nodes before the CAS decides. A
   thread that has already grabbed them may find its list cut short: the routines behind the cut are
   never run, and `routines_in_queue_` and `WaitIdle` then wait for them for ever.
2. **`FirstOf` reads a deleted count** (`first_of`, `futures/api/first_of.hpp:28`). The first callback compares with
   `futures_count` after its decrement; the last callback may have deleted the object in between. If
   the comparison then fails, the first result is lost and a waiting `GetResult` hangs.
3. **One flag for two pending `Discard`s** (`fibers_pool`, `fibers/fiber.hpp:82`). A fiber that suspends clears
   `need_to_delete_after_discard_` so that its worker does not delete it. On a pool it may be resumed by a second worker and suspend
   again before the first worker has come to its `Discard`. Of the two `Discard`s that are now due the first sets the flag and
   the second deletes the fiber, which is suspended and will be run. On a strand the routine ends before the
   next begins, and the flag is right.
4. **A list of one node is circular** (`channels_list`, `intrusive/structures/list.hpp:43`). `PushBack` onto an empty list calls `PushFront` and goes on: the
   node is linked to itself and counted twice. "Return nullptr if queue is empty" (line 53) then fails: once the only consumer of a channel has been popped and given its value, the
   list still has it. The next `Send` pops it again, overwrites the result and schedules the fiber a second time; when
   the fiber has gone on, the awaiter is a dead object on its stack. A channel on which one fiber
   receives and two values are sent is enough.

Other differences were met while modelling and have no run of their own:

* *`Select` and a second value.* `SelectorAwaiter::Resume` (`fibers/awaiters.hpp:185-195`) leaves the lists of the other channels without holding their spin locks, and nothing
  keeps two channels from giving a value to the same selector: each `Resume` assigns `result_`, and the second value is lost. In addition, a `Resume` between
  `PushBack` and `SetQueue` of another channel does not see that list and leaves an awaiter in it. When a program sends one value through
  each of two channels that a fiber selects from, `ImplementsFifoChannel` and `FiberInOnePlace` fail.
* *A producer is scheduled before its value is read.* `ChannelProducerAwaiter::Resume` (`fibers/awaiters.hpp:120-123`, called at `channels/channel.hpp:89-94`) schedules the
  fiber and then moves `result_` out of the awaiter. The fiber's `Guard` has been released already, so nothing holds it back: while another thread, in `TryReceive` or
  `TrySelect`, is between the two, a worker may run the fiber out of `Send` and the awaiter is gone. `MoveValue` then puts any value in the buffer: with a thread that calls
  `TryReceive` twice on a channel of capacity 1 to which two fibers send, `ImplementsFifoChannel` fails. A fiber that receives on the strand is not interrupted, so for `Receive`, `Select` and the fibers' `TryReceive` the property holds.
  The repository says nothing about it, in a comment or a test.
* *`Select` and its indices* (`channels/select.hpp:288`). The shuffle tells an awaiter its new place only when it is swapped to the back, so the awaiter that ends in the first
  place may keep the index of another one. Its `SetQueue` then names the wrong list, or its `Resume` skips the wrong one. The model has this permutation; within the
  bounds above it costs nothing but an awaiter left behind.
* *`FirstOf` of three* (`futures/api/first_of.hpp:28`). The comparison of finding 2 can also succeed where it should not: the second of three callbacks may
  compare after the third has deleted the object, take itself for the first and set the promise again. Finding 2 shows the rest with two inputs.
* *The count of viewers wraps* (`lockfree/queue.hpp:74`, `lockfree/stack.hpp:65`). A `TryPop` of an empty queue raises the 16-bit
  count in `head_` and never lowers it; after 65535 of them the carry is lost, and the node is never deleted. With `kCounts = 4`, four polls of an empty queue, a push and a pop,
  `NodesReclaimed` of `LockFreeQueue` fails. In the stack the count of a `nullptr` goes the same way, without harm by itself.
* *`robbers_count_`.* "we must maintain the invariant `robbers_count_ <= workers_.size() / 2`" (`executors/thread_pool/with_waitidle/thread_pool.hpp:146-147`): the counter goes up to
  `workers_.size()`, is never decremented, and then nobody steals again; this costs speed but no routine, since every
  worker still looks in the global queue.
* *`WaitGroup::Wait` of fibers* misses a wakeup, as described under `FiberSync`.
* *`ManualExecutor::HasTasks`* (`executors/manual_executor.hpp`) returns `queue_size_ == 0`, the opposite of its name.

## 5. What is proved

TLAPS checks the following for every value of the constants: any number of threads, routines and contracts,
any capacities, scripts and programs. All assumptions are the named `ASSUME`s of the modules, which TLC evaluates on every run:

* `NullAssumption`: `Null` is not a thread.
* `RingAssumption`: the owner is not a thief, the capacity is at least 1, nobody grabs 0 items; there are finitely many pushes, as in the code fewer than 2^64.
* `StrandAssumption`: clients and workers are disjoint, scripts are sequences of routines, and the two marker values are different and no routines.
* `PoolAssumption`: clients and workers are disjoint and finitely many, and there are two workers at least (`assert(workers > 1)`,
  `executors/thread_pool/with_waitidle/thread_pool.cpp:10`); routines are finitely many; `Stop` is called once, since a thread is joined once; nobody calls `WaitIdle` of the
  pool that has none; and the tokens of `Stop`, the routines and the workers together are fewer than the counter's word has values, 10^12 and the rest against 2^64.
* `StackAssumption` and `QueueAssumption`: there are finitely many addresses, `Null` is none of them nor an item or a node, programs are sequences of calls, a count
  has at least two values (queue: three), and the queue's `kOneCounter` is at least the number of values of a count (`2^60` against `2^16`).
* `FuturesAssumption` and `ProgramAssumption`: clients and workers are disjoint, marker values are different, and a program is as section 2 says.

**`QueueSpinLockProofs`.** `TypeCorrect`, `LockIsExclusive` (`MutualExclusion`), `GuardsStayAlive`
(`GuardsAlive`), and `ImplementsFifoLock` (`GrantedInOrder`), the refinement of `FifoLock`. Mutual exclusion is
not inductive: it depends on who links to whom. The inductive invariant speaks about `line`, the order in which
the Guards entered the chain, in five parts. `Membership`: a thread is in the line exactly between its CAS and the end of its
`Release`, and once. `HeadInv`: only the head of the line can hold the lock or be granted it. `ChainInv`: who has
linked itself is the `next_` of the one before it, and nobody else is. `TailInv`: `tail_` is the last in line or `Null`.
`LocalInv`: what a thread has remembered (`old_tail_`, the successor it read) still means what it meant.

**`StrandProofs`.** `TypeCorrect`, `StrandHasOneOwner` (`OneOwner`) and `StrandIsSerial`
(`ImplementsSerialExecutor`): whatever routines are submitted and by whoever, the strand runs them one at a time, in the order of
their pushes. The argument is a token. Who pushes onto `nullptr` makes it; it is held by the thread in
`Lock`, then by the entry in the underlying executor, then by the worker in `TasksBatch::Run`, and is destroyed by the CAS of
`Unlock`. `OwnerInv` says that there is at most one, `HeadInv` that there is one exactly while `stack_head_` is not
`nullptr`, `BatchInv` that the queue in the holder's hands and `batch_` are empty unless the token is
there, and `PlaceInv` where a thread can be. With these, every step leaves the concatenation of `batch_`, the queue and the reversed stack
as `SerialExecutor` wants it: a push appends to it, starting a routine removes its head, and moving the stack into
a batch changes nothing.

**`RingQueueProofs`.** `TypeCorrect`, `RingIsBoundedFifo` (`ImplementsBoundedFifo`) and `NothingMeansEmptyHolds`
(`NothingMeansEmpty`). The abstract queue is the items at positions `head_` to `tail_`. `PositionInv`: the two are at most `Capacity` apart and
only the owner pushes. `SlotInv`: position `i` still holds the item `i + 1`, which rests on `Capacity + 1` positions in a row having different slots (`DivMod` and the lemmas after it).
`ProgressInv`: how many items a thread has read, and that it asked for no more than there were. `LoadedInv` is the heart: what a thread has read from slots
that the owner may meanwhile have written again is right **as long as `old_head = head_`**, and that is what its CAS tests. When the CAS succeeds,
`BoundedFifo` takes exactly those items; when it fails, what was read is thrown away. That `tail_` may be older than `head_` when `TryPop`
and `Grab` see an empty ring does no harm: `old_head <= head_` and neither counter ever goes down.

**`ThreadPoolProofs`.** `TypeCorrect`, `EachRoutineIsInOnePlace` (`EachRoutineInOnePlace`), `CounterStaysExact` (`CounterIsExact`), `NoWakeupIsLost`
(`NoLostWakeup`) and `IdleMeansAllDone` (`IdleMeansDone`), all for both pools. `PlaceInv` gives a routine one kind of place (not yet submitted, in the hands of `Execute`, one
of the queues, in transit, at a worker, finished, discarded) and one actor to be at, which makes places exclusive although there are many queues; `OnceInv` adds that
no queue holds it twice. `WorkerInv`, `CallInv` and `ScriptInv` say which locals are in use at which label and that `Stop` is called once. Each step is then shown to move
one routine, or a part of a queue, from one place to another (`Places`). The counters go through zero, so they are compared with the sizes of sets *modulo `Word`*: `QueueCountInv` says that
`routines_in_queue_` and the pushes not yet counted are the routines queued, the takes not yet subtracted, the discarded routines and `Stop`'s tokens; `WaitGroupInv` that the count of `routines_wg_` is
the routines submitted and not finished, and the workers that are still in `Done`. A count that is congruent to the size of a small set is 0 only if the set is empty, which is
what `WaitIdle` relies on; this is where the assumption about the word is used. `SleepInv` says that when all workers sleep and the counter is not 0, somebody is about to notify.
`NothingIsLeaked` is `NothingLeaks` for clients that are `Orderly`: among their calls is `Stop`, and the last call of one of them is the destructor. The code asks for no less, since the destructor asserts
that the pool was stopped (`executors/thread_pool/with_waitidle/thread_pool.cpp:29`); whoever submits while `Stop` runs, or after it, is allowed. The argument is `ClosingInv`: as long as some worker has not left, `Stop` is
still to be called or not over, so the last destructor finds all workers gone, all that was submitted in a queue (`PlaceInv`), and discards it. Two of the three scripts of `thread_pool` are orderly;
the third ends with `WaitIdle` and no destructor, and for it `NothingLeaks` is model-checked.

**`FuturesProofs`.** `TypeCorrect`, `ValuesAreReclaimed` (`ValuesReclaimed`), `ResultsAlwaysFollow` (`ResultsFollow`) and `ContractsAreOneShot` (`ImplementsOneShot`), the
refinement of `OneShot`. None of these is inductive, because who may touch a contract next depends on all the work that leads to it. The invariant follows that work. The value of a contract
becomes `Moved` when it goes into a routine, so it marks that this routine exists; `WorkInv`, `OnceInv` and `SetterInv` say that there is no second one, and that one worker at a time has a
contract's promise. `ProgramInv`, `ClientInv` and `GroupInv` carry what the assumption says of programs to the calls that are left: a future is used by one call, after it was made.
`ContractInv` and `MeetInv` are the protocol of the word `callback`, from either side. `OwnersInv` counts the owners: one if the future is still in somebody's hands (`Owned`), one if the
promise is (`Promised`). `CountInv` says that the count of a group is the number of its inputs not yet counted, `CompareInv` which decrement a `FirstOf` callback has seen, and `UnsetInv`
that a promise is not set before the last input of its group (for `FirstOf`, the first) is counted: this is why no promise is set twice, and why `All` is not deleted under a callback. `FollowInv` relates
what is about to be sent to what the inputs held, `All`'s slots included. `DeliverInv` says that nothing is forgotten (a result its callback has not got is on the way, a contract whose
inputs are all there is being set), from which it follows that a quiet system has no values left.
`CountInv`, `UnsetInv` and parts of the last two hold until the executor has stopped and its workers are done (`Active`); `Discard` then leaves promises that nobody will set.

**`LockFreeStackProofs`** and **`LockFreeQueueProofs`**. `TypeCorrect`, `Reclaimed` (`NodesReclaimed`) and `Linearizable` (`ImplementsLifo`, `ImplementsFifo`), and
for the queue `EmptyMeansEmpty` (`NothingMeansEmpty`), for any threads, addresses and calls. All are about the executions in which the counts fit: each has the form
`Spec /\ []CountsFit => []...`, where `CountsFit` says that the pointers in `head_` and `tail_` (in the stack: in `head_`, unless it is `nullptr`) have not reached the last
value of their 16 bits. Something of the kind is needed, because the properties are false without it (section 4, "The count of viewers
wraps"), and the code has nothing that guarantees it: the count of a pointer that stays where it is goes up with every look at it and never down, so 65534 polls of an empty queue are
enough. It says nothing about who looks when, and every behaviour of the instances of section 3 satisfies it (TLC checked `CountsFit` as an invariant of both).

The argument is a count of users. The *stack's* list is a function `b` whose nodes are numbered from its bottom. A node in the list has an
`internal_count` of at most 0, which is minus the number of viewers that have left, and its count (in `head_` or in the `next` of the node above) less 1 and plus `internal_count` is the number
of its viewers; after the pop the same sum is split between the popper that has yet to add its part, and the node. It comes to 0 exactly when the last user leaves. This is also why a CAS of `head_` that succeeds
finds the list it expects: an address recurs only after its node was deleted, which no viewer of it has let happen, so `head_` at that address is that node, and its `next` has not changed.

The *queue's* nodes are numbered from the first one ever linked: `b[lo]` is in `head_`, `b[k]` in `tail_`, `b[hi]` is the last. A node starts with `2 * kOneCounter`, one for the pointer in the
list and one for the pointer in `tail_`. Either pointer *owes* its part until it is released: `-kOneCounter` as long as the pointer has not arrived at the node, `count - 1 - kOneCounter` while it is in
`head_` or `tail_` or in the hands of the thread that has replaced it, nothing afterwards (`HeadOwes`, `TailOwes`). `NodeInv` says that `internal_count` and what is still owed add up to the number
of the node's users, and that it is positive until the node is deleted; with both parts owed at most once (`ReleaseInv`: each pointer is replaced by one thread) a sum of 0 means that nobody is left. `Views` carries what a thread may conclude
from what it read earlier: a `TryPop` at `head_` whose `tail` was another node knows that `tail_` has passed its node, so that `head_` does not overtake it; a
`Help` that succeeds has found `tail_` at the very node it looks at, although it never counted itself there. `NewInv` keeps a node that is not linked yet to its maker.

`List`, by which the properties read the items, is a recursive function. `LeastElement` and `SameFunction` (in `SequenceFacts`, from the well-foundedness of the naturals) show that it is the chain `b`
(`ListFacts`). From there the refinement is one lemma per effect: `LinkPushes`, `SwingPops`, and `SameItems` for all other steps; `ValueKept` and `SamePopped` say that what a thread is about to take stays what it was.

TLC has also checked the inductive invariants (`IInv`) of the ring, the pool and the futures on the instances of section 3. Those of the
stack and the queue quantify over functions on the natural numbers, which TLC cannot enumerate.

**Only model-checked.** Liveness (`NobodyHangs`, `EveryRoutineRuns`, `CallsReturn`,
`EverythingSettles`, `EveryFiberFinishes`, `SurvivorFinishes`), which needs `ENABLED`; `NothingLeaks` of the pool for clients that never destroy it, where it depends on the
scripts (who goes on submitting after `Stop` leaves routines behind); everything about fibers with what they wait for (`FiberLibrary`'s `TypeOK`, `FiberInOnePlace`, `ImplementsFifoLock`, `ImplementsFifoChannel`,
`NobodyWaitsInVain` and the rest), whose invariants would have to follow every kind of waiting at once; and `IntrusiveList`, whose operators the channels use. What a `RECURSIVE` operator computes
for every input (induction over data) is out of the prover's reach.

## 6. What is not modelled, and why

* **The memory model.** See the conventions. The relaxed CAS in `Strand::Unlock` is a listed hazard.
* **ManualExecutor** is one thread and a queue.
* **Two pools**: `thread_id` is shared by all pools of the process, so a worker of one that submits to
  another pushes into a ring that has a producer already. The pool module has one pool.
* **Via** and the moves of `Future` and `Promise` objects: they touch one thread's data only.
* **Coroutines** (context switching by an external library, an unfinished stub) and
  **`AtomicSharedPtr`** (bodies that say TODO): there is nothing to be faithful to.
* **A fiber's function that throws**, and fibers whose executor is
  stopped, which unwinds their stacks while their awaiters are in somebody's list.
* **`Unlink` and a concurrent push or pop of the same list.** `Unlink` changes a list whose spin lock it does not hold, which is a data race; the model
  makes each list operation one step, and so shows the orders in which they can happen but not torn ones.
* **The metaprogramming of `Select`** (`channels/select.hpp:11-155`), which computes types and arrays at compile time.

## 7. Plan

What this project leaves open, the most useful first:

1. Proofs: on one worker, `FiberSync` implements `FifoLock`, with `closed_` and the queue against `owner`; type correctness of `FiberLibrary` and `FiberInOnePlace`;
   `NobodyWaitsInVain` of channels.
2. An executor that stops under fibers, in `Fibers`: `Discard` of a scheduled `step_`, and the destructors that run while a stack is unwound.
3. Two pools, with the shared `thread_id`.
