-------------------------- MODULE ThreadPoolProofs --------------------------
(***************************************************************************)
(* Proofs about the thread pools for any workers, clients, routines and    *)
(* calls: each routine is in one place, the two counters of WithWaitIdle   *)
(* never drift, so that workers do not all sleep over a routine, WaitIdle  *)
(* returns only when everything submitted has returned, and Stop and the   *)
(* destructor leave nothing behind.                                        *)
(*                                                                         *)
(* The inductive invariant gives each routine one kind of place and, where *)
(* there is a place of that kind per actor, one actor, which makes places  *)
(* exclusive.  The counters are compared with the sizes of sets of         *)
(* routines and actors up to multiples of Word.                            *)
(***************************************************************************)
EXTENDS ThreadPool, SequenceFacts, TLAPS

\* What an actor can have at hand, by where it is in the code.
Loading == {"move", "grab", "spill"}
Running == {"run", "execute", "count", "notify", "taken"} \cup Loading

WorkerInv ==
    \A w \in Workers :
        /\ pc[w] \in Running \cup {"loop", "take", "rob", "done", "notifyIdle", "wait",
                                   "asleep", "exited"}
        /\ routine[w] # Null <=> pc[w] \in Running
        /\ moving[w] # << >> <=> pc[w] \in Loading
        /\ spilled[w] # << >> => pc[w] = "spill"
        /\ todo[w] # << >> => pc[w] \in Running \ {"taken"}
        /\ pc[w] \in {"take", "rob"} => steps[w] # << >>
        /\ pc[w] \in {"done", "asleep"} => WithWaitIdle

CallInv ==
    /\ \A a \in Actors : pc[a] \in {"execute", "count"} => Next_(a, "Execute")
    /\ \A w \in Workers : pc[w] \in Loading /\ todo[w] # << >> => Next_(w, "Execute")
    /\ \A c \in Clients :
          /\ pc[c] \in {"idle", "execute", "count", "notify", "idleLoad", "idleCheck",
                        "idleWait", "stopNotify", "close", "join", "allDone"}
          /\ pc[c] \in {"idleLoad", "idleCheck", "idleWait"} => Next_(c, "WaitIdle")
          /\ pc[c] \in {"stopNotify", "close", "join"} => Next_(c, "Stop")
          /\ pc[c] \in {"join", "allDone"} => \E w \in Workers : closed[w]

\* WaitIdle is called of the pool that has it, and Stop is called once.
ScriptInv ==
    /\ variant \in {"WithWaitIdle", "WithoutWaitIdle"}
    /\ ~WithWaitIdle => \A c \in Clients : [op |-> "WaitIdle"] \notin Range(todo[c])
    /\ \A c, d \in Clients : \A i \in DOMAIN todo[c], j \in DOMAIN todo[d] :
          todo[c][i].op = "Stop" /\ todo[d][j].op = "Stop" => c = d /\ i = j
    /\ Stopped => \A c \in Clients : \A i \in DOMAIN todo[c] :
                      todo[c][i].op = "Stop" => pc[c] \in {"stopNotify", "close", "join"}

\* The kind of place where a routine is, and the actor it is at, if any.
Kinds == {"new", "execute", "global", "local", "slot", "moving", "spilled", "routine",
          "finished", "discarded"}
Submitting(a, r) == pc[a] = "execute" /\ Call(a).routine = r
Placed(r, kind, by) ==
    /\ r \notin submitted <=> kind = "new"
    /\ r \in finished <=> kind = "finished"
    /\ r \in discarded <=> kind = "discarded"
    /\ r \in Range(global_queue_) <=> kind = "global"
    /\ kind \in {"local", "slot", "moving", "spilled", "routine"} => by \in Workers
    /\ \A w \in Workers :
          /\ r \in Range(local_queues_[w]) <=> kind = "local" /\ by = w
          /\ r \in Range(moving[w]) <=> kind = "moving" /\ by = w
          /\ r \in Range(spilled[w]) <=> kind = "spilled" /\ by = w
          /\ lifo_slots_[w] = r <=> kind = "slot" /\ by = w
          /\ routine[w] = r <=> kind = "routine" /\ by = w
    /\ kind = "execute" => by \in Actors
    /\ \A a \in Actors : Submitting(a, r) <=> kind = "execute" /\ by = a
PlaceInv ==
    \A r \in Routines : \E kind \in Kinds, by \in Actors \cup {Null} : Placed(r, kind, by)

\* No sequence holds a routine twice.
OnceInv ==
    /\ IsInjective(global_queue_)
    /\ \A w \in Workers : /\ IsInjective(local_queues_[w])
                          /\ IsInjective(moving[w])
                          /\ IsInjective(spilled[w])

\* Equality of counters that wrap around.
Congruent(a, b) == \E k \in Int : a = b + k * Word

\* The counters, against what they count.
Tokens == IF Stopped THEN kStopTokens ELSE 0
QueueCountInv ==
    WithWaitIdle => Congruent(routines_in_queue_ + Cardinality(Uncounted),
                              Cardinality(Queued) + Cardinality(Unsubtracted)
                              + Cardinality(discarded) + Tokens)
DoneWorkers == {w \in Workers : pc[w] = "done"}
WaitGroupInv ==
    WithWaitIdle /\ ~Stopped =>
        Congruent(routines_wg_,
                  Cardinality(submitted \ finished) + Cardinality(DoneWorkers))

\* When all workers sleep and the counter is not 0, somebody is about to wake
\* one of them.
SleepInv ==
    Asleep = Workers /\ routines_in_queue_ # 0
        => \E a \in Actors : pc[a] \in {"notify", "stopNotify"}

Inv == TypeOK /\ WorkerInv /\ CallInv /\ ScriptInv /\ PlaceInv /\ OnceInv
IInv == Inv /\ QueueCountInv /\ WaitGroupInv /\ SleepInv

------------------------------------------------------------------------------
\* The constants, and arithmetic that wraps around.
LEMMA Constants ==
    /\ IsFiniteSet(Workers) /\ IsFiniteSet(Clients) /\ IsFiniteSet(Actors)
    /\ Cardinality(Workers) \in Nat /\ Cardinality(Workers) > 1
    /\ Cardinality(Routines) \in Nat /\ IsFiniteSet(Routines)
    /\ Word \in Nat \ {0} /\ 1 < Word /\ kStopTokens \in Nat
    /\ kLocalQueueSize \in Nat \ {0} /\ kLocalQueueSize \div 2 \in Nat
    /\ kLocalQueueSize \div kRobbedPart \in Nat
    /\ \A w \in Workers : w \in Actors /\ w \notin Clients
    /\ \A c \in Clients : c \in Actors /\ c \notin Workers
  <1>1. IsFiniteSet(Workers) /\ IsFiniteSet(Clients)
    BY PoolAssumption, FS_Subset DEF Actors
  <1>2. Cardinality(Workers) \in Nat /\ Cardinality(Routines) \in Nat
    BY <1>1, PoolAssumption, FS_CardinalityType
  <1>3. kLocalQueueSize \div 2 \in Nat
    BY PoolAssumption
  <1>4. kLocalQueueSize \div kRobbedPart \in Nat
    BY PoolAssumption
  <1>5. QED
    BY <1>1, <1>2, <1>3, <1>4, PoolAssumption DEF Actors

LEMMA Wraps == \A x \in Int : x % Word \in 0..(Word - 1) /\ Congruent(x % Word, x)
  <1> SUFFICES ASSUME NEW x \in Int
               PROVE  x % Word \in 0..(Word - 1) /\ Congruent(x % Word, x)
    OBVIOUS
  <1> DEFINE q == x \div Word
  <1>1. q \in Int /\ x % Word \in 0..(Word - 1) /\ x = Word * q + (x % Word)
    BY Constants
  <1>2. -q \in Int /\ x % Word = x + (-q) * Word
    BY <1>1, Constants
  <1>3. QED
    BY <1>1, <1>2 DEF Congruent

LEMMA Congruences ==
    /\ \A a, b \in Int : Congruent(a, b) => Congruent(b, a)
    /\ \A a, b, c \in Int : Congruent(a, b) /\ Congruent(b, c) => Congruent(a, c)
    /\ \A a, b, n \in Int : Congruent(a, b) => Congruent(a + n, b + n)
    /\ \A a \in Int : Congruent(a, a) /\ Congruent(a + Word, a)
    /\ \A a, b \in 0..(Word - 1) : Congruent(a, b) => a = b
  <1>1. ASSUME NEW a \in Int, NEW b \in Int, NEW k \in Int, a = b + k * Word
        PROVE  /\ Congruent(b, a)
               /\ \A n \in Int : Congruent(a + n, b + n)
               /\ a \in 0..(Word - 1) /\ b \in 0..(Word - 1) => a = b
    <2>1. -k \in Int /\ b = a + (-k) * Word
      BY <1>1, Constants
    <2>2. \A n \in Int : a + n = (b + n) + k * Word
      BY <1>1, Constants
    <2>3. ASSUME a \in 0..(Word - 1), b \in 0..(Word - 1), k # 0 PROVE FALSE
      <3>1. CASE k >= 1
        <4>1. k * Word >= Word
          BY <3>1, Constants
        <4>2. QED
          BY <1>1, <2>3, <4>1, Constants
      <3>2. CASE k <= -1
        <4>1. k * Word <= -Word
          BY <3>2, Constants
        <4>2. QED
          BY <1>1, <2>3, <4>1, Constants
      <3>3. QED
        BY <2>3, <3>1, <3>2
    <2>4. k = 0 => a = b
      BY <1>1, Constants
    <2>5. QED
      BY <2>1, <2>2, <2>3, <2>4 DEF Congruent
  <1>2. ASSUME NEW a \in Int, NEW b \in Int, NEW c \in Int,
               NEW k \in Int, NEW n \in Int, a = b + k * Word, b = c + n * Word
        PROVE  Congruent(a, c)
    <2>1. k + n \in Int /\ a = c + (k + n) * Word
      BY <1>2, Constants
    <2>2. QED
      BY <2>1 DEF Congruent
  <1>3. ASSUME NEW a \in Int PROVE Congruent(a, a) /\ Congruent(a + Word, a)
    <2>1. a = a + 0 * Word /\ a + Word = a + 1 * Word
      BY Constants
    <2>2. QED
      BY <2>1 DEF Congruent
  <1>4. \A a, b \in Int : Congruent(a, b) => Congruent(b, a)
    BY <1>1 DEF Congruent
  <1>5. \A a, b, c \in Int : Congruent(a, b) /\ Congruent(b, c) => Congruent(a, c)
    BY <1>2 DEF Congruent
  <1>6. \A a, b, n \in Int : Congruent(a, b) => Congruent(a + n, b + n)
    BY <1>1 DEF Congruent
  <1>7. \A a, b \in 0..(Word - 1) : Congruent(a, b) => a = b
    BY <1>1, Constants DEF Congruent
  <1>8. QED
    BY <1>3, <1>4, <1>5, <1>6, <1>7

\* The counters' operations: what is stored is a word, congruent to what is meant.
LEMMA Counting ==
    ASSUME NEW n \in 0..(Word - 1)
    PROVE  /\ (n + 1) % Word \in 0..(Word - 1) /\ Congruent((n + 1) % Word, n + 1)
           /\ (n + Word - 1) % Word \in 0..(Word - 1)
           /\ Congruent((n + Word - 1) % Word, n - 1)
           /\ (n + kStopTokens) % Word \in 0..(Word - 1)
           /\ Congruent((n + kStopTokens) % Word, n + kStopTokens)
  <1>1. n \in Int /\ n + 1 \in Int /\ n + Word - 1 \in Int /\ n + kStopTokens \in Int
        /\ n - 1 \in Int /\ n + Word - 1 = (n - 1) + Word
    BY Constants
  <1>2. /\ (n + 1) % Word \in 0..(Word - 1) /\ Congruent((n + 1) % Word, n + 1)
        /\ (n + kStopTokens) % Word \in 0..(Word - 1)
        /\ Congruent((n + kStopTokens) % Word, n + kStopTokens)
    BY <1>1, Wraps, Zenon
  <1>3. /\ (n + Word - 1) % Word \in 0..(Word - 1)
        /\ Congruent((n + Word - 1) % Word, n + Word - 1)
    BY <1>1, Wraps, Zenon
  <1> DEFINE m == (n + Word - 1) % Word
  <1>4. m \in Int
    BY <1>3, Constants
  <1>5. Congruent(m, (n - 1) + Word) /\ Congruent((n - 1) + Word, n - 1)
    <2>1. Congruent((n - 1) + Word, n - 1)
      BY <1>1, Congruences
    <2>2. QED
      BY <1>1, <1>3, <2>1
  <1>6. (n - 1) + Word \in Int
    BY <1>1, Constants
  <1> HIDE DEF m
  <1>7. Congruent(m, n - 1)
    BY <1>1, <1>4, <1>5, <1>6, Congruences
  <1>8. QED
    BY <1>2, <1>3, <1>7 DEF m

LEMMA Strategies ==
    /\ DefaultTakeStrategy \in Seq(Range(DefaultTakeStrategy))
    /\ GlobalQueueTakeStrategy \in Seq(Range(DefaultTakeStrategy))
    /\ WithoutLIFOSlotTakeStrategy \in Seq(Range(DefaultTakeStrategy))
  <1> DEFINE S == {"LIFOSlot", "LocalQueue", "GlobalQueue", "Grab"}
  <1>1. /\ DefaultTakeStrategy \in Seq(S) /\ GlobalQueueTakeStrategy \in Seq(S)
        /\ WithoutLIFOSlotTakeStrategy \in Seq(S) /\ Len(DefaultTakeStrategy) = 4
    BY DEF DefaultTakeStrategy, GlobalQueueTakeStrategy, WithoutLIFOSlotTakeStrategy
  <1>2. Range(DefaultTakeStrategy) = {DefaultTakeStrategy[i] : i \in 1..4}
    BY <1>1, RangeFacts
  <1>3. /\ DefaultTakeStrategy[1] = "LIFOSlot" /\ DefaultTakeStrategy[2] = "LocalQueue"
        /\ DefaultTakeStrategy[3] = "GlobalQueue" /\ DefaultTakeStrategy[4] = "Grab"
    BY DEF DefaultTakeStrategy
  <1>4. Range(DefaultTakeStrategy) = S
    BY <1>2, <1>3
  <1>5. QED
    BY <1>1, <1>4

\* What an actor has at hand is what it should be.
LEMMA AtHand ==
    ASSUME TypeOK
    PROVE  /\ \A a \in Actors : todo[a] # << >> =>
                 /\ Call(a) \in Calls /\ Tail(todo[a]) \in Seq(Calls)
                 /\ Call(a).op = "Execute" => Call(a).routine \in Routines
           /\ \A w \in Workers : moving[w] # << >> =>
                 Head(moving[w]) \in Routines /\ Tail(moving[w]) \in Seq(Routines)
           /\ \A w \in Workers : steps[w] # << >> =>
                 Tail(steps[w]) \in Seq(Range(DefaultTakeStrategy))
           /\ \A w \in Workers : routine[w] # Null =>
                 routine[w] \in Routines /\ Spawns[routine[w]] \subseteq Seq(Calls)
  <1>1. ASSUME NEW a \in Actors, todo[a] # << >>
        PROVE  /\ Call(a) \in Calls /\ Tail(todo[a]) \in Seq(Calls)
               /\ Call(a).op = "Execute" => Call(a).routine \in Routines
    <2>1. Call(a) \in Calls /\ Tail(todo[a]) \in Seq(Calls)
      <3>1. todo[a] \in Seq(Calls)
        BY DEF TypeOK
      <3>2. QED
        BY <1>1, <3>1, HeadTailFacts DEF Call
    <2>2. QED
      BY <2>1 DEF Calls
  <1>2. ASSUME NEW w \in Workers, moving[w] # << >>
        PROVE  Head(moving[w]) \in Routines /\ Tail(moving[w]) \in Seq(Routines)
    <2>1. moving[w] \in Seq(Routines)
      BY DEF TypeOK
    <2>2. QED
      BY <1>2, <2>1, HeadTailFacts
  <1>3. ASSUME NEW w \in Workers, steps[w] # << >>
        PROVE  Tail(steps[w]) \in Seq(Range(DefaultTakeStrategy))
    <2>1. steps[w] \in Seq(Range(DefaultTakeStrategy))
      BY DEF TypeOK
    <2>2. QED
      BY <1>3, <2>1, HeadTailFacts
  <1>4. QED
    BY <1>1, <1>2, <1>3, PoolAssumption DEF TypeOK

\* The routines that wait, and those that are queued.
LEMMA WaitingRoutines ==
    /\ \A r : r \in Waiting <=>
             \/ r \in Range(global_queue_)
             \/ \E w \in Workers : r \in Range(local_queues_[w])
             \/ r # Null /\ \E w \in Workers : lifo_slots_[w] = r
    /\ \A r : r \in Queued <=>
             r \in Waiting \/ \E w \in Workers : r \in Range(moving[w]) \/ r \in Range(spilled[w])
    /\ TypeOK => Waiting \subseteq Routines /\ Queued \subseteq Routines
  <1>1. \A r : r \in Waiting <=>
             \/ r \in Range(global_queue_)
             \/ \E w \in Workers : r \in Range(local_queues_[w])
             \/ r # Null /\ \E w \in Workers : lifo_slots_[w] = r
    BY DEF Waiting
  <1>2. \A r : r \in Queued <=>
             r \in Waiting \/ \E w \in Workers : r \in Range(moving[w]) \/ r \in Range(spilled[w])
    BY DEF Queued
  <1>3. TypeOK => /\ Range(global_queue_) \subseteq Routines
                  /\ \A w \in Workers : /\ Range(local_queues_[w]) \subseteq Routines
                                        /\ Range(moving[w]) \subseteq Routines
                                        /\ Range(spilled[w]) \subseteq Routines
                                        /\ lifo_slots_[w] \in Routines \cup {Null}
    BY RangeFacts DEF TypeOK
  <1>4. QED
    BY <1>1, <1>2, <1>3

------------------------------------------------------------------------------
LEMMA InitIInv == Init => IInv
  <1> SUFFICES ASSUME Init PROVE IInv
    OBVIOUS
  <1>1. PICK script \in Scripts :
            /\ variant = script.variant
            /\ todo = [a \in Actors |-> IF a \in Clients THEN script.calls[a] ELSE << >>]
    BY DEF Init
  <1>2. script.variant \in {"WithWaitIdle", "WithoutWaitIdle"}
        /\ script.calls \in [Clients -> Seq(Calls)]
    BY PoolAssumption
  <1>3. TypeOK
    <2>1. /\ << >> \in Seq(Routines) /\ << >> \in Seq(Calls)
          /\ << >> \in Seq(Range(DefaultTakeStrategy)) /\ Len(<< >>) = 0
      OBVIOUS
    <2>2. todo \in [Actors -> Seq(Calls)]
      BY <1>1, <1>2, <2>1
    <2>3. 0 \in 0..(Word - 1) /\ 0 \in 0..Cardinality(Workers) /\ 0 <= kLocalQueueSize
      BY Constants
    <2>4. QED
      BY <2>1, <2>2, <2>3 DEF Init, TypeOK, Labels
  <1>4. WorkerInv
    BY <1>1, Constants DEF Init, WorkerInv, Running, Loading
  <1>5. CallInv
    BY <1>1, Constants DEF Init, CallInv, Loading
  <1>6. ~Stopped /\ Asleep = {} /\ Uncounted = {} /\ Unsubtracted = {} /\ DoneWorkers = {}
    BY Constants DEF Init, Stopped, Asleep, Uncounted, Unsubtracted, DoneWorkers
  <1>7. ScriptInv
    <2>1. \A c \in Clients : todo[c] = script.calls[c]
      BY <1>1, Constants
    <2>2. ~WithWaitIdle => \A c \in Clients : [op |-> "WaitIdle"] \notin Range(todo[c])
      BY <1>1, <1>2, <2>1, PoolAssumption DEF WithWaitIdle
    <2>3. \A c, d \in Clients : \A i \in DOMAIN todo[c], j \in DOMAIN todo[d] :
              todo[c][i].op = "Stop" /\ todo[d][j].op = "Stop" => c = d /\ i = j
      BY <2>1, PoolAssumption
    <2>4. QED
      BY <1>1, <1>2, <1>6, <2>2, <2>3 DEF ScriptInv
  <1>8. /\ Range(global_queue_) = {} /\ IsInjective(global_queue_)
        /\ \A w \in Workers :
              /\ Range(local_queues_[w]) = {} /\ IsInjective(local_queues_[w])
              /\ Range(moving[w]) = {} /\ IsInjective(moving[w])
              /\ Range(spilled[w]) = {} /\ IsInjective(spilled[w])
    BY SmallSequences DEF Init
  <1>9. PlaceInv
    <2>1. \A r \in Routines, a \in Actors : ~Submitting(a, r)
      BY DEF Init, Submitting
    <2>2. \A r \in Routines : Placed(r, "new", Null)
      BY <1>8, <2>1, PoolAssumption DEF Init, Placed
    <2>3. QED
      BY <2>2 DEF PlaceInv, Kinds
  <1>10. OnceInv
    BY <1>8 DEF OnceInv
  <1>11. Queued = {}
    BY <1>8 DEF Queued, Waiting, Init
  <1>12. QueueCountInv /\ WaitGroupInv /\ SleepInv
    <2>1. Cardinality({}) = 0 /\ submitted \ finished = {} /\ discarded = {}
      BY FS_EmptySet DEF Init
    <2>2. Congruent(0, 0)
      BY Congruences
    <2>3. QueueCountInv
      BY <1>6, <1>11, <2>1, <2>2 DEF QueueCountInv, Init, Tokens
    <2>4. WaitGroupInv
      BY <1>6, <2>1, <2>2 DEF WaitGroupInv, Init
    <2>5. SleepInv
      BY DEF SleepInv, Init
    <2>6. QED
      BY <2>3, <2>4, <2>5
  <1>13. QED
    BY <1>3, <1>4, <1>5, <1>7, <1>9, <1>10, <1>12 DEF IInv, Inv

------------------------------------------------------------------------------
\* What a ring that is grabbed from gives away, and what it keeps.
LEMMA GrabFacts ==
    ASSUME NEW S, NEW q \in Seq(S), NEW n \in Nat
    PROVE  /\ Grabbed(q, n) \in Seq(S) /\ Left(q, n) \in Seq(S)
           /\ Len(Left(q, n)) <= Len(q) /\ Len(q) \in Nat /\ Len(Left(q, n)) \in Nat
           /\ Range(q) = Range(Grabbed(q, n)) \cup Range(Left(q, n))
           /\ IsInjective(q) => /\ IsInjective(Grabbed(q, n)) /\ IsInjective(Left(q, n))
                                /\ Range(Grabbed(q, n)) \cap Range(Left(q, n)) = {}
  <1> DEFINE k == Min({n, Len(q)})
  <1>1. k \in Nat /\ k <= Len(q) /\ Len(q) \in Nat
    BY LenProperties DEF Min
  <1> HIDE DEF k
  <1> DEFINE front == SubSeq(q, 1, k)
             back == SubSeq(q, k + 1, Len(q))
  <1>2. /\ front \in Seq(S) /\ back \in Seq(S)
        /\ Len(front) = k /\ Len(back) = Len(q) - k
        /\ Range(q) = Range(front) \cup Range(back)
        /\ IsInjective(q) => /\ IsInjective(front) /\ IsInjective(back)
                             /\ Range(front) \cap Range(back) = {}
    BY <1>1, CutFacts
  <1>3. Grabbed(q, n) = front /\ Left(q, n) = back
    BY DEF Grabbed, Left, k
  <1> HIDE DEF front, back
  <1>4. Len(back) <= Len(q) /\ Len(back) \in Nat
    BY <1>1, <1>2
  <1>5. QED
    BY <1>1, <1>2, <1>3, <1>4

\* A worker that takes from the global queue takes its head and some more.
TakesShare(w, n) ==
    /\ Takes(w, Head(global_queue_), SubSeq(global_queue_, 2, n + 1))
    /\ global_queue_' = SubSeq(global_queue_, n + 2, Len(global_queue_))
    /\ UNCHANGED <<local_queues_, lifo_slots_>>
LEMMA GlobalShare ==
    ASSUME TypeOK, NEW w \in Workers, TakeFromGlobalQueue(w), global_queue_ # << >>
    PROVE  \E n \in Nat : n < Len(global_queue_) /\ TakesShare(w, n)
  <1>0. Len(global_queue_) \in Nat /\ 1 <= Len(global_queue_)
    BY EmptySeq, LenProperties DEF TypeOK
  <1> DEFINE size == Len(global_queue_) - 1
             m == kLocalQueueSize \div 2
             d == size \div Cardinality(Workers)
             n == IF "LocalQueue" \notin Range(steps[w]) THEN Min({m, d}) ELSE 0
  <1>1. d \in Nat /\ d <= size
    BY <1>0, Constants
  <1>2. m \in Nat
    BY Constants
  <1> HIDE DEF m, d
  <1>3. Min({m, d}) \in Nat /\ Min({m, d}) <= size
    <2>1. Min({m, d}) = IF m <= d THEN m ELSE d
      BY <1>1, <1>2 DEF Min
    <2>2. QED
      BY <1>0, <1>1, <1>2, <2>1
  <1>4. n \in Nat /\ n < Len(global_queue_) /\ size + 1 = Len(global_queue_)
    BY <1>0, <1>3
  <1>5. TakesShare(w, n)
    BY <1>0, <1>4 DEF TakeFromGlobalQueue, TakesShare, m, d
  <1>6. QED
    BY <1>4, <1>5

\* A robber takes from the front of a ring.
Robs(w, from) ==
    LET n == kLocalQueueSize \div kRobbedPart
        taken == Grabbed(local_queues_[from], n)
    IN  /\ taken # << >>
        /\ Takes(w, Head(taken), Tail(taken))
        /\ local_queues_' = [local_queues_ EXCEPT ![from] = Left(@, n)]
        /\ UNCHANGED <<global_queue_, lifo_slots_>>
LEMMA RobCases ==
    ASSUME NEW w \in Workers, Rob(w)
    PROVE  TakesNothing(w) \/ \E from \in Workers : Robs(w, from)
  BY DEF Rob, Robs

\* The variables of a worker that has taken something, or tried to.
TakenOK ==
    /\ lifo_count \in [Workers -> Nat]
    /\ steps \in [Workers -> Seq(Range(DefaultTakeStrategy))]
    /\ routine \in [Workers -> Routines \cup {Null}]
    /\ moving \in [Workers -> Seq(Routines)]
    /\ pc \in [Actors -> Labels]

LEMMA TakesTypes ==
    ASSUME TypeOK, NEW w \in Workers, NEW r \in Routines, NEW rest \in Seq(Routines),
           Takes(w, r, rest)
    PROVE  TakenOK'
  <1>1. << >> \in Seq(Range(DefaultTakeStrategy))
    OBVIOUS
  <1>2. lifo_count' \in [Workers -> Nat]
    BY DEF TypeOK, Takes
  <1>3. pc' \in [Actors -> Labels]
    BY DEF TypeOK, Takes, Labels
  <1>4. QED
    BY <1>1, <1>2, <1>3 DEF TypeOK, TakenOK, Takes

LEMMA NothingTypes ==
    ASSUME Inv, NEW w \in Workers, pc[w] \in {"take", "rob"}, TakesNothing(w)
    PROVE  TakenOK'
  <1>1. Tail(steps[w]) \in Seq(Range(DefaultTakeStrategy))
    BY AtHand DEF Inv, WorkerInv
  <1>2. QED
    BY <1>1 DEF Inv, TypeOK, TakenOK, TakesNothing, Labels

------------------------------------------------------------------------------
\* Every variable keeps its type.
LEMMA TypeStep ==
    ASSUME Inv, Next PROVE TypeOK'
  <1> USE DEF Inv
  <1>1. ASSUME NEW a \in Actors, ExecuteAdd(a) PROVE TypeOK'
    <2>1. Call(a).routine \in Routines
      BY <1>1, AtHand, Constants DEF TypeOK, CallInv, ExecuteAdd, Submits, Next_, Goto
    <2>2. routines_wg_' \in 0..(Word - 1)
      BY <1>1, Counting DEF TypeOK, ExecuteAdd
    <2>3. QED
      BY <1>1, <2>1, <2>2, Constants
         DEF TypeOK, Labels, ExecuteAdd, Goto, Submits, Caller, AfterMove, queues, counters,
             history, taking, transit
  <1>2. ASSUME NEW a \in Actors, PushGlobal(a) PROVE TypeOK'
    <2>1. Call(a).routine \in Routines
      BY <1>2, AtHand, Constants DEF TypeOK, CallInv, PushGlobal, Submits, Next_, Goto
    <2>2. global_queue_' \in Seq(Routines)
      BY <1>2, <2>1, AppendFacts DEF TypeOK, PushGlobal
    <2>3. QED
      BY <1>2, <2>1, <2>2, Constants
         DEF TypeOK, Labels, PushGlobal, Goto, Submits, Caller, AfterMove, queues, counters,
             history, taking, transit
  <1>3. ASSUME NEW a \in Actors, Count(a) PROVE TypeOK'
    <2>1. Tail(todo[a]) \in Seq(Calls)
      BY <1>3, AtHand, Constants DEF TypeOK, CallInv, Count, Goto, Next_
    <2>2. routines_in_queue_' \in 0..(Word - 1)
      BY <1>3, Counting DEF TypeOK, Count
    <2>3. QED
      BY <1>3, <2>1, <2>2, Constants
         DEF TypeOK, Labels, Count, Goto, Submits, Caller, AfterMove, queues, counters,
             history, taking, transit
  <1>4. ASSUME NEW a \in Actors, NotifyOne(a) PROVE TypeOK'
    BY <1>4, Constants
       DEF TypeOK, Labels, NotifyOne, Goto, Caller, queues, counters, history, taking, transit
  <1>5. ASSUME NEW a \in Actors, PlainExecute(a) PROVE TypeOK'
    <2>1. Call(a).routine \in Routines
      BY <1>5, AtHand, Constants DEF TypeOK, CallInv, PlainExecute, Submits, Next_, Goto
    <2>2. QED
      BY <1>5, <2>1, Constants
         DEF TypeOK, Labels, PlainExecute, Goto, Submits, Caller, AfterMove, queues, counters,
             history, taking, transit
  <1>6. ASSUME NEW a \in Actors, PlainPushed(a) PROVE TypeOK'
    <2>1. Tail(todo[a]) \in Seq(Calls)
      BY <1>6, AtHand, Constants DEF TypeOK, CallInv, PlainPushed, Goto, Next_
    <2>2. QED
      BY <1>6, <2>1, Constants
         DEF TypeOK, Labels, PlainPushed, Goto, Submits, Caller, AfterMove, queues, counters,
             history, taking, transit
  <1>7. ASSUME NEW w \in Workers, Exit(w) PROVE TypeOK'
    BY <1>7, Constants
       DEF TypeOK, Labels, Exit, Goto, Caller, queues, counters, history, taking, transit
  <1>8. ASSUME NEW w \in Workers, ChooseStrategy(w) PROVE TypeOK'
    <2>1. steps'[w] \in Seq(Range(DefaultTakeStrategy))
      BY <1>8, Strategies DEF TypeOK, ChooseStrategy
    <2>2. QED
      BY <1>8, <2>1, Constants
         DEF TypeOK, Labels, ChooseStrategy, Goto, Submits, Caller, AfterMove, queues,
             counters, history, taking, transit
  <1>9. ASSUME NEW w \in Workers, CountTaken(w) PROVE TypeOK'
    <2>1. Spawns[routine[w]] \subseteq Seq(Calls)
      BY <1>9, AtHand, Constants DEF TypeOK, WorkerInv, CountTaken, Goto, Running
    <2>2. routines_in_queue_' \in 0..(Word - 1)
      BY <1>9, Counting DEF TypeOK, CountTaken
    <2>3. QED
      BY <1>9, <2>1, <2>2, Constants
         DEF TypeOK, Labels, CountTaken, Goto, Submits, Caller, AfterMove, queues, counters,
             history, taking, transit
  <1>10. ASSUME NEW w \in Workers, PushLocal(w) PROVE TypeOK'
    <2>1. Call(w).routine \in Routines
      BY <1>10, AtHand, Constants DEF TypeOK, CallInv, PushLocal, Submits, Next_, Goto
    <2>2. << Call(w).routine >> \in Seq(Routines)
      BY <2>1
    <2>3. QED
      BY <1>10, <2>1, <2>2, Constants
         DEF TypeOK, Labels, PushLocal, Goto, Submits, Caller, AfterMove, queues, counters,
             history, taking, transit
  <1>11. ASSUME NEW w \in Workers, PushLIFO(w) PROVE TypeOK'
    <2>1. Call(w).routine \in Routines
      BY <1>11, AtHand, Constants DEF TypeOK, CallInv, PushLIFO, Submits, Next_, Goto
    <2>2. moving'[w] \in Seq(Routines)
      BY <1>11 DEF TypeOK, PushLIFO
    <2>3. QED
      BY <1>11, <2>1, <2>2, Constants
         DEF TypeOK, Labels, PushLIFO, Goto, Submits, Caller, AfterMove, queues, counters,
             history, taking, transit
  <1>12. ASSUME NEW w \in Workers, Move(w) PROVE TypeOK'
    <2>1. Head(moving[w]) \in Routines /\ Tail(moving[w]) \in Seq(Routines)
      BY <1>12, AtHand, Constants DEF TypeOK, WorkerInv, Move, Goto, Loading
    <2>2. Append(local_queues_[w], Head(moving[w])) \in Seq(Routines) /\ Len(Append(local_queues_[w], Head(moving[w]))) <= kLocalQueueSize
      BY <1>12, <2>1, AppendFacts, AppendProperties, Constants DEF TypeOK, Move
    <2>3. QED
      BY <1>12, <2>1, <2>2, Constants
         DEF TypeOK, Labels, Move, Goto, Submits, Caller, AfterMove, queues, counters, history,
             taking, transit
  <1>13. ASSUME NEW w \in Workers, MoveFails(w) PROVE TypeOK'
    BY <1>13, Constants
       DEF TypeOK, Labels, MoveFails, Goto, Caller, queues, counters, history, taking, transit
  <1>14. ASSUME NEW w \in Workers, Spill(w) PROVE TypeOK'
    <2>1. global_queue_' \in Seq(Routines)
      BY <1>14, ConcatFacts DEF TypeOK, Spill
    <2>2. << >> \in Seq(Routines)
      OBVIOUS
    <2>3. QED
      BY <1>14, <2>1, <2>2, Constants
         DEF TypeOK, Labels, Spill, Goto, Submits, Caller, AfterMove, queues, counters,
             history, taking, transit
  <1>15. ASSUME NEW w \in Workers, Return(w) PROVE TypeOK'
    <2>1. routine[w] \in Routines
      BY <1>15, AtHand, Constants DEF TypeOK, WorkerInv, Return, Goto, Running
    <2>2. QED
      BY <1>15, <2>1, Constants
         DEF TypeOK, Labels, Return, Goto, Submits, Caller, AfterMove, queues, counters,
             history, taking, transit
  <1>16. ASSUME NEW w \in Workers, Done(w) PROVE TypeOK'
    <2>1. routines_wg_' \in 0..(Word - 1)
      BY <1>16, Counting DEF TypeOK, Done
    <2>2. QED
      BY <1>16, <2>1, Constants
         DEF TypeOK, Labels, Done, Goto, Submits, Caller, AfterMove, queues, counters, history,
             taking, transit
  <1>17. ASSUME NEW w \in Workers, NotifyIdle(w, "notifyIdle", "loop") PROVE TypeOK'
    BY <1>17, Constants
       DEF TypeOK, Labels, NotifyIdle, Goto, Caller, queues, counters, history, taking, transit
  <1>18. ASSUME NEW w \in Workers, Wait(w) PROVE TypeOK'
    BY <1>18, Constants
       DEF TypeOK, Labels, Wait, Goto, Caller, queues, counters, history, taking, transit
  <1>19. ASSUME NEW w \in Workers, PlainRun(w) PROVE TypeOK'
    <2>1. Spawns[routine[w]] \subseteq Seq(Calls)
      BY <1>19, AtHand, Constants DEF TypeOK, WorkerInv, PlainRun, Goto, Running
    <2>2. QED
      BY <1>19, <2>1, Constants
         DEF TypeOK, Labels, PlainRun, Goto, Submits, Caller, AfterMove, queues, counters,
             history, taking, transit
  <1>20. ASSUME NEW w \in Workers, PlainReturn(w) PROVE TypeOK'
    <2>1. routine[w] \in Routines
      BY <1>20, AtHand, Constants DEF TypeOK, WorkerInv, PlainReturn, Goto, Running
    <2>2. QED
      BY <1>20, <2>1, Constants
         DEF TypeOK, Labels, PlainReturn, Goto, Submits, Caller, AfterMove, queues, counters,
             history, taking, transit
  <1>21. ASSUME NEW w \in Workers, PlainSpin(w) PROVE TypeOK'
    BY <1>21, Constants
       DEF TypeOK, Labels, PlainSpin, Goto, Caller, queues, counters, history, taking, transit
  <1>22. ASSUME NEW c \in Clients, WaitIdle(c) PROVE TypeOK'
    BY <1>22, Constants
       DEF TypeOK, Labels, WaitIdle, Goto, Caller, queues, counters, history, taking, transit
  <1>23. ASSUME NEW c \in Clients, IdleLoad(c) PROVE TypeOK'
    <2>1. Tail(todo[c]) \in Seq(Calls)
      BY <1>23, AtHand, Constants DEF TypeOK, CallInv, IdleLoad, Goto, Next_
    <2>2. QED
      BY <1>23, <2>1, Constants
         DEF TypeOK, Labels, IdleLoad, Goto, Submits, Caller, AfterMove, queues, counters,
             history, taking, transit
  <1>24. ASSUME NEW c \in Clients, IdleCheck(c) PROVE TypeOK'
    BY <1>24, Constants
       DEF TypeOK, Labels, IdleCheck, Goto, Caller, queues, counters, history, taking, transit
  <1>25. ASSUME NEW c \in Clients, StopAdd(c) PROVE TypeOK'
    <2>1. routines_in_queue_' \in 0..(Word - 1)
      BY <1>25, Counting DEF TypeOK, StopAdd
    <2>2. QED
      BY <1>25, <2>1, Constants
         DEF TypeOK, Labels, StopAdd, Goto, Submits, Caller, AfterMove, queues, counters,
             history, taking, transit
  <1>26. ASSUME NEW c \in Clients, StopNotify(c) PROVE TypeOK'
    BY <1>26, Constants
       DEF TypeOK, Labels, StopNotify, Goto, Caller, queues, counters, history, taking, transit
  <1>27. ASSUME NEW c \in Clients, Close(c) PROVE TypeOK'
    BY <1>27, Constants
       DEF TypeOK, Labels, Close, Goto, Caller, queues, counters, history, taking, transit
  <1>28. ASSUME NEW c \in Clients, Join(c) PROVE TypeOK'
    <2>1. Tail(todo[c]) \in Seq(Calls)
      BY <1>28, AtHand, Constants DEF TypeOK, CallInv, Join, Goto, Next_
    <2>2. 0 \in 0..(Word - 1)
      BY Constants
    <2>3. QED
      BY <1>28, <2>1, <2>2, Constants
         DEF TypeOK, Labels, Join, Goto, Submits, Caller, AfterMove, queues, counters, history,
             taking, transit
  <1>29. ASSUME NEW c \in Clients, NotifyIdle(c, "allDone", "idle") PROVE TypeOK'
    BY <1>29, Constants
       DEF TypeOK, Labels, NotifyIdle, Goto, Caller, queues, counters, history, taking, transit
  <1>30. ASSUME NEW c \in Clients, PlainStop(c) PROVE TypeOK'
    BY <1>30, Constants
       DEF TypeOK, Labels, PlainStop, Goto, Caller, queues, counters, history, taking, transit
  <1>31. ASSUME NEW c \in Clients, PlainJoin(c) PROVE TypeOK'
    <2>1. Tail(todo[c]) \in Seq(Calls)
      BY <1>31, AtHand, Constants DEF TypeOK, CallInv, PlainJoin, Goto, Next_
    <2>2. QED
      BY <1>31, <2>1, Constants
         DEF TypeOK, Labels, PlainJoin, Goto, Submits, Caller, AfterMove, queues, counters,
             history, taking, transit
  <1>32. ASSUME NEW c \in Clients, Destroy(c) PROVE TypeOK'
    <2>1. Tail(todo[c]) \in Seq(Calls) /\ << >> \in Seq(Routines) /\ Len(<< >>) <= kLocalQueueSize
      BY <1>32, AtHand, Constants DEF TypeOK, Destroy, Next_
    <2>2. discarded' \subseteq Routines
      BY <1>32, WaitingRoutines DEF TypeOK, Destroy
    <2>3. QED
      BY <1>32, <2>1, <2>2, Constants
 DEF TypeOK, Labels, Destroy, Goto, Submits, Caller, AfterMove, queues, counters, history, taking, transit
  <1>33. ASSUME NEW w \in Workers, TakeFromLIFOSlot(w) PROVE TypeOK'
    <2>1. CASE lifo_slots_[w] # Null
      <3>1. lifo_slots_[w] \in Routines /\ << >> \in Seq(Routines)
        BY <2>1 DEF TypeOK
      <3>2. TakenOK'
        BY <1>33, <2>1, <3>1, TakesTypes DEF TakeFromLIFOSlot
      <3>3. QED
        BY <1>33, <2>1, <3>2 DEF TypeOK, TakenOK, TakeFromLIFOSlot, counters, history
    <2>2. CASE lifo_slots_[w] = Null
      <3>1. TakenOK' /\ UNCHANGED queues
        BY <1>33, <2>2, NothingTypes DEF TakeFromLIFOSlot, Trying, TakesNothing
      <3>2. QED
        BY <1>33, <3>1 DEF TypeOK, TakenOK, TakeFromLIFOSlot, counters, history, queues
    <2>3. QED
      BY <2>1, <2>2
  <1>34. ASSUME NEW w \in Workers, TakeFromLocalQueue(w) PROVE TypeOK'
    <2>1. CASE local_queues_[w] # << >>
      <3>1. local_queues_[w] \in Seq(Routines)
        BY DEF TypeOK
      <3>2. /\ Head(local_queues_[w]) \in Routines /\ << >> \in Seq(Routines)
            /\ Tail(local_queues_[w]) \in Seq(Routines)
            /\ Len(Tail(local_queues_[w])) = Len(local_queues_[w]) - 1
        BY <2>1, <3>1, HeadTailFacts
      <3>3. TakenOK'
        BY <1>34, <2>1, <3>2, TakesTypes DEF TakeFromLocalQueue
      <3>4. Len(local_queues_[w]) \in Nat
        BY <3>1, LenProperties
      <3>5. Len(Tail(local_queues_[w])) <= kLocalQueueSize
        BY <3>2, <3>4, Constants DEF TypeOK
      <3>6. QED
        BY <1>34, <2>1, <3>2, <3>3, <3>5
           DEF TypeOK, TakenOK, TakeFromLocalQueue, counters, history
    <2>2. CASE local_queues_[w] = << >>
      <3>1. TakenOK' /\ UNCHANGED queues
        BY <1>34, <2>2, NothingTypes DEF TakeFromLocalQueue, Trying, TakesNothing
      <3>2. QED
        BY <1>34, <3>1 DEF TypeOK, TakenOK, TakeFromLocalQueue, counters, history, queues
    <2>3. QED
      BY <2>1, <2>2
  <1>35. ASSUME NEW w \in Workers, TakeFromGlobalQueue(w) PROVE TypeOK'
    <2>1. CASE global_queue_ # << >>
      <3>1. PICK n \in Nat : n < Len(global_queue_) /\ TakesShare(w, n)
        BY <1>35, <2>1, GlobalShare
      <3>2. /\ Head(global_queue_) \in Routines
            /\ SubSeq(global_queue_, 2, n + 1) \in Seq(Routines)
            /\ SubSeq(global_queue_, n + 2, Len(global_queue_)) \in Seq(Routines)
        BY <3>1, ShareFacts DEF TypeOK
      <3>3. TakenOK'
        BY <3>1, <3>2, TakesTypes DEF TakesShare
      <3>4. QED
        BY <1>35, <3>1, <3>2, <3>3
           DEF TypeOK, TakenOK, TakeFromGlobalQueue, TakesShare, counters, history
    <2>2. CASE global_queue_ = << >>
      <3>1. TakenOK' /\ UNCHANGED queues
        BY <1>35, <2>2, NothingTypes DEF TakeFromGlobalQueue, Trying, TakesNothing
      <3>2. QED
        BY <1>35, <3>1 DEF TypeOK, TakenOK, TakeFromGlobalQueue, counters, history, queues
    <2>3. QED
      BY <2>1, <2>2
  <1>36. ASSUME NEW w \in Workers, Rob(w) PROVE TypeOK'
    <2>1. CASE TakesNothing(w)
      <3>1. TakenOK' /\ UNCHANGED queues
        BY <1>36, <2>1, NothingTypes DEF Rob, TakesNothing
      <3>2. QED
        BY <1>36, <3>1 DEF TypeOK, TakenOK, Rob, counters, history, queues
    <2>2. ASSUME NEW from \in Workers, Robs(w, from) PROVE TypeOK'
      <3> DEFINE n == kLocalQueueSize \div kRobbedPart
                 taken == Grabbed(local_queues_[from], n)
                 left == Left(local_queues_[from], n)
      <3>1. /\ taken \in Seq(Routines) /\ left \in Seq(Routines)
            /\ Len(left) <= Len(local_queues_[from])
            /\ Len(left) \in Nat /\ Len(local_queues_[from]) \in Nat
        BY GrabFacts, Constants DEF TypeOK
      <3>2. Head(taken) \in Routines /\ Tail(taken) \in Seq(Routines)
        BY <2>2, <3>1, HeadTailFacts DEF Robs
      <3>3. Takes(w, Head(taken), Tail(taken))
            /\ local_queues_' = [local_queues_ EXCEPT ![from] = left]
            /\ UNCHANGED <<global_queue_, lifo_slots_>>
        BY <2>2 DEF Robs
      <3> HIDE DEF taken, left
      <3>4. TakenOK'
        BY <3>2, <3>3, TakesTypes
      <3>5. Len(left) <= kLocalQueueSize
        BY <3>1, Constants DEF TypeOK
      <3>6. QED
        BY <1>36, <3>1, <3>3, <3>4, <3>5 DEF TypeOK, TakenOK, Rob, counters, history
    <2>3. QED
      BY <1>36, <2>1, <2>2, RobCases
  <1>37. ASSUME NEW w \in Workers, BecomeRobber(w) PROVE TypeOK'
    <2>1. CASE TakesNothing(w)
      <3>1. TakenOK' /\ UNCHANGED queues
        BY <1>37, <2>1, NothingTypes DEF BecomeRobber, Trying, TakesNothing
      <3>2. robbers_count_' \in 0..Cardinality(Workers)
        BY <1>37, Constants DEF BecomeRobber, TypeOK
      <3>3. QED
        BY <1>37, <3>1, <3>2 DEF TypeOK, TakenOK, BecomeRobber, history, queues
    <2>2. CASE ~TakesNothing(w)
      <3>1. robbers_count_' \in 0..Cardinality(Workers)
        BY <1>37, Constants DEF BecomeRobber, TypeOK
      <3>2. /\ pc' = [pc EXCEPT ![w] = "rob"]
            /\ UNCHANGED <<queues, taking, transit, routines_in_queue_, routines_wg_, closed,
                           history, todo, old_count>>
        BY <1>37, <2>2 DEF BecomeRobber, transit
      <3>3. QED
        BY <3>1, <3>2 DEF TypeOK, Labels, history, queues, taking, transit
    <2>3. QED
      BY <2>1, <2>2
  <1>38. ASSUME NEW w \in Workers, GrabHalf(w) PROVE TypeOK'
    <2> DEFINE n == kLocalQueueSize \div 2
               taken == Grabbed(local_queues_[w], n)
               left == Left(local_queues_[w], n)
    <2>1. /\ taken \in Seq(Routines) /\ left \in Seq(Routines)
          /\ Len(left) <= Len(local_queues_[w])
          /\ Len(left) \in Nat /\ Len(local_queues_[w]) \in Nat
      BY GrabFacts, Constants DEF TypeOK
    <2>2. /\ pc' = [pc EXCEPT ![w] = IF taken = << >> THEN "move" ELSE "spill"]
          /\ spilled' = [spilled EXCEPT ![w] = taken]
          /\ local_queues_' = [local_queues_ EXCEPT ![w] = left]
      BY <1>38 DEF GrabHalf, Goto
    <2> HIDE DEF taken, left
    <2>3. Len(left) <= kLocalQueueSize
      BY <2>1, Constants DEF TypeOK
    <2>4. QED
      BY <1>38, <2>1, <2>2, <2>3 DEF TypeOK, Labels, GrabHalf, counters, history, taking
  <1>39. QED
    BY <1>1, <1>2, <1>3, <1>4, <1>5, <1>6, <1>7, <1>8, <1>9, <1>10, <1>11, <1>12, <1>13,
       <1>14, <1>15, <1>16, <1>17, <1>18, <1>19, <1>20, <1>21, <1>22, <1>23, <1>24, <1>25,
       <1>26, <1>27, <1>28, <1>29, <1>30, <1>31, <1>32, <1>33, <1>34, <1>35, <1>36, <1>37,
       <1>38, Constants DEF Next, WorkerStep, ClientStep, Execute

------------------------------------------------------------------------------
\* A worker that takes a routine, or nothing.
LEMMA TakesWorker ==
    ASSUME TypeOK, WorkerInv, NEW w \in Workers, pc[w] \in {"take", "rob"},
           NEW r, NEW rest, r # Null, Takes(w, r, rest), UNCHANGED <<spilled, todo, variant>>
    PROVE  WorkerInv'
  <1>1. /\ pc \in [Actors -> Labels] /\ steps \in [Workers -> Seq(Range(DefaultTakeStrategy))]
        /\ routine \in [Workers -> Routines \cup {Null}]
        /\ moving \in [Workers -> Seq(Routines)]
    BY DEF TypeOK
  <1>2. QED
    BY <1>1, Constants DEF WorkerInv, Running, Loading, WithWaitIdle, Takes

LEMMA NothingWorker ==
    ASSUME TypeOK, WorkerInv, NEW w \in Workers, pc[w] \in {"take", "rob"},
           TakesNothing(w), UNCHANGED <<spilled, todo, variant>>
    PROVE  WorkerInv'
  <1>1. /\ pc \in [Actors -> Labels] /\ steps \in [Workers -> Seq(Range(DefaultTakeStrategy))]
    BY DEF TypeOK
  <1>2. steps[w] # << >> /\ (Len(steps[w]) = 1 <=> Tail(steps[w]) = << >>)
    BY <1>1, HeadTailFacts DEF WorkerInv
  <1>3. QED
    BY <1>1, <1>2, Constants DEF WorkerInv, Running, Loading, WithWaitIdle, TakesNothing

\* What a worker has at hand goes with where it is in the code.
LEMMA WorkerInvStep ==
    ASSUME Inv, Next PROVE WorkerInv'
  <1>a. /\ variant' = variant /\ WorkerInv /\ TypeOK
        /\ \A w \in Workers : w \in Actors /\ w \notin Clients
        /\ \A c \in Clients : c \in Actors /\ c \notin Workers
    BY Constants DEF Inv, Next
  <1>b. /\ pc \in [Actors -> Labels] /\ todo \in [Actors -> Seq(Calls)]
        /\ steps \in [Workers -> Seq(Range(DefaultTakeStrategy))]
        /\ routine \in [Workers -> Routines \cup {Null}] /\ moving \in [Workers -> Seq(Routines)]
        /\ spilled \in [Workers -> Seq(Routines)]
    BY DEF Inv, TypeOK
  <1>1. ASSUME NEW a \in Actors, ExecuteAdd(a) PROVE WorkerInv'
    BY <1>1, <1>a, <1>b
       DEF WorkerInv, Running, Loading, WithWaitIdle, ExecuteAdd, Goto, Caller, Submits, Next_,
           transit, taking
  <1>2. ASSUME NEW a \in Actors, PushGlobal(a) PROVE WorkerInv'
    BY <1>2, <1>a, <1>b
       DEF WorkerInv, Running, Loading, WithWaitIdle, PushGlobal, Goto, Caller, transit, taking
  <1>3. ASSUME NEW a \in Actors, Count(a) PROVE WorkerInv'
    BY <1>3, <1>a, <1>b
       DEF WorkerInv, Running, Loading, WithWaitIdle, Count, Goto, Caller, transit, taking
  <1>4. ASSUME NEW a \in Actors, NotifyOne(a) PROVE WorkerInv'
    BY <1>4, <1>a, <1>b
       DEF WorkerInv, Running, Loading, WithWaitIdle, NotifyOne, Goto, Caller, Asleep, transit,
           taking
  <1>5. ASSUME NEW a \in Actors, PlainExecute(a) PROVE WorkerInv'
    BY <1>5, <1>a, <1>b
       DEF WorkerInv, Running, Loading, WithWaitIdle, PlainExecute, Goto, Caller, Submits,
           Next_, transit, taking
  <1>6. ASSUME NEW a \in Actors, PlainPushed(a) PROVE WorkerInv'
    BY <1>6, <1>a, <1>b
       DEF WorkerInv, Running, Loading, WithWaitIdle, PlainPushed, Goto, Caller, transit,
           taking
  <1>7. ASSUME NEW w \in Workers, Exit(w) PROVE WorkerInv'
    BY <1>7, <1>a, <1>b DEF WorkerInv, Running, Loading, WithWaitIdle, Exit, Goto, transit, taking
  <1>8. ASSUME NEW w \in Workers, ChooseStrategy(w) PROVE WorkerInv'
    <2>1. /\ DefaultTakeStrategy # << >> /\ GlobalQueueTakeStrategy # << >>
          /\ WithoutLIFOSlotTakeStrategy # << >>
      BY DEF DefaultTakeStrategy, GlobalQueueTakeStrategy, WithoutLIFOSlotTakeStrategy
    <2>2. steps'[w] # << >> /\ \A v \in Workers : v # w => steps'[v] = steps[v]
      BY <1>8, <1>b, <2>1 DEF ChooseStrategy
    <2>3. QED
      BY <1>8, <1>a, <1>b, <2>2
         DEF WorkerInv, Running, Loading, WithWaitIdle, ChooseStrategy, Goto, transit, taking
  <1>9. ASSUME NEW w \in Workers, TakeFromLIFOSlot(w) PROVE WorkerInv'
    <2>1. ASSUME lifo_slots_[w] # Null, Takes(w, lifo_slots_[w], << >>) PROVE WorkerInv'
      BY <1>9, <2>1, <1>a, TakesWorker DEF TakeFromLIFOSlot, Trying
    <2>2. QED
      BY <1>9, <2>1, <1>a, NothingWorker DEF TakeFromLIFOSlot, Trying
  <1>10. ASSUME NEW w \in Workers, TakeFromLocalQueue(w) PROVE WorkerInv'
    <2>1. ASSUME local_queues_[w] # << >>, Takes(w, Head(local_queues_[w]), << >>)
          PROVE  WorkerInv'
      <3>1. Head(local_queues_[w]) # Null
        BY <2>1, HeadTailFacts, PoolAssumption DEF Inv, TypeOK
      <3>2. QED
        BY <1>10, <2>1, <3>1, <1>a, TakesWorker DEF TakeFromLocalQueue, Trying
    <2>2. QED
      BY <1>10, <2>1, <1>a, NothingWorker DEF TakeFromLocalQueue, Trying
  <1>11. ASSUME NEW w \in Workers, TakeFromGlobalQueue(w) PROVE WorkerInv'
    <2>1. CASE global_queue_ # << >>
      <3>1. PICK n \in Nat : n < Len(global_queue_) /\ TakesShare(w, n)
        BY <1>11, <2>1, GlobalShare DEF Inv
      <3>2. Head(global_queue_) # Null
        BY <2>1, HeadTailFacts, PoolAssumption DEF Inv, TypeOK
      <3>3. QED
        BY <1>11, <3>1, <3>2, <1>a, TakesWorker
           DEF TakeFromGlobalQueue, TakesShare, Trying
    <2>2. CASE global_queue_ = << >>
      BY <1>11, <2>2, <1>a, NothingWorker DEF TakeFromGlobalQueue, Trying
    <2>3. QED
      BY <2>1, <2>2
  <1>12. ASSUME NEW w \in Workers, BecomeRobber(w) PROVE WorkerInv'
    <2>1. CASE TakesNothing(w)
      BY <1>12, <2>1, <1>a, NothingWorker DEF BecomeRobber, Trying
    <2>2. CASE ~TakesNothing(w)
      BY <1>12, <2>2, <1>a, <1>b
         DEF WorkerInv, Running, Loading, WithWaitIdle, BecomeRobber, Trying, transit, taking
    <2>3. QED
      BY <2>1, <2>2
  <1>13. ASSUME NEW w \in Workers, Rob(w) PROVE WorkerInv'
    <2>1. CASE TakesNothing(w)
      BY <1>13, <2>1, <1>a, NothingWorker DEF Rob
    <2>2. ASSUME NEW from \in Workers, Robs(w, from) PROVE WorkerInv'
      <3> DEFINE taken == Grabbed(local_queues_[from], kLocalQueueSize \div kRobbedPart)
      <3>1. taken \in Seq(Routines) /\ taken # << >> /\ Takes(w, Head(taken), Tail(taken))
        BY <2>2, GrabFacts, Constants DEF Robs, Inv, TypeOK
      <3> HIDE DEF taken
      <3>2. Head(taken) # Null
        BY <3>1, HeadTailFacts, PoolAssumption
      <3>3. QED
        BY <1>13, <3>1, <3>2, <1>a, TakesWorker DEF Rob
    <2>3. QED
      BY <1>13, <2>1, <2>2, RobCases
  <1>14. ASSUME NEW w \in Workers, CountTaken(w) PROVE WorkerInv'
    BY <1>14, <1>a, <1>b
       DEF WorkerInv, Running, Loading, WithWaitIdle, CountTaken, Goto, transit, taking
  <1>15. ASSUME NEW w \in Workers, PushLocal(w) PROVE WorkerInv'
    BY <1>15, <1>a, <1>b
       DEF WorkerInv, Running, Loading, WithWaitIdle, PushLocal, Goto, transit, taking
  <1>16. ASSUME NEW w \in Workers, PushLIFO(w) PROVE WorkerInv'
    BY <1>16, <1>a, <1>b
       DEF WorkerInv, Running, Loading, WithWaitIdle, PushLIFO, Goto, transit, taking
  <1>17. ASSUME NEW w \in Workers, Move(w) PROVE WorkerInv'
    <2>1. moving[w] # << >> /\ (Len(moving[w]) = 1 <=> Tail(moving[w]) = << >>)
      BY <1>17, <1>a, <1>b, HeadTailFacts DEF WorkerInv, Loading, Move, Goto
    <2>2. QED
      BY <1>17, <1>a, <1>b, <2>1
         DEF WorkerInv, Running, Loading, WithWaitIdle, Move, Goto, AfterMove, taking
  <1>18. ASSUME NEW w \in Workers, MoveFails(w) PROVE WorkerInv'
    BY <1>18, <1>a, <1>b
       DEF WorkerInv, Running, Loading, WithWaitIdle, MoveFails, Goto, transit, taking
  <1>19. ASSUME NEW w \in Workers, GrabHalf(w) PROVE WorkerInv'
    BY <1>19, <1>a, <1>b
       DEF WorkerInv, Running, Loading, WithWaitIdle, GrabHalf, Goto, transit, taking
  <1>20. ASSUME NEW w \in Workers, Spill(w) PROVE WorkerInv'
    BY <1>20, <1>a, <1>b
       DEF WorkerInv, Running, Loading, WithWaitIdle, Spill, Goto, transit, taking
  <1>21. ASSUME NEW w \in Workers, Return(w) PROVE WorkerInv'
    BY <1>21, <1>a, <1>b
       DEF WorkerInv, Running, Loading, WithWaitIdle, Return, Goto, transit, taking
  <1>22. ASSUME NEW w \in Workers, Done(w) PROVE WorkerInv'
    BY <1>22, <1>a, <1>b
       DEF WorkerInv, Running, Loading, WithWaitIdle, Done, Goto, transit, taking
  <1>23. ASSUME NEW w \in Workers, NotifyIdle(w, "notifyIdle", "loop") PROVE WorkerInv'
    BY <1>23, <1>a, <1>b
       DEF WorkerInv, Running, Loading, WithWaitIdle, NotifyIdle, Goto, transit, taking
  <1>24. ASSUME NEW w \in Workers, Wait(w) PROVE WorkerInv'
    BY <1>24, <1>a, <1>b
       DEF WorkerInv, Running, Loading, WithWaitIdle, Wait, Goto, transit, taking
  <1>25. ASSUME NEW w \in Workers, PlainRun(w) PROVE WorkerInv'
    BY <1>25, <1>a, <1>b
       DEF WorkerInv, Running, Loading, WithWaitIdle, PlainRun, Goto, transit, taking
  <1>26. ASSUME NEW w \in Workers, PlainReturn(w) PROVE WorkerInv'
    BY <1>26, <1>a, <1>b
       DEF WorkerInv, Running, Loading, WithWaitIdle, PlainReturn, Goto, transit, taking
  <1>27. ASSUME NEW w \in Workers, PlainSpin(w) PROVE WorkerInv'
    BY <1>27, <1>a, <1>b
       DEF WorkerInv, Running, Loading, WithWaitIdle, PlainSpin, Goto, transit, taking
  <1>28. ASSUME NEW c \in Clients, WaitIdle(c) PROVE WorkerInv'
    BY <1>28, <1>a, <1>b
       DEF WorkerInv, Running, Loading, WithWaitIdle, WaitIdle, Goto, transit, taking
  <1>29. ASSUME NEW c \in Clients, IdleLoad(c) PROVE WorkerInv'
    BY <1>29, <1>a, <1>b
       DEF WorkerInv, Running, Loading, WithWaitIdle, IdleLoad, Goto, transit, taking
  <1>30. ASSUME NEW c \in Clients, IdleCheck(c) PROVE WorkerInv'
    BY <1>30, <1>a, <1>b
       DEF WorkerInv, Running, Loading, WithWaitIdle, IdleCheck, Goto, transit, taking
  <1>31. ASSUME NEW c \in Clients, StopAdd(c) PROVE WorkerInv'
    BY <1>31, <1>a, <1>b
       DEF WorkerInv, Running, Loading, WithWaitIdle, StopAdd, Goto, transit, taking
  <1>32. ASSUME NEW c \in Clients, StopNotify(c) PROVE WorkerInv'
    BY <1>32, <1>a, <1>b
       DEF WorkerInv, Running, Loading, WithWaitIdle, StopNotify, Goto, Asleep, transit, taking
  <1>33. ASSUME NEW c \in Clients, Close(c) PROVE WorkerInv'
    BY <1>33, <1>a, <1>b
       DEF WorkerInv, Running, Loading, WithWaitIdle, Close, Goto, transit, taking
  <1>34. ASSUME NEW c \in Clients, Join(c) PROVE WorkerInv'
    BY <1>34, <1>a, <1>b
       DEF WorkerInv, Running, Loading, WithWaitIdle, Join, Goto, transit, taking
  <1>35. ASSUME NEW c \in Clients, NotifyIdle(c, "allDone", "idle") PROVE WorkerInv'
    BY <1>35, <1>a, <1>b
       DEF WorkerInv, Running, Loading, WithWaitIdle, NotifyIdle, Goto, transit, taking
  <1>36. ASSUME NEW c \in Clients, PlainStop(c) PROVE WorkerInv'
    BY <1>36, <1>a, <1>b
       DEF WorkerInv, Running, Loading, WithWaitIdle, PlainStop, Goto, transit, taking
  <1>37. ASSUME NEW c \in Clients, PlainJoin(c) PROVE WorkerInv'
    BY <1>37, <1>a, <1>b
       DEF WorkerInv, Running, Loading, WithWaitIdle, PlainJoin, Goto, transit, taking
  <1>38. ASSUME NEW c \in Clients, Destroy(c) PROVE WorkerInv'
    BY <1>38, <1>a, <1>b
       DEF WorkerInv, Running, Loading, WithWaitIdle, Destroy, Goto, transit, taking
  <1>39. QED
    BY <1>1, <1>2, <1>3, <1>4, <1>5, <1>6, <1>7, <1>8, <1>9, <1>10, <1>11, <1>12, <1>13, <1>14,
       <1>15, <1>16, <1>17, <1>18, <1>19, <1>20, <1>21, <1>22, <1>23, <1>24, <1>25, <1>26,
       <1>27, <1>28, <1>29, <1>30, <1>31, <1>32, <1>33, <1>34, <1>35, <1>36, <1>37, <1>38,
       Constants DEF Next, WorkerStep, ClientStep, Execute

------------------------------------------------------------------------------
\* A notification wakes a worker at most, if any sleeps.
LEMMA NotifyOneWakes ==
    ASSUME TypeOK, NEW a \in Actors, NotifyOne(a)
    PROVE  /\ pc[a] = "notify" /\ pc'[a] = Caller(a)
           /\ \A b \in Actors : b # a => \/ pc'[b] = pc[b]
                                         \/ b \in Workers /\ pc[b] = "asleep" /\ pc'[b] = "wait"
           /\ Asleep # {} => \E w \in Workers : pc'[w] = "wait"
  <1>1. pc \in [Actors -> Labels] /\ pc[a] = "notify"
    BY DEF TypeOK, NotifyOne
  <1>2. CASE Asleep = {}
    BY <1>1, <1>2 DEF NotifyOne
  <1>3. CASE Asleep # {}
    <2>1. PICK v \in Asleep : pc' = [pc EXCEPT ![a] = Caller(a), ![v] = "wait"]
      BY <1>3 DEF NotifyOne
    <2>2. v \in Workers /\ v # a /\ v \in Actors /\ pc[v] = "asleep"
      BY <1>1, Constants DEF Asleep
    <2>3. QED
      BY <1>1, <2>1, <2>2
  <1>4. QED
    BY <1>2, <1>3

\* A client is in the call that its script says.
LEMMA CallInvStep ==
    ASSUME Inv, Next PROVE CallInv'
  <1>a. /\ CallInv /\ WorkerInv
        /\ \A w \in Workers : w \in Actors /\ w \notin Clients
        /\ \A c \in Clients : c \in Actors /\ c \notin Workers
    BY Constants DEF Inv, Next
  <1>b. /\ pc \in [Actors -> Labels] /\ todo \in [Actors -> Seq(Calls)]
        /\ closed \in [Workers -> BOOLEAN]
    BY DEF Inv, TypeOK
  <1>1. ASSUME NEW a \in Actors, ExecuteAdd(a) PROVE CallInv'
    BY <1>1, <1>a, <1>b
       DEF CallInv, Call, Next_, Loading, ExecuteAdd, Goto, Caller, Submits, Next_, counters
  <1>2. ASSUME NEW a \in Actors, PushGlobal(a) PROVE CallInv'
    BY <1>2, <1>a, <1>b DEF CallInv, Call, Next_, Loading, PushGlobal, Goto, Caller, counters
  <1>3. ASSUME NEW a \in Actors, Count(a) PROVE CallInv'
    BY <1>3, <1>a, <1>b DEF CallInv, Call, Next_, Loading, Count, Goto, Caller, counters
  <1>4. ASSUME NEW a \in Actors, NotifyOne(a) PROVE CallInv'
    <2>1. /\ pc[a] = "notify" /\ pc'[a] = Caller(a) /\ UNCHANGED <<todo, closed>>
          /\ \A b \in Actors : b # a => \/ pc'[b] = pc[b]
                                        \/ b \in Workers /\ pc[b] = "asleep" /\ pc'[b] = "wait"
      BY <1>4, NotifyOneWakes DEF NotifyOne, Inv, counters
    <2>2. pc'[a] = IF a \in Workers THEN "run" ELSE "idle"
      BY <2>1 DEF Caller
    <2>3. QED
      BY <1>a, <1>b, <2>1, <2>2 DEF CallInv, Call, Next_, Loading
  <1>5. ASSUME NEW a \in Actors, PlainExecute(a) PROVE CallInv'
    BY <1>5, <1>a, <1>b
       DEF CallInv, Call, Next_, Loading, PlainExecute, Goto, Caller, Submits, Next_, counters
  <1>6. ASSUME NEW a \in Actors, PlainPushed(a) PROVE CallInv'
    BY <1>6, <1>a, <1>b DEF CallInv, Call, Next_, Loading, PlainPushed, Goto, Caller, counters
  <1>7. ASSUME NEW w \in Workers, Exit(w) PROVE CallInv'
    BY <1>7, <1>a, <1>b DEF CallInv, Call, Next_, Loading, Exit, Goto, counters
  <1>8. ASSUME NEW w \in Workers, ChooseStrategy(w) PROVE CallInv'
    BY <1>8, <1>a, <1>b DEF CallInv, Call, Next_, Loading, ChooseStrategy, Goto, counters
  <1>9. ASSUME NEW w \in Workers, TakeFromLIFOSlot(w) PROVE CallInv'
    BY <1>9, <1>a, <1>b
       DEF CallInv, Call, Next_, Loading, TakeFromLIFOSlot, Goto, Takes, TakesNothing, Trying,
           counters
  <1>10. ASSUME NEW w \in Workers, TakeFromLocalQueue(w) PROVE CallInv'
    BY <1>10, <1>a, <1>b
       DEF CallInv, Call, Next_, Loading, TakeFromLocalQueue, Goto, Takes, TakesNothing,
           Trying, counters
  <1>11. ASSUME NEW w \in Workers, TakeFromGlobalQueue(w) PROVE CallInv'
    <2>1. /\ todo[w] = << >> /\ UNCHANGED <<todo, closed>>
          /\ \E to \in {"taken", "move", "wait", "take"} : pc' = [pc EXCEPT ![w] = to]
      BY <1>11, <1>a
         DEF TakeFromGlobalQueue, Trying, Takes, TakesNothing, WorkerInv, Running, Loading,
             counters
    <2>2. QED
      BY <1>a, <1>b, <2>1 DEF CallInv, Call, Next_, Loading
  <1>12. ASSUME NEW w \in Workers, BecomeRobber(w) PROVE CallInv'
    BY <1>12, <1>a, <1>b
       DEF CallInv, Call, Next_, Loading, BecomeRobber, Goto, TakesNothing, Trying, counters
  <1>13. ASSUME NEW w \in Workers, Rob(w) PROVE CallInv'
    <2>1. /\ todo[w] = << >> /\ UNCHANGED <<todo, closed>>
          /\ \E to \in {"taken", "move", "wait", "take"} : pc' = [pc EXCEPT ![w] = to]
      BY <1>13, <1>a DEF Rob, Trying, Takes, TakesNothing, WorkerInv, Running, Loading, counters
    <2>2. QED
      BY <1>a, <1>b, <2>1 DEF CallInv, Call, Next_, Loading
  <1>14. ASSUME NEW w \in Workers, CountTaken(w) PROVE CallInv'
    BY <1>14, <1>a, <1>b DEF CallInv, Call, Next_, Loading, CountTaken, Goto, counters
  <1>15. ASSUME NEW w \in Workers, PushLocal(w) PROVE CallInv'
    BY <1>15, <1>a, <1>b DEF CallInv, Call, Next_, Loading, PushLocal, Goto, counters
  <1>16. ASSUME NEW w \in Workers, PushLIFO(w) PROVE CallInv'
    BY <1>16, <1>a, <1>b DEF CallInv, Call, Next_, Loading, PushLIFO, Goto, counters
  <1>17. ASSUME NEW w \in Workers, Move(w) PROVE CallInv'
    BY <1>17, <1>a, <1>b DEF CallInv, Call, Next_, Loading, Move, Goto, AfterMove, counters
  <1>18. ASSUME NEW w \in Workers, MoveFails(w) PROVE CallInv'
    BY <1>18, <1>a, <1>b DEF CallInv, Call, Next_, Loading, MoveFails, Goto, counters
  <1>19. ASSUME NEW w \in Workers, GrabHalf(w) PROVE CallInv'
    BY <1>19, <1>a, <1>b DEF CallInv, Call, Next_, Loading, GrabHalf, Goto, counters
  <1>20. ASSUME NEW w \in Workers, Spill(w) PROVE CallInv'
    BY <1>20, <1>a, <1>b DEF CallInv, Call, Next_, Loading, Spill, Goto, counters
  <1>21. ASSUME NEW w \in Workers, Return(w) PROVE CallInv'
    BY <1>21, <1>a, <1>b DEF CallInv, Call, Next_, Loading, Return, Goto, counters
  <1>22. ASSUME NEW w \in Workers, Done(w) PROVE CallInv'
    BY <1>22, <1>a, <1>b DEF CallInv, Call, Next_, Loading, Done, Goto, counters
  <1>23. ASSUME NEW w \in Workers, NotifyIdle(w, "notifyIdle", "loop") PROVE CallInv'
    BY <1>23, <1>a, <1>b DEF CallInv, Call, Next_, Loading, NotifyIdle, Goto, counters
  <1>24. ASSUME NEW w \in Workers, Wait(w) PROVE CallInv'
    BY <1>24, <1>a, <1>b DEF CallInv, Call, Next_, Loading, Wait, Goto, counters
  <1>25. ASSUME NEW w \in Workers, PlainRun(w) PROVE CallInv'
    BY <1>25, <1>a, <1>b DEF CallInv, Call, Next_, Loading, PlainRun, Goto, counters
  <1>26. ASSUME NEW w \in Workers, PlainReturn(w) PROVE CallInv'
    BY <1>26, <1>a, <1>b DEF CallInv, Call, Next_, Loading, PlainReturn, Goto, counters
  <1>27. ASSUME NEW w \in Workers, PlainSpin(w) PROVE CallInv'
    BY <1>27, <1>a, <1>b DEF CallInv, Call, Next_, Loading, PlainSpin, Goto, counters
  <1>28. ASSUME NEW c \in Clients, WaitIdle(c) PROVE CallInv'
    BY <1>28, <1>a, <1>b DEF CallInv, Call, Next_, Loading, WaitIdle, Goto, counters
  <1>29. ASSUME NEW c \in Clients, IdleLoad(c) PROVE CallInv'
    BY <1>29, <1>a, <1>b DEF CallInv, Call, Next_, Loading, IdleLoad, Goto, counters
  <1>30. ASSUME NEW c \in Clients, IdleCheck(c) PROVE CallInv'
    BY <1>30, <1>a, <1>b DEF CallInv, Call, Next_, Loading, IdleCheck, Goto, counters
  <1>31. ASSUME NEW c \in Clients, StopAdd(c) PROVE CallInv'
    BY <1>31, <1>a, <1>b DEF CallInv, Call, Next_, Loading, StopAdd, Goto, counters
  <1>32. ASSUME NEW c \in Clients, StopNotify(c) PROVE CallInv'
    BY <1>32, <1>a, <1>b DEF CallInv, Call, Next_, Loading, StopNotify, Goto, Asleep, counters
  <1>33. ASSUME NEW c \in Clients, Close(c) PROVE CallInv'
    BY <1>33, <1>a, <1>b DEF CallInv, Call, Next_, Loading, Close, Goto, counters
  <1>34. ASSUME NEW c \in Clients, Join(c) PROVE CallInv'
    BY <1>34, <1>a, <1>b DEF CallInv, Call, Next_, Loading, Join, Goto, counters
  <1>35. ASSUME NEW c \in Clients, NotifyIdle(c, "allDone", "idle") PROVE CallInv'
    BY <1>35, <1>a, <1>b DEF CallInv, Call, Next_, Loading, NotifyIdle, Goto, counters
  <1>36. ASSUME NEW c \in Clients, PlainStop(c) PROVE CallInv'
    BY <1>36, <1>a, <1>b DEF CallInv, Call, Next_, Loading, PlainStop, Goto, counters
  <1>37. ASSUME NEW c \in Clients, PlainJoin(c) PROVE CallInv'
    BY <1>37, <1>a, <1>b DEF CallInv, Call, Next_, Loading, PlainJoin, Goto, counters
  <1>38. ASSUME NEW c \in Clients, Destroy(c) PROVE CallInv'
    BY <1>38, <1>a, <1>b DEF CallInv, Call, Next_, Loading, Destroy, Goto, counters
  <1>39. QED
    BY <1>1, <1>2, <1>3, <1>4, <1>5, <1>6, <1>7, <1>8, <1>9, <1>10, <1>11, <1>12, <1>13, <1>14,
       <1>15, <1>16, <1>17, <1>18, <1>19, <1>20, <1>21, <1>22, <1>23, <1>24, <1>25, <1>26,
       <1>27, <1>28, <1>29, <1>30, <1>31, <1>32, <1>33, <1>34, <1>35, <1>36, <1>37, <1>38,
       Constants DEF Next, WorkerStep, ClientStep, Execute

------------------------------------------------------------------------------
\* A pool is stopped once and for all.
LEMMA StoppedStep ==
    ASSUME Inv, Next
    PROVE  /\ Stopped => Stopped'
           /\ Stopped' => Stopped \/ \E c \in Clients : StopAdd(c) \/ PlainStop(c)
  <1>a. /\ \A c \in Clients : pc[c] \in {"join", "allDone"} => \E w \in Workers : closed[w]
        /\ \A w \in Workers : w \in Actors /\ w \notin Clients
        /\ \A c \in Clients : c \in Actors /\ c \notin Workers
    BY Constants DEF Inv, CallInv
  <1>b. pc \in [Actors -> Labels] /\ closed \in [Workers -> BOOLEAN]
    BY DEF Inv, TypeOK
  <1>1. ASSUME NEW a \in Actors, ExecuteAdd(a) PROVE Stopped' <=> Stopped
    BY <1>1, <1>a, <1>b DEF Stopped, ExecuteAdd, Goto, Caller, Submits, Next_, counters
  <1>2. ASSUME NEW a \in Actors, PushGlobal(a) PROVE Stopped' <=> Stopped
    BY <1>2, <1>a, <1>b DEF Stopped, PushGlobal, Goto, Caller, counters
  <1>3. ASSUME NEW a \in Actors, Count(a) PROVE Stopped' <=> Stopped
    BY <1>3, <1>a, <1>b DEF Stopped, Count, Goto, Caller, counters
  <1>4. ASSUME NEW a \in Actors, NotifyOne(a) PROVE Stopped' <=> Stopped
    BY <1>4, <1>a, <1>b DEF Stopped, NotifyOne, Goto, Caller, Asleep, counters
  <1>5. ASSUME NEW a \in Actors, PlainExecute(a) PROVE Stopped' <=> Stopped
    BY <1>5, <1>a, <1>b DEF Stopped, PlainExecute, Goto, Caller, Submits, Next_, counters
  <1>6. ASSUME NEW a \in Actors, PlainPushed(a) PROVE Stopped' <=> Stopped
    BY <1>6, <1>a, <1>b DEF Stopped, PlainPushed, Goto, Caller, counters
  <1>7. ASSUME NEW w \in Workers, Exit(w) PROVE Stopped' <=> Stopped
    BY <1>7, <1>a, <1>b DEF Stopped, Exit, Goto, counters
  <1>8. ASSUME NEW w \in Workers, ChooseStrategy(w) PROVE Stopped' <=> Stopped
    BY <1>8, <1>a, <1>b DEF Stopped, ChooseStrategy, Goto, counters
  <1>9. ASSUME NEW w \in Workers, TakeFromLIFOSlot(w) PROVE Stopped' <=> Stopped
    BY <1>9, <1>a, <1>b DEF Stopped, TakeFromLIFOSlot, Goto, Takes, TakesNothing, Trying, counters
  <1>10. ASSUME NEW w \in Workers, TakeFromLocalQueue(w) PROVE Stopped' <=> Stopped
    BY <1>10, <1>a, <1>b
       DEF Stopped, TakeFromLocalQueue, Goto, Takes, TakesNothing, Trying, counters
  <1>11. ASSUME NEW w \in Workers, TakeFromGlobalQueue(w) PROVE Stopped' <=> Stopped
    BY <1>11, <1>a, <1>b
       DEF Stopped, TakeFromGlobalQueue, Goto, Takes, TakesNothing, Trying, counters
  <1>12. ASSUME NEW w \in Workers, BecomeRobber(w) PROVE Stopped' <=> Stopped
    BY <1>12, <1>a, <1>b DEF Stopped, BecomeRobber, Goto, TakesNothing, Trying, counters
  <1>13. ASSUME NEW w \in Workers, Rob(w) PROVE Stopped' <=> Stopped
    BY <1>13, <1>a, <1>b DEF Stopped, Rob, Goto, Takes, TakesNothing, Trying, counters
  <1>14. ASSUME NEW w \in Workers, CountTaken(w) PROVE Stopped' <=> Stopped
    BY <1>14, <1>a, <1>b DEF Stopped, CountTaken, Goto, counters
  <1>15. ASSUME NEW w \in Workers, PushLocal(w) PROVE Stopped' <=> Stopped
    BY <1>15, <1>a, <1>b DEF Stopped, PushLocal, Goto, counters
  <1>16. ASSUME NEW w \in Workers, PushLIFO(w) PROVE Stopped' <=> Stopped
    BY <1>16, <1>a, <1>b DEF Stopped, PushLIFO, Goto, counters
  <1>17. ASSUME NEW w \in Workers, Move(w) PROVE Stopped' <=> Stopped
    BY <1>17, <1>a, <1>b DEF Stopped, Move, Goto, AfterMove, counters
  <1>18. ASSUME NEW w \in Workers, MoveFails(w) PROVE Stopped' <=> Stopped
    BY <1>18, <1>a, <1>b DEF Stopped, MoveFails, Goto, counters
  <1>19. ASSUME NEW w \in Workers, GrabHalf(w) PROVE Stopped' <=> Stopped
    BY <1>19, <1>a, <1>b DEF Stopped, GrabHalf, Goto, counters
  <1>20. ASSUME NEW w \in Workers, Spill(w) PROVE Stopped' <=> Stopped
    BY <1>20, <1>a, <1>b DEF Stopped, Spill, Goto, counters
  <1>21. ASSUME NEW w \in Workers, Return(w) PROVE Stopped' <=> Stopped
    BY <1>21, <1>a, <1>b DEF Stopped, Return, Goto, counters
  <1>22. ASSUME NEW w \in Workers, Done(w) PROVE Stopped' <=> Stopped
    BY <1>22, <1>a, <1>b DEF Stopped, Done, Goto, counters
  <1>23. ASSUME NEW w \in Workers, NotifyIdle(w, "notifyIdle", "loop") PROVE Stopped' <=> Stopped
    BY <1>23, <1>a, <1>b DEF Stopped, NotifyIdle, Goto, counters
  <1>24. ASSUME NEW w \in Workers, Wait(w) PROVE Stopped' <=> Stopped
    BY <1>24, <1>a, <1>b DEF Stopped, Wait, Goto, counters
  <1>25. ASSUME NEW w \in Workers, PlainRun(w) PROVE Stopped' <=> Stopped
    BY <1>25, <1>a, <1>b DEF Stopped, PlainRun, Goto, counters
  <1>26. ASSUME NEW w \in Workers, PlainReturn(w) PROVE Stopped' <=> Stopped
    BY <1>26, <1>a, <1>b DEF Stopped, PlainReturn, Goto, counters
  <1>27. ASSUME NEW w \in Workers, PlainSpin(w) PROVE Stopped' <=> Stopped
    BY <1>27, <1>a, <1>b DEF Stopped, PlainSpin, Goto, counters
  <1>28. ASSUME NEW c \in Clients, WaitIdle(c) PROVE Stopped' <=> Stopped
    BY <1>28, <1>a, <1>b DEF Stopped, WaitIdle, Goto, counters
  <1>29. ASSUME NEW c \in Clients, IdleLoad(c) PROVE Stopped' <=> Stopped
    BY <1>29, <1>a, <1>b DEF Stopped, IdleLoad, Goto, counters
  <1>30. ASSUME NEW c \in Clients, IdleCheck(c) PROVE Stopped' <=> Stopped
    BY <1>30, <1>a, <1>b DEF Stopped, IdleCheck, Goto, counters
  <1>31. ASSUME NEW c \in Clients, StopAdd(c) PROVE Stopped'
    BY <1>31, <1>a, <1>b DEF Stopped, StopAdd, Goto, counters
  <1>32. ASSUME NEW c \in Clients, StopNotify(c) PROVE Stopped' <=> Stopped
    BY <1>32, <1>a, <1>b DEF Stopped, StopNotify, Goto, Asleep, counters
  <1>33. ASSUME NEW c \in Clients, Close(c) PROVE Stopped' <=> Stopped
    BY <1>33, <1>a, <1>b DEF Stopped, Close, Goto, counters
  <1>34. ASSUME NEW c \in Clients, Join(c) PROVE Stopped' <=> Stopped
    BY <1>34, <1>a, <1>b DEF Stopped, Join, Goto, counters
  <1>35. ASSUME NEW c \in Clients, NotifyIdle(c, "allDone", "idle") PROVE Stopped' <=> Stopped
    BY <1>35, <1>a, <1>b DEF Stopped, NotifyIdle, Goto, counters
  <1>36. ASSUME NEW c \in Clients, PlainStop(c) PROVE Stopped'
    BY <1>36, <1>a, <1>b DEF Stopped, PlainStop, Goto, counters
  <1>37. ASSUME NEW c \in Clients, PlainJoin(c) PROVE Stopped' <=> Stopped
    BY <1>37, <1>a, <1>b DEF Stopped, PlainJoin, Goto, counters
  <1>38. ASSUME NEW c \in Clients, Destroy(c) PROVE Stopped' <=> Stopped
    BY <1>38, <1>a, <1>b DEF Stopped, Destroy, Goto, counters
  <1>39. QED
    BY <1>1, <1>2, <1>3, <1>4, <1>5, <1>6, <1>7, <1>8, <1>9, <1>10, <1>11, <1>12, <1>13, <1>14,
       <1>15, <1>16, <1>17, <1>18, <1>19, <1>20, <1>21, <1>22, <1>23, <1>24, <1>25, <1>26,
       <1>27, <1>28, <1>29, <1>30, <1>31, <1>32, <1>33, <1>34, <1>35, <1>36, <1>37, <1>38,
       Constants DEF Next, WorkerStep, ClientStep, Execute

------------------------------------------------------------------------------
\* A client's script is worked off from the front, and the call of Stop is
\* over when it is removed.
TodoShrinks ==
    \A c \in Clients :
        /\ todo'[c] = todo[c] \/ (todo[c] # << >> /\ todo'[c] = Tail(todo[c]))
        /\ pc[c] \in {"stopNotify", "close", "join"} =>
               pc'[c] \in {"stopNotify", "close", "join"} \/ todo'[c] = Tail(todo[c])
LEMMA TodoStep ==
    ASSUME Inv, Next PROVE TodoShrinks
  <1>a. /\ \A w \in Workers : w \in Actors /\ w \notin Clients
        /\ \A c \in Clients : c \in Actors /\ c \notin Workers
        /\ \A a \in Actors : pc[a] = "count" => todo[a] # << >>
        /\ \A c \in Clients : pc[c] \in {"idleLoad", "join"} => todo[c] # << >>
    BY Constants DEF Inv, CallInv, Next_
  <1>b. pc \in [Actors -> Labels] /\ todo \in [Actors -> Seq(Calls)]
    BY DEF Inv, TypeOK
  <1>1. ASSUME NEW a \in Actors, ExecuteAdd(a) PROVE TodoShrinks
    BY <1>1, <1>a, <1>b DEF TodoShrinks, ExecuteAdd, Goto, Caller, Submits, Next_, counters
  <1>2. ASSUME NEW a \in Actors, PushGlobal(a) PROVE TodoShrinks
    BY <1>2, <1>a, <1>b DEF TodoShrinks, PushGlobal, Goto, Caller, counters
  <1>3. ASSUME NEW a \in Actors, Count(a) PROVE TodoShrinks
    BY <1>3, <1>a, <1>b DEF TodoShrinks, Count, Goto, Caller, counters
  <1>4. ASSUME NEW a \in Actors, NotifyOne(a) PROVE TodoShrinks
    BY <1>4, <1>a, <1>b DEF TodoShrinks, NotifyOne, Goto, Caller, Asleep, counters
  <1>5. ASSUME NEW a \in Actors, PlainExecute(a) PROVE TodoShrinks
    BY <1>5, <1>a, <1>b DEF TodoShrinks, PlainExecute, Goto, Caller, Submits, Next_, counters
  <1>6. ASSUME NEW a \in Actors, PlainPushed(a) PROVE TodoShrinks
    BY <1>6, <1>a, <1>b DEF TodoShrinks, PlainPushed, Goto, Caller, counters
  <1>7. ASSUME NEW w \in Workers, Exit(w) PROVE TodoShrinks
    BY <1>7, <1>a, <1>b DEF TodoShrinks, Exit, Goto, counters
  <1>8. ASSUME NEW w \in Workers, ChooseStrategy(w) PROVE TodoShrinks
    BY <1>8, <1>a, <1>b DEF TodoShrinks, ChooseStrategy, Goto, counters
  <1>9. ASSUME NEW w \in Workers, TakeFromLIFOSlot(w) PROVE TodoShrinks
    BY <1>9, <1>a, <1>b
       DEF TodoShrinks, TakeFromLIFOSlot, Goto, Takes, TakesNothing, Trying, counters
  <1>10. ASSUME NEW w \in Workers, TakeFromLocalQueue(w) PROVE TodoShrinks
    BY <1>10, <1>a, <1>b
       DEF TodoShrinks, TakeFromLocalQueue, Goto, Takes, TakesNothing, Trying, counters
  <1>11. ASSUME NEW w \in Workers, TakeFromGlobalQueue(w) PROVE TodoShrinks
    BY <1>11, <1>a, <1>b
       DEF TodoShrinks, TakeFromGlobalQueue, Goto, Takes, TakesNothing, Trying, counters
  <1>12. ASSUME NEW w \in Workers, BecomeRobber(w) PROVE TodoShrinks
    BY <1>12, <1>a, <1>b DEF TodoShrinks, BecomeRobber, Goto, TakesNothing, Trying, counters
  <1>13. ASSUME NEW w \in Workers, Rob(w) PROVE TodoShrinks
    BY <1>13, <1>a, <1>b DEF TodoShrinks, Rob, Goto, Takes, TakesNothing, Trying, counters
  <1>14. ASSUME NEW w \in Workers, CountTaken(w) PROVE TodoShrinks
    BY <1>14, <1>a, <1>b DEF TodoShrinks, CountTaken, Goto, counters
  <1>15. ASSUME NEW w \in Workers, PushLocal(w) PROVE TodoShrinks
    BY <1>15, <1>a, <1>b DEF TodoShrinks, PushLocal, Goto, counters
  <1>16. ASSUME NEW w \in Workers, PushLIFO(w) PROVE TodoShrinks
    BY <1>16, <1>a, <1>b DEF TodoShrinks, PushLIFO, Goto, counters
  <1>17. ASSUME NEW w \in Workers, Move(w) PROVE TodoShrinks
    BY <1>17, <1>a, <1>b DEF TodoShrinks, Move, Goto, AfterMove, counters
  <1>18. ASSUME NEW w \in Workers, MoveFails(w) PROVE TodoShrinks
    BY <1>18, <1>a, <1>b DEF TodoShrinks, MoveFails, Goto, counters
  <1>19. ASSUME NEW w \in Workers, GrabHalf(w) PROVE TodoShrinks
    BY <1>19, <1>a, <1>b DEF TodoShrinks, GrabHalf, Goto, counters
  <1>20. ASSUME NEW w \in Workers, Spill(w) PROVE TodoShrinks
    BY <1>20, <1>a, <1>b DEF TodoShrinks, Spill, Goto, counters
  <1>21. ASSUME NEW w \in Workers, Return(w) PROVE TodoShrinks
    BY <1>21, <1>a, <1>b DEF TodoShrinks, Return, Goto, counters
  <1>22. ASSUME NEW w \in Workers, Done(w) PROVE TodoShrinks
    BY <1>22, <1>a, <1>b DEF TodoShrinks, Done, Goto, counters
  <1>23. ASSUME NEW w \in Workers, NotifyIdle(w, "notifyIdle", "loop") PROVE TodoShrinks
    BY <1>23, <1>a, <1>b DEF TodoShrinks, NotifyIdle, Goto, counters
  <1>24. ASSUME NEW w \in Workers, Wait(w) PROVE TodoShrinks
    BY <1>24, <1>a, <1>b DEF TodoShrinks, Wait, Goto, counters
  <1>25. ASSUME NEW w \in Workers, PlainRun(w) PROVE TodoShrinks
    BY <1>25, <1>a, <1>b DEF TodoShrinks, PlainRun, Goto, counters
  <1>26. ASSUME NEW w \in Workers, PlainReturn(w) PROVE TodoShrinks
    BY <1>26, <1>a, <1>b DEF TodoShrinks, PlainReturn, Goto, counters
  <1>27. ASSUME NEW w \in Workers, PlainSpin(w) PROVE TodoShrinks
    BY <1>27, <1>a, <1>b DEF TodoShrinks, PlainSpin, Goto, counters
  <1>28. ASSUME NEW c \in Clients, WaitIdle(c) PROVE TodoShrinks
    BY <1>28, <1>a, <1>b DEF TodoShrinks, WaitIdle, Goto, counters
  <1>29. ASSUME NEW c \in Clients, IdleLoad(c) PROVE TodoShrinks
    BY <1>29, <1>a, <1>b DEF TodoShrinks, IdleLoad, Goto, counters
  <1>30. ASSUME NEW c \in Clients, IdleCheck(c) PROVE TodoShrinks
    BY <1>30, <1>a, <1>b DEF TodoShrinks, IdleCheck, Goto, counters
  <1>31. ASSUME NEW c \in Clients, StopAdd(c) PROVE TodoShrinks
    BY <1>31, <1>a, <1>b DEF TodoShrinks, StopAdd, Goto, counters
  <1>32. ASSUME NEW c \in Clients, StopNotify(c) PROVE TodoShrinks
    BY <1>32, <1>a, <1>b DEF TodoShrinks, StopNotify, Goto, Asleep, counters
  <1>33. ASSUME NEW c \in Clients, Close(c) PROVE TodoShrinks
    BY <1>33, <1>a, <1>b DEF TodoShrinks, Close, Goto, counters
  <1>34. ASSUME NEW c \in Clients, Join(c) PROVE TodoShrinks
    BY <1>34, <1>a, <1>b DEF TodoShrinks, Join, Goto, counters
  <1>35. ASSUME NEW c \in Clients, NotifyIdle(c, "allDone", "idle") PROVE TodoShrinks
    BY <1>35, <1>a, <1>b DEF TodoShrinks, NotifyIdle, Goto, counters
  <1>36. ASSUME NEW c \in Clients, PlainStop(c) PROVE TodoShrinks
    BY <1>36, <1>a, <1>b DEF TodoShrinks, PlainStop, Goto, counters
  <1>37. ASSUME NEW c \in Clients, PlainJoin(c) PROVE TodoShrinks
    BY <1>37, <1>a, <1>b DEF TodoShrinks, PlainJoin, Goto, counters
  <1>38. ASSUME NEW c \in Clients, Destroy(c) PROVE TodoShrinks
    BY <1>38, <1>a, <1>b DEF TodoShrinks, Destroy, Next_, Goto, counters
  <1>39. QED
    BY <1>1, <1>2, <1>3, <1>4, <1>5, <1>6, <1>7, <1>8, <1>9, <1>10, <1>11, <1>12, <1>13, <1>14,
       <1>15, <1>16, <1>17, <1>18, <1>19, <1>20, <1>21, <1>22, <1>23, <1>24, <1>25, <1>26,
       <1>27, <1>28, <1>29, <1>30, <1>31, <1>32, <1>33, <1>34, <1>35, <1>36, <1>37, <1>38,
       Constants DEF Next, WorkerStep, ClientStep, Execute

LEMMA TailIsShorter ==
    \A s \in Seq(Calls) : s # << >> => Tail(s) # s
  <1> SUFFICES ASSUME NEW s \in Seq(Calls), s # << >> PROVE Tail(s) # s
    OBVIOUS
  <1> DEFINE t == Tail(s)
  <1>1. Len(s) \in Nat /\ Len(t) = Len(s) - 1
    BY HeadTailFacts, LenProperties
  <1> HIDE DEF t
  <1>2. t # s
    BY <1>1
  <1>3. QED
    BY <1>2 DEF t

LEMMA ScriptInvStep ==
    ASSUME Inv, Next PROVE ScriptInv'
  <1>1. TypeOK /\ CallInv /\ ScriptInv /\ TodoShrinks
    BY TodoStep DEF Inv
  <1>2. variant' = variant
    BY DEF Next
  <1>3. \A c \in Clients : todo[c] \in Seq(Calls)
    BY <1>1, Constants DEF TypeOK
  \* Where a call was that is left.
  <1>4. ASSUME NEW c \in Clients
        PROVE  \/ todo'[c] = todo[c]
               \/ /\ todo'[c] = Tail(todo[c]) /\ todo[c] # << >> /\ 1 \in DOMAIN todo[c]
                  /\ \A i \in DOMAIN todo'[c] : /\ i \in Nat \ {0} /\ i + 1 \in DOMAIN todo[c]
                                               /\ todo'[c][i] = todo[c][i + 1]
    <2>1. CASE todo[c] # << >> /\ todo'[c] = Tail(todo[c])
      <3> DEFINE s == todo[c]
      <3>1. s \in Seq(Calls) /\ s # << >>
        BY <2>1, <1>3
      <3> HIDE DEF s
      <3>2. /\ Len(s) \in Nat /\ Len(s) >= 1 /\ DOMAIN s = 1..Len(s)
            /\ Tail(s) \in Seq(Calls) /\ Len(Tail(s)) = Len(s) - 1
            /\ \A i \in 1..(Len(s) - 1) : Tail(s)[i] = s[i + 1]
        BY <3>1, HeadTailProperties, LenProperties, EmptySeq
      <3>3. DOMAIN Tail(s) = 1..(Len(s) - 1)
        BY <3>2, LenProperties
      <3>4. /\ 1 \in DOMAIN s
            /\ \A i \in DOMAIN Tail(s) : /\ i \in Nat \ {0} /\ i + 1 \in DOMAIN s
                                        /\ Tail(s)[i] = s[i + 1]
        BY <3>2, <3>3
      <3>5. QED
        BY <2>1, <3>4 DEF s
    <2>2. QED
      BY <1>1, <2>1 DEF TodoShrinks
  <1>5. ~WithWaitIdle => \A c \in Clients : [op |-> "WaitIdle"] \notin Range(todo'[c])
    <2>1. ASSUME NEW c \in Clients PROVE Range(todo'[c]) \subseteq Range(todo[c])
      BY <1>4 DEF Range
    <2>2. QED
      BY <1>1, <2>1 DEF ScriptInv
  <1>6. ASSUME NEW c \in Clients, NEW d \in Clients,
               NEW i \in DOMAIN todo'[c], NEW j \in DOMAIN todo'[d],
               todo'[c][i].op = "Stop", todo'[d][j].op = "Stop"
        PROVE  c = d /\ i = j
    <2>1. i \in Nat /\ j \in Nat
      <3>1. /\ DOMAIN todo[c] = 1..Len(todo[c]) /\ Len(todo[c]) \in Nat
            /\ DOMAIN todo[d] = 1..Len(todo[d]) /\ Len(todo[d]) \in Nat
        BY <1>3, LenProperties
      <3>2. QED
        BY <1>4, <1>6, <3>1
    <2>2. PICK k \in DOMAIN todo[c] : /\ todo[c][k].op = "Stop"
                                      /\ \/ todo'[c] = todo[c] /\ k = i
                                         \/ /\ todo'[c] = Tail(todo[c]) /\ k = i + 1
                                            /\ todo[c] # << >>
      BY <1>4, <1>6
    <2>3. PICK l \in DOMAIN todo[d] : /\ todo[d][l].op = "Stop"
                                      /\ \/ todo'[d] = todo[d] /\ l = j
                                         \/ /\ todo'[d] = Tail(todo[d]) /\ l = j + 1
                                            /\ todo[d] # << >>
      BY <1>4, <1>6
    <2>4. c = d /\ k = l
      BY <1>1, <2>2, <2>3 DEF ScriptInv
    <2>5. todo[c] # << >> => Tail(todo[c]) # todo[c]
      BY <1>3, TailIsShorter
    <2>6. QED
      BY <2>1, <2>2, <2>3, <2>4, <2>5
  <1>7. ASSUME Stopped', NEW c \in Clients, NEW i \in DOMAIN todo'[c], todo'[c][i].op = "Stop"
        PROVE  pc'[c] \in {"stopNotify", "close", "join"}
    <2>1. CASE Stopped
      <3>1. PICK k \in DOMAIN todo[c] : todo[c][k].op = "Stop"
        BY <1>4, <1>7
      <3>2. pc[c] \in {"stopNotify", "close", "join"}
        BY <1>1, <2>1, <3>1 DEF ScriptInv
      <3>3. ASSUME todo'[c] = Tail(todo[c]), todo[c] # << >> PROVE FALSE
        <4>1. todo[c][1].op = "Stop" /\ 1 \in DOMAIN todo[c]
          BY <1>1, <1>3, <1>4, <3>2, <3>3, HeadTailProperties, LenProperties
             DEF CallInv, Next_, Call
        <4>2. todo'[c] # todo[c]
          BY <1>3, <3>3, TailIsShorter
        <4>3. i \in Nat \ {0} /\ i + 1 \in DOMAIN todo[c] /\ todo[c][i + 1].op = "Stop"
          BY <1>4, <1>7, <4>2
        <4>4. i + 1 = 1
          BY <1>1, <4>1, <4>3 DEF ScriptInv
        <4>5. QED
          BY <4>3, <4>4
      <3>4. todo[c] # << >>
        BY <1>1, <3>2 DEF CallInv, Next_
      <3>5. QED
        BY <1>1, <3>2, <3>3, <3>4 DEF TodoShrinks
    <2>2. CASE ~Stopped
      <3>1. PICK d \in Clients : StopAdd(d) \/ PlainStop(d)
        BY <1>7, <2>2, StoppedStep
      <3>2. /\ todo' = todo /\ todo[d] # << >> /\ Head(todo[d]).op = "Stop"
            /\ pc'[d] \in {"stopNotify", "close"}
        BY <1>1, <3>1, Constants DEF StopAdd, PlainStop, Next_, Call, Goto, TypeOK
      <3>3. 1 \in DOMAIN todo[d] /\ todo[d][1].op = "Stop"
        BY <1>3, <3>2, LenProperties, EmptySeq
      <3>4. c = d
        BY <1>1, <1>7, <3>2, <3>3 DEF ScriptInv
      <3>5. QED
        BY <3>2, <3>4
    <2>3. QED
      BY <2>1, <2>2
  <1>8. QED
    BY <1>1, <1>2, <1>5, <1>6, <1>7 DEF ScriptInv, WithWaitIdle

------------------------------------------------------------------------------
\* Steps that leave every routine where it is.
Quiet ==
    /\ UNCHANGED <<queues, transit, routine, history>>
    /\ \A a \in Actors : /\ pc'[a] = "execute" <=> pc[a] = "execute"
                         /\ pc[a] = "execute" => todo'[a] = todo[a]

\* The other steps.
Submission(a) == ExecuteAdd(a) \/ PlainExecute(a)
Finishes(w) == Return(w) \/ PlainReturn(w)
Relocation ==
    \/ \E a \in Actors : Submission(a) \/ PushGlobal(a)
    \/ \E w \in Workers : \/ PushLocal(w) \/ PushLIFO(w)
                          \/ Move(w) \/ GrabHalf(w) \/ Spill(w)
                          \/ TakeFromLIFOSlot(w) /\ lifo_slots_[w] # Null
                          \/ TakeFromLocalQueue(w) /\ local_queues_[w] # << >>
                          \/ TakeFromGlobalQueue(w) /\ global_queue_ # << >>
                          \/ Rob(w) /\ ~TakesNothing(w)
                          \/ Finishes(w)
    \/ \E c \in Clients : Destroy(c)

LEMMA QuietOrRelocation ==
    ASSUME Inv, Next PROVE Quiet \/ Relocation
  <1>b. /\ pc \in [Actors -> Labels] /\ todo \in [Actors -> Seq(Calls)]
        /\ \A w \in Workers : w \in Actors
        /\ \A c \in Clients : c \in Actors
        /\ routine \in [Workers -> Routines \cup {Null}]
    BY Constants DEF Inv, TypeOK
  <1>1. ASSUME NEW a \in Actors, Count(a) PROVE Quiet
    <2>1. UNCHANGED <<queues, transit, routine, history>>
      BY <1>1 DEF Count, taking
    <2>2. \A b \in Actors : b # a => pc'[b] = pc[b] /\ todo'[b] = todo[b]
      BY <1>1, <1>b DEF Count, Goto
    <2>3. pc[a] # "execute" /\ pc'[a] # "execute"
      BY <1>1, <1>b DEF Count, Goto, Caller
    <2>4. QED
      BY <2>1, <2>2, <2>3 DEF Quiet
  <1>2. ASSUME NEW a \in Actors, NotifyOne(a) PROVE Quiet
    BY <1>2, <1>b, NotifyOneWakes
       DEF Inv, Quiet, NotifyOne, Caller, queues, transit, history, taking
  <1>3. ASSUME NEW a \in Actors, PlainPushed(a) PROVE Quiet
    <2>1. UNCHANGED <<queues, transit, routine, history>>
      BY <1>3 DEF PlainPushed, taking
    <2>2. \A b \in Actors : b # a => pc'[b] = pc[b] /\ todo'[b] = todo[b]
      BY <1>3, <1>b DEF PlainPushed, Goto
    <2>3. pc[a] # "execute" /\ pc'[a] # "execute"
      BY <1>3, <1>b DEF PlainPushed, Goto, Caller
    <2>4. QED
      BY <2>1, <2>2, <2>3 DEF Quiet
  <1>4. ASSUME NEW w \in Workers, Exit(w) PROVE Quiet
    BY <1>4, <1>b DEF Quiet, Exit, Goto, queues, transit, history, taking
  <1>5. ASSUME NEW w \in Workers, ChooseStrategy(w) PROVE Quiet
    BY <1>5, <1>b DEF Quiet, ChooseStrategy, Goto, queues, transit, history, taking
  <1>6. ASSUME NEW w \in Workers, TakeFromLIFOSlot(w), lifo_slots_[w] = Null PROVE Quiet
    BY <1>6, <1>b
       DEF Quiet, TakeFromLIFOSlot, Goto, TakesNothing, Trying, queues, transit, history,
           taking
  <1>7. ASSUME NEW w \in Workers, TakeFromLocalQueue(w), local_queues_[w] = << >> PROVE Quiet
    BY <1>7, <1>b
       DEF Quiet, TakeFromLocalQueue, Goto, TakesNothing, Trying, queues, transit, history,
           taking
  <1>8. ASSUME NEW w \in Workers, TakeFromGlobalQueue(w), global_queue_ = << >> PROVE Quiet
    BY <1>8, <1>b
       DEF Quiet, TakeFromGlobalQueue, Goto, TakesNothing, Trying, queues, transit, history,
           taking
  <1>9. ASSUME NEW w \in Workers, BecomeRobber(w) PROVE Quiet
    BY <1>9, <1>b
       DEF Quiet, BecomeRobber, Goto, TakesNothing, Trying, queues, transit, history, taking
  <1>10. ASSUME NEW w \in Workers, Rob(w), TakesNothing(w) PROVE Quiet
    BY <1>10, <1>b DEF Quiet, Rob, Goto, TakesNothing, Trying, queues, transit, history, taking
  <1>11. ASSUME NEW w \in Workers, CountTaken(w) PROVE Quiet
    <2>1. UNCHANGED <<queues, transit, routine, history>>
      BY <1>11 DEF CountTaken, taking
    <2>2. \A b \in Actors : b # w => pc'[b] = pc[b] /\ todo'[b] = todo[b]
      BY <1>11, <1>b DEF CountTaken, Goto
    <2>3. pc[w] # "execute" /\ pc'[w] # "execute"
      BY <1>11, <1>b DEF CountTaken, Goto
    <2>4. QED
      BY <2>1, <2>2, <2>3 DEF Quiet
  <1>12. ASSUME NEW w \in Workers, MoveFails(w) PROVE Quiet
    BY <1>12, <1>b DEF Quiet, MoveFails, Goto, queues, transit, history, taking
  <1>13. ASSUME NEW w \in Workers, Done(w) PROVE Quiet
    BY <1>13, <1>b DEF Quiet, Done, Goto, queues, transit, history, taking
  <1>14. ASSUME NEW w \in Workers, NotifyIdle(w, "notifyIdle", "loop") PROVE Quiet
    BY <1>14, <1>b DEF Quiet, NotifyIdle, Goto, queues, transit, history, taking
  <1>15. ASSUME NEW w \in Workers, Wait(w) PROVE Quiet
    BY <1>15, <1>b DEF Quiet, Wait, Goto, queues, transit, history, taking
  <1>16. ASSUME NEW w \in Workers, PlainRun(w) PROVE Quiet
    <2>1. UNCHANGED <<queues, transit, routine, history>>
      BY <1>16 DEF PlainRun, taking
    <2>2. \A b \in Actors : b # w => pc'[b] = pc[b] /\ todo'[b] = todo[b]
      BY <1>16, <1>b DEF PlainRun, Goto
    <2>3. pc[w] # "execute" /\ pc'[w] # "execute"
      BY <1>16, <1>b DEF PlainRun, Goto
    <2>4. QED
      BY <2>1, <2>2, <2>3 DEF Quiet
  <1>17. ASSUME NEW w \in Workers, PlainSpin(w) PROVE Quiet
    BY <1>17, <1>b DEF Quiet, PlainSpin, Goto, queues, transit, history, taking
  <1>18. ASSUME NEW c \in Clients, WaitIdle(c) PROVE Quiet
    BY <1>18, <1>b DEF Quiet, WaitIdle, Goto, queues, transit, history, taking
  <1>19. ASSUME NEW c \in Clients, IdleLoad(c) PROVE Quiet
    <2>1. UNCHANGED <<queues, transit, routine, history>>
      BY <1>19 DEF IdleLoad, taking
    <2>2. \A b \in Actors : b # c => pc'[b] = pc[b] /\ todo'[b] = todo[b]
      BY <1>19, <1>b DEF IdleLoad, Goto
    <2>3. pc[c] # "execute" /\ pc'[c] # "execute"
      BY <1>19, <1>b DEF IdleLoad, Goto
    <2>4. QED
      BY <2>1, <2>2, <2>3 DEF Quiet
  <1>20. ASSUME NEW c \in Clients, IdleCheck(c) PROVE Quiet
    BY <1>20, <1>b DEF Quiet, IdleCheck, Goto, queues, transit, history, taking
  <1>21. ASSUME NEW c \in Clients, StopAdd(c) PROVE Quiet
    BY <1>21, <1>b DEF Quiet, StopAdd, Goto, queues, transit, history, taking
  <1>22. ASSUME NEW c \in Clients, StopNotify(c) PROVE Quiet
    BY <1>22, <1>b DEF Quiet, StopNotify, Goto, Asleep, queues, transit, history, taking
  <1>23. ASSUME NEW c \in Clients, Close(c) PROVE Quiet
    BY <1>23, <1>b DEF Quiet, Close, Goto, queues, transit, history, taking
  <1>24. ASSUME NEW c \in Clients, Join(c) PROVE Quiet
    <2>1. UNCHANGED <<queues, transit, routine, history>>
      BY <1>24 DEF Join, taking
    <2>2. \A b \in Actors : b # c => pc'[b] = pc[b] /\ todo'[b] = todo[b]
      BY <1>24, <1>b DEF Join, Goto
    <2>3. pc[c] # "execute" /\ pc'[c] # "execute"
      BY <1>24, <1>b DEF Join, Goto
    <2>4. QED
      BY <2>1, <2>2, <2>3 DEF Quiet
  <1>25. ASSUME NEW c \in Clients, NotifyIdle(c, "allDone", "idle") PROVE Quiet
    BY <1>25, <1>b DEF Quiet, NotifyIdle, Goto, queues, transit, history, taking
  <1>26. ASSUME NEW c \in Clients, PlainStop(c) PROVE Quiet
    BY <1>26, <1>b DEF Quiet, PlainStop, Goto, queues, transit, history, taking
  <1>27. ASSUME NEW c \in Clients, PlainJoin(c) PROVE Quiet
    <2>1. UNCHANGED <<queues, transit, routine, history>>
      BY <1>27 DEF PlainJoin, taking
    <2>2. \A b \in Actors : b # c => pc'[b] = pc[b] /\ todo'[b] = todo[b]
      BY <1>27, <1>b DEF PlainJoin, Goto
    <2>3. pc[c] # "execute" /\ pc'[c] # "execute"
      BY <1>27, <1>b DEF PlainJoin, Goto
    <2>4. QED
      BY <2>1, <2>2, <2>3 DEF Quiet
  <1>28. QED
    BY <1>1, <1>2, <1>3, <1>4, <1>5, <1>6, <1>7, <1>8, <1>9, <1>10, <1>11, <1>12, <1>13, <1>14,
       <1>15, <1>16, <1>17, <1>18, <1>19, <1>20, <1>21, <1>22, <1>23, <1>24, <1>25, <1>26,
       <1>27, Constants
       DEF Next, WorkerStep, ClientStep, Execute, Relocation, Submission, Finishes

------------------------------------------------------------------------------
\* What a step leaves alone about a routine, and when it leaves it alone.
SamePlace(r) ==
    /\ r \in submitted' <=> r \in submitted
    /\ r \in finished' <=> r \in finished
    /\ r \in discarded' <=> r \in discarded
    /\ r \in Range(global_queue_') <=> r \in Range(global_queue_)
    /\ \A w \in Workers :
          /\ r \in Range(local_queues_'[w]) <=> r \in Range(local_queues_[w])
          /\ r \in Range(moving'[w]) <=> r \in Range(moving[w])
          /\ r \in Range(spilled'[w]) <=> r \in Range(spilled[w])
          /\ lifo_slots_'[w] = r <=> lifo_slots_[w] = r
          /\ routine'[w] = r <=> routine[w] = r
    /\ \A a \in Actors : Submitting(a, r)' <=> Submitting(a, r)

LEMMA Stays ==
    ASSUME NEW r \in Routines, SamePlace(r),
           \E kind \in Kinds, by \in Actors \cup {Null} : Placed(r, kind, by)
    PROVE  \E kind \in Kinds, by \in Actors \cup {Null} : Placed(r, kind, by)'
  <1>1. PICK kind \in Kinds, by \in Actors \cup {Null} : Placed(r, kind, by)
    OBVIOUS
  <1>2. Placed(r, kind, by)'
    BY <1>1 DEF Placed, SamePlace
  <1>3. QED
    BY <1>2

LEMMA QuietPlaces ==
    ASSUME PlaceInv, OnceInv, Quiet PROVE PlaceInv' /\ OnceInv'
  <1>1. /\ UNCHANGED <<global_queue_, local_queues_, lifo_slots_, moving, spilled, routine>>
        /\ UNCHANGED <<submitted, finished, discarded>>
    BY DEF Quiet, queues, transit, history
  <1>2. \A a \in Actors, r \in Routines : Submitting(a, r)' <=> Submitting(a, r)
    BY DEF Quiet, Submitting, Call
  <1>3. \A r \in Routines : SamePlace(r)
    BY <1>1, <1>2 DEF SamePlace
  <1>4. PlaceInv'
    BY <1>3, Stays DEF PlaceInv
  <1>5. OnceInv'
    BY <1>1 DEF OnceInv
  <1>6. QED
    BY <1>4, <1>5

LEMMA Relocated ==
    ASSUME PlaceInv, NEW moved, \A s \in Routines \ moved : SamePlace(s),
           \A s \in Routines \cap moved :
               \E kind \in Kinds, by \in Actors \cup {Null} : Placed(s, kind, by)'
    PROVE  PlaceInv'
  <1>1. ASSUME NEW s \in Routines
        PROVE  \E kind \in Kinds, by \in Actors \cup {Null} : Placed(s, kind, by)'
    <2>1. CASE s \in moved
      BY <2>1
    <2>2. CASE s \notin moved
      <3>1. SamePlace(s) /\ \E kind \in Kinds, by \in Actors \cup {Null} : Placed(s, kind, by)
        BY <2>2 DEF PlaceInv
      <3>2. QED
        BY <3>1, Stays
    <2>3. QED
      BY <2>1, <2>2
  <1>2. QED
    BY <1>1 DEF PlaceInv

LEMMA OneRelocated ==
    ASSUME PlaceInv, NEW r \in Routines, \A s \in Routines : s # r => SamePlace(s),
           NEW kind \in Kinds, NEW by \in Actors \cup {Null}, Placed(r, kind, by)'
    PROVE  PlaceInv'
  <1>1. \A s \in Routines \ {r} : SamePlace(s)
    OBVIOUS
  <1>2. \A s \in Routines \cap {r} :
            \E k \in Kinds, b \in Actors \cup {Null} : Placed(s, k, b)'
    OBVIOUS
  <1>3. QED
    BY <1>1, <1>2, Relocated

\* Execute submits a routine that is new.
LEMMA SubmissionPlaces ==
    ASSUME Inv, NEW a \in Actors, Submission(a) PROVE PlaceInv' /\ OnceInv'
  <1>0. PICK r \in Routines : r = Call(a).routine
    BY AtHand DEF Inv, Submission, ExecuteAdd, PlainExecute, Submits, Next_
  <1>1. /\ UNCHANGED <<global_queue_, local_queues_, lifo_slots_, moving, spilled, routine>>
        /\ UNCHANGED <<finished, discarded>>
        /\ submitted' = submitted \cup {r} /\ r \notin submitted
        /\ pc[a] # "execute" /\ pc' = [pc EXCEPT ![a] = "execute"] /\ todo' = todo
    BY <1>0
       DEF Submission, ExecuteAdd, PlainExecute, Submits, Goto, Caller, queues, transit, taking
  <1>3. pc \in [Actors -> Labels]
    BY DEF Inv, TypeOK
  <1>4. \A b \in Actors : Call(b)' = Call(b)
    BY <1>1 DEF Call
  <1>5. /\ \A b \in Actors, s \in Routines : b # a => (Submitting(b, s)' <=> Submitting(b, s))
        /\ \A s \in Routines : Submitting(a, s)' <=> s = r
        /\ \A s \in Routines : ~Submitting(a, s)
    BY <1>0, <1>1, <1>3, <1>4 DEF Submitting
  <1>6. ASSUME NEW s \in Routines, s # r PROVE SamePlace(s)
    BY <1>1, <1>5, <1>6 DEF SamePlace
  <1>7. Placed(r, "execute", a)'
    <2>1. PICK kind \in Kinds, by \in Actors \cup {Null} : Placed(r, kind, by)
      BY DEF Inv, PlaceInv
    <2>2. kind = "new"
      BY <1>1, <2>1 DEF Placed
    <2>3. QED
      BY <1>1, <1>5, <2>1, <2>2 DEF Placed
  <1>8. PlaceInv'
    <2>1. "execute" \in Kinds /\ a \in Actors \cup {Null}
      BY DEF Kinds
    <2>2. QED
      BY <1>6, <1>7, <2>1, OneRelocated DEF Inv
  <1>9. OnceInv'
    BY <1>1 DEF Inv, OnceInv
  <1>10. QED
    BY <1>8, <1>9

\* Which places are queues.
QueueKinds == {"global", "local", "slot", "moving", "spilled"}
LEMMA QueuedKinds ==
    ASSUME NEW r \in Routines, NEW kind \in Kinds, NEW by
    PROVE  /\ Placed(r, kind, by) => (r \in Queued <=> kind \in QueueKinds)
           /\ Placed(r, kind, by)' => (r \in Queued' <=> kind \in QueueKinds)
  <1>1. r # Null
    BY PoolAssumption
  <1>2. r \in Queued <=>
            \/ r \in Range(global_queue_)
            \/ \E w \in Workers : \/ r \in Range(local_queues_[w])
                                  \/ lifo_slots_[w] = r
                                  \/ r \in Range(moving[w])
                                  \/ r \in Range(spilled[w])
    BY <1>1, WaitingRoutines
  <1>3. r \in Queued' <=>
            \/ r \in Range(global_queue_')
            \/ \E w \in Workers : \/ r \in Range(local_queues_'[w])
                                  \/ lifo_slots_'[w] = r
                                  \/ r \in Range(moving'[w])
                                  \/ r \in Range(spilled'[w])
    <2>1. r \in Waiting' <=>
              \/ r \in Range(global_queue_')
              \/ \E w \in Workers : r \in Range(local_queues_'[w])
              \/ \E w \in Workers : lifo_slots_'[w] = r
      BY <1>1 DEF Waiting
    <2>2. r \in Queued' <=>
              \/ r \in Waiting'
              \/ \E w \in Workers : r \in Range(moving'[w]) \/ r \in Range(spilled'[w])
      BY DEF Queued
    <2>3. QED
      BY <2>1, <2>2
  <1>4. Placed(r, kind, by) => (r \in Queued <=> kind \in QueueKinds)
    BY <1>2 DEF Placed, QueueKinds, Kinds
  <1>5. Placed(r, kind, by)' => (r \in Queued' <=> kind \in QueueKinds)
    BY <1>3 DEF Placed, QueueKinds, Kinds
  <1>6. QED
    BY <1>4, <1>5

\* What a step does to the set of queued routines.
LEMMA QueuedStays ==
    ASSUME PlaceInv, NEW s \in Routines, SamePlace(s) PROVE s \in Queued' <=> s \in Queued
  <1>1. PICK kind \in Kinds, by \in Actors \cup {Null} : Placed(s, kind, by)
    BY DEF PlaceInv
  <1>2. Placed(s, kind, by)'
    BY <1>1 DEF Placed, SamePlace
  <1>3. QED
    BY <1>1, <1>2, QueuedKinds

LEMMA QueuedTypes ==
    /\ TypeOK => Queued \subseteq Routines
    /\ TypeOK' => Queued' \subseteq Routines
  <1>1. TypeOK' => /\ Range(global_queue_') \subseteq Routines
                   /\ \A w \in Workers : /\ Range(local_queues_'[w]) \subseteq Routines
                                         /\ Range(moving'[w]) \subseteq Routines
                                         /\ Range(spilled'[w]) \subseteq Routines
                                         /\ lifo_slots_'[w] \in Routines \cup {Null}
    BY RangeFacts DEF TypeOK
  <1>2. \A r : r \in Waiting' =>
            \/ r \in Range(global_queue_')
            \/ \E w \in Workers : r \in Range(local_queues_'[w])
            \/ r # Null /\ \E w \in Workers : lifo_slots_'[w] = r
    BY DEF Waiting
  <1>3. \A r : r \in Queued' =>
            r \in Waiting' \/ \E w \in Workers : r \in Range(moving'[w]) \/ r \in Range(spilled'[w])
    BY DEF Queued
  <1>4. QED
    BY <1>1, <1>2, <1>3, WaitingRoutines

\* One routine goes from a place to another.
Moves(r, from, at, to, by) ==
    /\ r \in Routines /\ Placed(r, from, at) /\ Placed(r, to, by)'
    /\ \A s \in Routines : s # r => SamePlace(s)
LEMMA MoveFacts ==
    ASSUME TypeOK, TypeOK', PlaceInv, NEW r, NEW from \in Kinds, NEW at,
           NEW to \in Kinds, NEW by \in Actors \cup {Null}, Moves(r, from, at, to, by)
    PROVE  /\ PlaceInv'
           /\ r \in Queued <=> from \in QueueKinds
           /\ Queued' = IF to \in QueueKinds THEN Queued \cup {r} ELSE Queued \ {r}
  <1>1. PlaceInv'
    BY OneRelocated DEF Moves
  <1>2. /\ r \in Routines
        /\ r \in Queued <=> from \in QueueKinds
        /\ r \in Queued' <=> to \in QueueKinds
    BY QueuedKinds DEF Moves
  <1>3. \A s \in Routines : s # r => (s \in Queued' <=> s \in Queued)
    BY QueuedStays DEF Moves
  <1>4. Queued \subseteq Routines /\ Queued' \subseteq Routines
    BY QueuedTypes
  <1>5. QED
    BY <1>1, <1>2, <1>3, <1>4

\* A push puts it where the hint says.
LEMMA SubmittedRoutine ==
    ASSUME Inv, NEW a \in Actors, NEW r, r = Call(a).routine, pc[a] = "execute",
           \A b \in Actors : b # a => pc'[b] = pc[b],
           pc'[a] # "execute", todo' = todo
    PROVE  /\ r \in Routines /\ Placed(r, "execute", a)
           /\ \A b \in Actors, s \in Routines : s # r => (Submitting(b, s)' <=> Submitting(b, s))
           /\ \A b \in Actors : ~Submitting(b, r)'
  <1>1. r \in Routines
    BY AtHand DEF Inv, CallInv, Next_
  <1>3. \A b \in Actors : Call(b)' = Call(b)
    BY DEF Call
  <1>4. Submitting(a, r)
    BY DEF Submitting
  <1>5. PICK kind \in Kinds, by \in Actors \cup {Null} : Placed(r, kind, by)
    BY <1>1 DEF Inv, PlaceInv
  <1>6. kind = "execute" /\ by = a
    BY <1>4, <1>5 DEF Placed
  <1>7. \A b \in Actors : Submitting(b, r) <=> b = a
    BY <1>5, <1>6 DEF Placed
  <1>8. \A b \in Actors, s \in Routines : s # r => (Submitting(b, s)' <=> Submitting(b, s))
    BY <1>3 DEF Submitting
  <1>9. \A b \in Actors : ~Submitting(b, r)'
    BY <1>3, <1>7 DEF Submitting
  <1>10. QED
    BY <1>1, <1>5, <1>6, <1>8, <1>9

LEMMA PushGlobalPlaces ==
    ASSUME Inv, TypeOK', NEW a \in Actors, PushGlobal(a), NEW r, r = Call(a).routine
    PROVE  Moves(r, "execute", a, "global", Null) /\ OnceInv'
  <1>1. /\ UNCHANGED <<local_queues_, lifo_slots_, moving, spilled, routine>>
        /\ UNCHANGED <<submitted, finished, discarded>>
        /\ global_queue_' = Append(global_queue_, r)
        /\ pc[a] = "execute" /\ pc' = [pc EXCEPT ![a] = "count"] /\ todo' = todo
    BY DEF PushGlobal, Goto, transit, taking, history
  <1>2. pc'[a] = "count" /\ \A b \in Actors : b # a => pc'[b] = pc[b]
    BY <1>1 DEF Inv, TypeOK
  <1>3. /\ r \in Routines /\ Placed(r, "execute", a)
        /\ \A b \in Actors, s \in Routines : s # r => (Submitting(b, s)' <=> Submitting(b, s))
        /\ \A b \in Actors : ~Submitting(b, r)'
    BY <1>1, <1>2, SubmittedRoutine
  <1>4. /\ Range(global_queue_') = Range(global_queue_) \cup {r}
        /\ IsInjective(global_queue_) /\ r \notin Range(global_queue_)
              => IsInjective(global_queue_')
    BY <1>1, <1>3, AppendFacts DEF Inv, TypeOK
  <1>5. ASSUME NEW s \in Routines, s # r PROVE SamePlace(s)
    BY <1>1, <1>3, <1>4, <1>5 DEF SamePlace
  <1>6. Placed(r, "global", Null)'
    BY <1>1, <1>3, <1>4 DEF Placed
  <1>7. r \notin Range(global_queue_)
    BY <1>3 DEF Placed
  <1>8. OnceInv'
    BY <1>1, <1>4, <1>7 DEF Inv, OnceInv
  <1>9. QED
    BY <1>3, <1>5, <1>6, <1>8 DEF Moves

LEMMA PushLocalPlaces ==
    ASSUME Inv, TypeOK', NEW w \in Workers, PushLocal(w), NEW r, r = Call(w).routine
    PROVE  Moves(r, "execute", w, "moving", w) /\ OnceInv'
  <1>1. /\ UNCHANGED <<global_queue_, local_queues_, lifo_slots_, spilled, routine>>
        /\ UNCHANGED <<submitted, finished, discarded>>
        /\ moving' = [moving EXCEPT ![w] = << r >>]
        /\ pc[w] = "execute" /\ pc' = [pc EXCEPT ![w] = "move"] /\ todo' = todo
    BY DEF PushLocal, Goto, transit, taking, history, queues
  <1>2. w \in Actors /\ pc'[w] = "move" /\ \A b \in Actors : b # w => pc'[b] = pc[b]
    BY <1>1, Constants DEF Inv, TypeOK
  <1>3. /\ r \in Routines /\ Placed(r, "execute", w)
        /\ \A b \in Actors, s \in Routines : s # r => (Submitting(b, s)' <=> Submitting(b, s))
        /\ \A b \in Actors : ~Submitting(b, r)'
    BY <1>1, <1>2, SubmittedRoutine
  <1>4. /\ moving[w] = << >> /\ moving'[w] = << r >>
        /\ \A v \in Workers : v # w => moving'[v] = moving[v]
    BY <1>1 DEF Inv, TypeOK, WorkerInv, Loading
  <1>5. Range(moving[w]) = {} /\ Range(moving'[w]) = {r} /\ IsInjective(moving'[w])
    BY <1>4, SmallSequences
  <1>6. ASSUME NEW s \in Routines, s # r PROVE SamePlace(s)
    BY <1>1, <1>3, <1>4, <1>5, <1>6 DEF SamePlace
  <1>7. Placed(r, "moving", w)'
    BY <1>1, <1>3, <1>4, <1>5 DEF Placed
  <1>8. OnceInv'
    BY <1>1, <1>4, <1>5 DEF Inv, OnceInv
  <1>9. QED
    BY <1>3, <1>6, <1>7, <1>8 DEF Moves

\* The place of a routine that is known to be somewhere.
LEMMA Found ==
    ASSUME PlaceInv, NEW r \in Routines, NEW w \in Workers
    PROVE  /\ r \in Range(global_queue_) => \E by \in Actors \cup {Null} : Placed(r, "global", by)
           /\ r \in Range(local_queues_[w]) => Placed(r, "local", w)
           /\ r \in Range(moving[w]) => Placed(r, "moving", w)
           /\ r \in Range(spilled[w]) => Placed(r, "spilled", w)
           /\ lifo_slots_[w] = r => Placed(r, "slot", w)
           /\ routine[w] = r => Placed(r, "routine", w)
  <1>1. PICK kind \in Kinds, by \in Actors \cup {Null} : Placed(r, kind, by)
    BY DEF PlaceInv
  <1>2. /\ r \in Range(global_queue_) => kind = "global"
        /\ r \in Range(local_queues_[w]) => kind = "local" /\ by = w
        /\ r \in Range(moving[w]) => kind = "moving" /\ by = w
        /\ r \in Range(spilled[w]) => kind = "spilled" /\ by = w
        /\ lifo_slots_[w] = r => kind = "slot" /\ by = w
        /\ routine[w] = r => kind = "routine" /\ by = w
    BY <1>1 DEF Placed
  <1>3. QED
    BY <1>1, <1>2

LEMMA SubmittingSame ==
    ASSUME \A a \in Actors : /\ pc'[a] = "execute" <=> pc[a] = "execute"
                             /\ pc[a] = "execute" => todo'[a] = todo[a]
    PROVE  \A a \in Actors, r \in Routines : Submitting(a, r)' <=> Submitting(a, r)
  BY DEF Submitting, Call

LEMMA MovePlaces ==
    ASSUME Inv, TypeOK', NEW w \in Workers, Move(w), NEW r, r = Head(moving[w])
    PROVE  Moves(r, "moving", w, "local", w) /\ OnceInv'
  <1>1. /\ UNCHANGED <<global_queue_, lifo_slots_, spilled, routine>>
        /\ UNCHANGED <<submitted, finished, discarded>>
        /\ moving' = [moving EXCEPT ![w] = Tail(moving[w])]
        /\ local_queues_' = [local_queues_ EXCEPT ![w] = Append(local_queues_[w], r)]
        /\ pc[w] = "move" /\ pc'[w] # "execute" /\ todo' = todo
        /\ \A b \in Actors : b # w => pc'[b] = pc[b]
    BY Constants DEF Move, Goto, taking, history, AfterMove, Inv, TypeOK
  <1>2. /\ moving'[w] = Tail(moving[w]) /\ local_queues_'[w] = Append(local_queues_[w], r)
        /\ \A v \in Workers : v # w => moving'[v] = moving[v] /\ local_queues_'[v] = local_queues_[v]
        /\ moving[w] \in Seq(Routines) /\ local_queues_[w] \in Seq(Routines) /\ moving[w] # << >>
    BY <1>1 DEF Inv, TypeOK, WorkerInv, Loading
  <1>3. /\ r \in Routines /\ Range(moving[w]) = {r} \cup Range(moving'[w])
        /\ IsInjective(moving'[w]) /\ r \notin Range(moving'[w])
    BY <1>2, HeadTailFacts DEF Inv, OnceInv
  <1>4. /\ Range(local_queues_'[w]) = Range(local_queues_[w]) \cup {r}
        /\ IsInjective(local_queues_[w]) /\ r \notin Range(local_queues_[w])
              => IsInjective(local_queues_'[w])
    BY <1>2, <1>3, AppendFacts
  <1>5. \A b \in Actors, s \in Routines : Submitting(b, s)' <=> Submitting(b, s)
    BY <1>1, SubmittingSame
  <1>6. Placed(r, "moving", w)
    BY <1>3, Found DEF Inv
  <1>7. ASSUME NEW s \in Routines, s # r PROVE SamePlace(s)
    BY <1>1, <1>2, <1>3, <1>4, <1>5, <1>7 DEF SamePlace
  <1>8. Placed(r, "local", w)'
    BY <1>1, <1>2, <1>3, <1>4, <1>5, <1>6 DEF Placed
  <1>9. r \notin Range(local_queues_[w])
    BY <1>6 DEF Placed
  <1>10. OnceInv'
    BY <1>1, <1>2, <1>3, <1>4, <1>9 DEF Inv, OnceInv
  <1>11. QED
    BY <1>3, <1>6, <1>7, <1>8, <1>10 DEF Moves

\* Several routines move.
LEMMA QueuedWithout ==
    ASSUME TypeOK, TypeOK', PlaceInv, NEW moved, \A s \in Routines \ moved : SamePlace(s)
    PROVE  \A s : s \notin moved => (s \in Queued' <=> s \in Queued)
  <1>1. \A s \in Routines \ moved : s \in Queued' <=> s \in Queued
    BY QueuedStays
  <1>2. QED
    BY <1>1, QueuedTypes

\* The routine that was in the slot goes with the one that is submitted.
LEMMA PushLIFOPlaces ==
    ASSUME Inv, TypeOK', NEW w \in Workers, PushLIFO(w), NEW r, r = Call(w).routine
    PROVE  /\ PlaceInv' /\ OnceInv'
           /\ r \in Routines /\ Placed(r, "execute", w)
           /\ r \notin Queued /\ Queued' = Queued \cup {r}
  <1>1. /\ UNCHANGED <<global_queue_, local_queues_, spilled, routine>>
        /\ UNCHANGED <<submitted, finished, discarded>>
        /\ lifo_slots_' = [lifo_slots_ EXCEPT ![w] = r]
        /\ moving' = [moving EXCEPT ![w] = IF lifo_slots_[w] = Null THEN << >>
                                           ELSE << lifo_slots_[w] >>]
        /\ pc[w] = "execute" /\ todo' = todo
        /\ pc' = [pc EXCEPT ![w] = IF lifo_slots_[w] = Null THEN "count" ELSE "move"]
    BY DEF PushLIFO, Goto, taking, history
  <1>2. w \in Actors /\ pc'[w] # "execute" /\ \A b \in Actors : b # w => pc'[b] = pc[b]
    BY <1>1, Constants DEF Inv, TypeOK
  <1>3. /\ r \in Routines /\ Placed(r, "execute", w)
        /\ \A b \in Actors, s \in Routines : s # r => (Submitting(b, s)' <=> Submitting(b, s))
        /\ \A b \in Actors : ~Submitting(b, r)'
    BY <1>1, <1>2, SubmittedRoutine
  <1>4. PICK o : o = lifo_slots_[w]
    OBVIOUS
  <1>5. /\ moving[w] = << >> /\ moving'[w] = IF o = Null THEN << >> ELSE << o >>
        /\ lifo_slots_'[w] = r /\ o \in Routines \cup {Null}
        /\ \A v \in Workers : v # w => moving'[v] = moving[v] /\ lifo_slots_'[v] = lifo_slots_[v]
    BY <1>1, <1>4 DEF Inv, TypeOK, WorkerInv, Loading
  <1>6. Range(moving[w]) = {} /\ Range(moving'[w]) = {o} \ {Null} /\ IsInjective(moving'[w])
    BY <1>5, SmallSequences
  <1>7. Null \notin Routines
    BY PoolAssumption
  <1>8. o # r
    BY <1>3, <1>4 DEF Placed
  <1>9. ASSUME NEW s \in Routines \ {r, o} PROVE SamePlace(s)
    BY <1>1, <1>3, <1>4, <1>5, <1>6 DEF SamePlace
  <1>10. Placed(r, "slot", w)'
    BY <1>1, <1>3, <1>5, <1>6, <1>7, <1>8 DEF Placed
  <1>11. ASSUME o # Null PROVE o \in Routines /\ Placed(o, "slot", w) /\ Placed(o, "moving", w)'
    <2>1. o \in Routines /\ Placed(o, "slot", w)
      BY <1>4, <1>5, <1>11, Found DEF Inv
    <2>2. QED
      BY <1>1, <1>3, <1>5, <1>6, <1>8, <1>11, <2>1 DEF Placed
  <1>12. PlaceInv'
    <2>1. \A s \in Routines \cap {r, o} :
              \E k \in Kinds, b \in Actors \cup {Null} : Placed(s, k, b)'
      BY <1>2, <1>7, <1>10, <1>11 DEF Kinds
    <2>2. QED
      BY <1>9, <2>1, Relocated DEF Inv
  <1>13. OnceInv'
    BY <1>1, <1>5, <1>6 DEF Inv, OnceInv
  <1>14. r \notin Queued /\ r \in Queued' /\ (o # Null => o \in Queued /\ o \in Queued')
    <2>1. "execute" \in Kinds /\ "slot" \in Kinds /\ "moving" \in Kinds
      BY DEF Kinds
    <2>2. "execute" \notin QueueKinds /\ "slot" \in QueueKinds /\ "moving" \in QueueKinds
      BY DEF QueueKinds
    <2>3. r \notin Queued /\ r \in Queued'
      BY <1>3, <1>10, <2>1, <2>2, QueuedKinds
    <2>4. o # Null => o \in Queued /\ o \in Queued'
      BY <1>11, <2>1, <2>2, QueuedKinds
    <2>5. QED
      BY <2>3, <2>4
  <1>15. Queued' = Queued \cup {r}
    <2>1. \A s : s \notin {r, o} => (s \in Queued' <=> s \in Queued)
      BY <1>9, QueuedWithout DEF Inv
    <2>2. Null \notin Queued /\ Null \notin Queued'
      BY <1>7, QueuedTypes DEF Inv
    <2>3. QED
      BY <1>14, <2>1, <2>2
  <1>16. QED
    BY <1>3, <1>12, <1>13, <1>14, <1>15

\* GrabFromLocalQueueToGlobalQueue
LEMMA GrabHalfPlaces ==
    ASSUME Inv, TypeOK', NEW w \in Workers, GrabHalf(w)
    PROVE  PlaceInv' /\ OnceInv' /\ Queued' = Queued
  <1> DEFINE n == kLocalQueueSize \div 2
             q == local_queues_[w]
  <1>1. PICK taken, left : taken = Grabbed(q, n) /\ left = Left(q, n)
    OBVIOUS
  <1>2. /\ UNCHANGED <<global_queue_, lifo_slots_, moving, routine>>
        /\ UNCHANGED <<submitted, finished, discarded>>
        /\ spilled' = [spilled EXCEPT ![w] = taken]
        /\ local_queues_' = [local_queues_ EXCEPT ![w] = left]
        /\ pc[w] = "grab" /\ pc'[w] # "execute" /\ todo' = todo
        /\ \A b \in Actors : b # w => pc'[b] = pc[b]
    BY <1>1, Constants DEF GrabHalf, Goto, taking, history, Inv, TypeOK
  <1>3. /\ spilled[w] = << >> /\ spilled'[w] = taken /\ local_queues_'[w] = left
        /\ \A v \in Workers : v # w => spilled'[v] = spilled[v] /\ local_queues_'[v] = local_queues_[v]
    BY <1>2 DEF Inv, TypeOK, WorkerInv
  <1>4. /\ Range(q) = Range(taken) \cup Range(left) /\ Range(q) \subseteq Routines
        /\ IsInjective(taken) /\ IsInjective(left) /\ Range(taken) \cap Range(left) = {}
    <2>1. q \in Seq(Routines) /\ n \in Nat /\ IsInjective(q)
      BY Constants DEF Inv, TypeOK, OnceInv
    <2> HIDE DEF q, n
    <2>2. QED
      BY <1>1, <2>1, GrabFacts, RangeFacts
  <1>5. Range(spilled[w]) = {}
    BY <1>3, SmallSequences
  <1>6. \A b \in Actors, s \in Routines : Submitting(b, s)' <=> Submitting(b, s)
    BY <1>2, SubmittingSame
  <1>7. \A s \in Range(taken) : s \in Routines /\ Placed(s, "local", w)
    BY <1>4, Found DEF Inv
  <1> HIDE DEF q, n
  <1>8. ASSUME NEW s \in Routines \ Range(taken) PROVE SamePlace(s)
    BY <1>2, <1>3, <1>4, <1>5, <1>6 DEF SamePlace, q
  <1>9. ASSUME NEW s \in Range(taken) PROVE Placed(s, "spilled", w)'
    BY <1>2, <1>3, <1>4, <1>5, <1>6, <1>7 DEF Placed, q
  <1>10. w \in Actors \cup {Null} /\ {"local", "spilled"} \subseteq Kinds \cap QueueKinds
    BY Constants DEF Kinds, QueueKinds
  <1>11. PlaceInv'
    <2>1. \A s \in Routines \cap Range(taken) :
              \E k \in Kinds, b \in Actors \cup {Null} : Placed(s, k, b)'
      BY <1>9, <1>10
    <2>2. QED
      BY <1>8, <2>1, Relocated DEF Inv
  <1>12. OnceInv'
    BY <1>2, <1>3, <1>4 DEF Inv, OnceInv
  <1>13. Queued' = Queued
    <2>1. \A s : s \notin Range(taken) => (s \in Queued' <=> s \in Queued)
      BY <1>8, QueuedWithout DEF Inv
    <2>2. \A s \in Range(taken) : s \in Queued /\ s \in Queued'
      BY <1>7, <1>9, <1>10, QueuedKinds
    <2>3. QED
      BY <2>1, <2>2
  <1>14. QED
    BY <1>11, <1>12, <1>13

LEMMA SpillPlaces ==
    ASSUME Inv, TypeOK', NEW w \in Workers, Spill(w)
    PROVE  PlaceInv' /\ OnceInv' /\ Queued' = Queued
  <1>1. PICK t : t = spilled[w]
    OBVIOUS
  <1>2. /\ UNCHANGED <<local_queues_, lifo_slots_, moving, routine>>
        /\ UNCHANGED <<submitted, finished, discarded>>
        /\ spilled' = [spilled EXCEPT ![w] = << >>]
        /\ global_queue_' = global_queue_ \o t
        /\ pc[w] = "spill" /\ pc'[w] # "execute" /\ todo' = todo
        /\ \A b \in Actors : b # w => pc'[b] = pc[b]
    BY <1>1, Constants DEF Spill, Goto, taking, history, Inv, TypeOK
  <1>3. /\ spilled'[w] = << >> /\ t \in Seq(Routines) /\ IsInjective(t)
        /\ \A v \in Workers : v # w => spilled'[v] = spilled[v]
    BY <1>1, <1>2 DEF Inv, TypeOK, OnceInv
  <1>4. \A s \in Range(t) : s \in Routines /\ Placed(s, "spilled", w)
    BY <1>1, <1>3, RangeFacts, Found DEF Inv
  <1>5. Range(global_queue_) \cap Range(t) = {}
    BY <1>4 DEF Placed
  <1>6. Range(global_queue_') = Range(global_queue_) \cup Range(t) /\ IsInjective(global_queue_')
    BY <1>2, <1>3, <1>5, ConcatFacts DEF Inv, TypeOK, OnceInv
  <1>7. Range(spilled'[w]) = {} /\ IsInjective(spilled'[w])
    BY <1>3, SmallSequences
  <1>8. \A b \in Actors, s \in Routines : Submitting(b, s)' <=> Submitting(b, s)
    BY <1>2, SubmittingSame
  <1>9. ASSUME NEW s \in Routines \ Range(t) PROVE SamePlace(s)
    BY <1>1, <1>2, <1>3, <1>6, <1>7, <1>8 DEF SamePlace
  <1>10. ASSUME NEW s \in Range(t) PROVE Placed(s, "global", Null)'
    BY <1>1, <1>2, <1>3, <1>4, <1>6, <1>7, <1>8 DEF Placed
  <1>11. {"global", "spilled"} \subseteq Kinds \cap QueueKinds
    BY DEF Kinds, QueueKinds
  <1>12. PlaceInv'
    <2>1. \A s \in Routines \cap Range(t) :
              \E k \in Kinds, b \in Actors \cup {Null} : Placed(s, k, b)'
      BY <1>10, <1>11
    <2>2. QED
      BY <1>9, <2>1, Relocated DEF Inv
  <1>13. OnceInv'
    BY <1>2, <1>3, <1>6, <1>7 DEF Inv, OnceInv
  <1>14. Queued' = Queued
    <2>1. \A s : s \notin Range(t) => (s \in Queued' <=> s \in Queued)
      BY <1>9, QueuedWithout DEF Inv
    <2>2. \A s \in Range(t) : s \in Queued /\ s \in Queued'
      BY <1>4, <1>10, <1>11, QueuedKinds
    <2>3. QED
      BY <2>1, <2>2
  <1>15. QED
    BY <1>12, <1>13, <1>14

\* A worker takes a routine out of a queue, and perhaps others, that it will
\* move to its own.
TakesOut(w, r, rest) ==
    /\ pc[w] \in {"take", "rob"} /\ Takes(w, r, rest)
    /\ UNCHANGED <<spilled, history, todo>>
    /\ IsInjective(rest) /\ r \notin Range(rest)
    /\ IsInjective(global_queue_') /\ \A v \in Workers : IsInjective(local_queues_'[v])
    /\ \A s \in Routines \ ({r} \cup Range(rest)) :
          /\ s \in Range(global_queue_') <=> s \in Range(global_queue_)
          /\ \A v \in Workers : /\ s \in Range(local_queues_'[v]) <=> s \in Range(local_queues_[v])
                                /\ lifo_slots_'[v] = s <=> lifo_slots_[v] = s
    /\ \A s \in {r} \cup Range(rest) :
          /\ \E kind \in {"global", "local", "slot"}, by \in Actors \cup {Null} : Placed(s, kind, by)
          /\ s \notin Range(global_queue_')
          /\ \A v \in Workers : s \notin Range(local_queues_'[v]) /\ lifo_slots_'[v] # s
LEMMA TakePlaces ==
    ASSUME Inv, TypeOK', NEW w \in Workers, NEW r \in Routines, NEW rest \in Seq(Routines),
           TakesOut(w, r, rest)
    PROVE  /\ PlaceInv' /\ OnceInv'
           /\ routine'[w] \in Queued /\ Queued' = Queued \ {routine'[w]}
  <1> DEFINE some == {r} \cup Range(rest)
  <1>1. /\ routine' = [routine EXCEPT ![w] = r] /\ moving' = [moving EXCEPT ![w] = rest]
        /\ UNCHANGED <<spilled, submitted, finished, discarded, todo>>
        /\ pc' = [pc EXCEPT ![w] = IF rest = << >> THEN "taken" ELSE "move"]
    BY DEF TakesOut, Takes, history
  <1>a. routine[w] = Null /\ moving[w] = << >>
    BY DEF TakesOut, Inv, WorkerInv, Running, Loading
  <1>2. /\ routine[w] = Null /\ routine'[w] = r /\ moving[w] = << >> /\ moving'[w] = rest
        /\ \A v \in Workers : v # w => routine'[v] = routine[v] /\ moving'[v] = moving[v]
    BY <1>1, <1>a DEF Inv, TypeOK
  <1>3. /\ w \in Actors /\ pc'[w] # "execute" /\ pc[w] # "execute"
        /\ \A b \in Actors : b # w => pc'[b] = pc[b]
    <2>1. pc \in [Actors -> Labels] /\ w \in Actors /\ pc[w] # "execute"
      BY Constants DEF Inv, TypeOK, TakesOut
    <2>2. QED
      BY <1>1, <2>1
  <1>4. \A b \in Actors, s \in Routines : Submitting(b, s)' <=> Submitting(b, s)
    BY <1>1, <1>3, SubmittingSame
  <1>5. Range(moving[w]) = {} /\ Range(rest) \subseteq Routines /\ Null \notin Routines
    BY <1>2, SmallSequences, RangeFacts, PoolAssumption
  <1>6. ASSUME NEW s \in Routines \ some PROVE SamePlace(s)
    BY <1>1, <1>2, <1>4, <1>5 DEF SamePlace, TakesOut
  <1>7. ASSUME NEW s \in some
        PROVE  /\ s \in Routines /\ s \notin finished /\ s \notin discarded /\ s \in submitted
               /\ \A b \in Actors : ~Submitting(b, s)
               /\ \A v \in Workers : /\ s \notin Range(moving[v]) /\ s \notin Range(spilled[v])
                                     /\ routine[v] # s
    <2>1. PICK kind \in {"global", "local", "slot"}, by \in Actors \cup {Null} : Placed(s, kind, by)
      BY DEF TakesOut
    <2>2. QED
      BY <1>5, <2>1 DEF Placed
  <1>8. Placed(r, "routine", w)'
    <2>1. r \in some /\ r \notin Range(rest)
      BY DEF TakesOut
    <2>2. QED
      BY <1>1, <1>2, <1>4, <1>7, <2>1 DEF Placed, TakesOut
  <1>9. ASSUME NEW s \in Range(rest) PROVE Placed(s, "moving", w)'
    <2>1. s \in some /\ s # r
      BY DEF TakesOut
    <2>2. QED
      BY <1>1, <1>2, <1>4, <1>7, <2>1 DEF Placed, TakesOut
  <1>10. w \in Actors \cup {Null} /\ {"routine", "moving", "global", "local", "slot"} \subseteq Kinds
    BY Constants DEF Kinds
  <1>11. PlaceInv'
    <2>1. \A s \in Routines \cap some :
              \E k \in Kinds, b \in Actors \cup {Null} : Placed(s, k, b)'
      BY <1>8, <1>9, <1>10
    <2>2. QED
      BY <1>6, <2>1, Relocated DEF Inv
  <1>12. OnceInv'
    BY <1>1, <1>2 DEF Inv, OnceInv, TakesOut
  <1>13. \A s \in some : s \in Queued
    <2>1. ASSUME NEW s \in some PROVE s \in Queued
      <3>1. PICK kind \in {"global", "local", "slot"}, by \in Actors \cup {Null} : Placed(s, kind, by)
        BY DEF TakesOut
      <3>2. kind \in QueueKinds /\ kind \in Kinds
        BY DEF QueueKinds, Kinds
      <3>3. QED
        BY <1>7, <3>1, <3>2, QueuedKinds
    <2>2. QED
      BY <2>1
  <1>14. r \notin Queued' /\ \A s \in Range(rest) : s \in Queued'
    <2>1. "routine" \notin QueueKinds /\ "moving" \in QueueKinds
      BY DEF QueueKinds
    <2>2. r \notin Queued'
      BY <1>8, <1>10, <2>1, QueuedKinds
    <2>3. \A s \in Range(rest) : s \in Queued'
      BY <1>5, <1>9, <1>10, <2>1, QueuedKinds
    <2>4. QED
      BY <2>2, <2>3
  <1>15. \A s : s \notin some => (s \in Queued' <=> s \in Queued)
    BY <1>6, QueuedWithout DEF Inv
  <1>16. Queued' = Queued \ {r}
    BY <1>13, <1>14, <1>15 DEF TakesOut
  <1>17. QED
    BY <1>2, <1>11, <1>12, <1>13, <1>16

LEMMA TakeFromLIFOSlotPlaces ==
    ASSUME Inv, TypeOK', NEW w \in Workers, TakeFromLIFOSlot(w), lifo_slots_[w] # Null
    PROVE  /\ PlaceInv' /\ OnceInv'
           /\ routine'[w] \in Queued /\ Queued' = Queued \ {routine'[w]}
  <1>1. PICK r : r = lifo_slots_[w]
    OBVIOUS
  <1>2. /\ Takes(w, r, << >>) /\ lifo_slots_' = [lifo_slots_ EXCEPT ![w] = Null]
        /\ UNCHANGED <<global_queue_, local_queues_, spilled, history, todo>>
        /\ pc[w] = "take"
    BY <1>1 DEF TakeFromLIFOSlot, Trying
  <1>3. r \in Routines /\ Null \notin Routines
    BY <1>1, PoolAssumption DEF Inv, TypeOK
  <1>4. /\ lifo_slots_'[w] = Null
        /\ \A v \in Workers : v # w => lifo_slots_'[v] = lifo_slots_[v]
    BY <1>2 DEF Inv, TypeOK
  <1>5. Placed(r, "slot", w)
    BY <1>1, <1>3, Found DEF Inv
  <1>6. /\ r \notin Range(global_queue_)
        /\ \A v \in Workers : r \notin Range(local_queues_[v]) /\ (v # w => lifo_slots_[v] # r)
    BY <1>5 DEF Placed
  <1>7. Range(<< >>) = {} /\ IsInjective(<< >>)
    BY SmallSequences
  <1>8. IsInjective(global_queue_') /\ \A v \in Workers : IsInjective(local_queues_'[v])
    BY <1>2 DEF Inv, OnceInv
  <1>9. \A s \in Routines \ ({r} \cup Range(<< >>)) :
               /\ s \in Range(global_queue_') <=> s \in Range(global_queue_)
               /\ \A v \in Workers : /\ s \in Range(local_queues_'[v]) <=> s \in Range(local_queues_[v])
                                     /\ lifo_slots_'[v] = s <=> lifo_slots_[v] = s
    BY <1>1, <1>2, <1>3, <1>4
  <1>10. \A s \in {r} \cup Range(<< >>) :
               /\ \E kind \in {"global", "local", "slot"}, by \in Actors \cup {Null} : Placed(s, kind, by)
               /\ s \notin Range(global_queue_')
               /\ \A v \in Workers : s \notin Range(local_queues_'[v]) /\ lifo_slots_'[v] # s
    BY <1>2, <1>3, <1>4, <1>5, <1>6, <1>7 DEF Actors
  <1>11. TakesOut(w, r, << >>)
    BY <1>2, <1>7, <1>8, <1>9, <1>10 DEF TakesOut
  <1>12. << >> \in Seq(Routines)
    OBVIOUS
  <1>13. QED
    BY <1>3, <1>11, <1>12, TakePlaces

LEMMA TakeFromLocalQueuePlaces ==
    ASSUME Inv, TypeOK', NEW w \in Workers, TakeFromLocalQueue(w), local_queues_[w] # << >>
    PROVE  /\ PlaceInv' /\ OnceInv'
           /\ routine'[w] \in Queued /\ Queued' = Queued \ {routine'[w]}
  <1>1. PICK r : r = Head(local_queues_[w])
    OBVIOUS
  <1>2. /\ Takes(w, r, << >>)
        /\ local_queues_' = [local_queues_ EXCEPT ![w] = Tail(local_queues_[w])]
        /\ UNCHANGED <<global_queue_, lifo_slots_, spilled, history, todo>>
        /\ pc[w] = "take"
    BY <1>1 DEF TakeFromLocalQueue, Trying
  <1>3. /\ r \in Routines /\ Range(local_queues_[w]) = {r} \cup Range(Tail(local_queues_[w]))
        /\ IsInjective(Tail(local_queues_[w])) /\ r \notin Range(Tail(local_queues_[w]))
    <2>1. local_queues_[w] \in Seq(Routines) /\ IsInjective(local_queues_[w])
      BY DEF Inv, TypeOK, OnceInv
    <2>2. QED
      BY <1>1, <2>1, HeadTailFacts
  <1>4. /\ local_queues_'[w] = Tail(local_queues_[w])
        /\ \A v \in Workers : v # w => local_queues_'[v] = local_queues_[v]
    BY <1>2 DEF Inv, TypeOK
  <1>5. Placed(r, "local", w)
    BY <1>3, Found DEF Inv
  <1>6. /\ r \notin Range(global_queue_)
        /\ \A v \in Workers : lifo_slots_[v] # r /\ (v # w => r \notin Range(local_queues_[v]))
    BY <1>5 DEF Placed
  <1>7. Range(<< >>) = {} /\ IsInjective(<< >>)
    BY SmallSequences
  <1>8. IsInjective(global_queue_') /\ \A v \in Workers : IsInjective(local_queues_'[v])
    BY <1>2, <1>3, <1>4 DEF Inv, OnceInv
  <1>9. \A s \in Routines \ ({r} \cup Range(<< >>)) :
               /\ s \in Range(global_queue_') <=> s \in Range(global_queue_)
               /\ \A v \in Workers : /\ s \in Range(local_queues_'[v]) <=> s \in Range(local_queues_[v])
                                     /\ lifo_slots_'[v] = s <=> lifo_slots_[v] = s
    BY <1>2, <1>3, <1>4
  <1>10. \A s \in {r} \cup Range(<< >>) :
               /\ \E kind \in {"global", "local", "slot"}, by \in Actors \cup {Null} : Placed(s, kind, by)
               /\ s \notin Range(global_queue_')
               /\ \A v \in Workers : s \notin Range(local_queues_'[v]) /\ lifo_slots_'[v] # s
    BY <1>2, <1>3, <1>4, <1>5, <1>6, <1>7 DEF Actors
  <1>11. TakesOut(w, r, << >>)
    BY <1>2, <1>7, <1>8, <1>9, <1>10 DEF TakesOut
  <1>12. << >> \in Seq(Routines)
    OBVIOUS
  <1>13. QED
    BY <1>3, <1>11, <1>12, TakePlaces

LEMMA TakeFromGlobalQueuePlaces ==
    ASSUME Inv, TypeOK', NEW w \in Workers, TakeFromGlobalQueue(w), global_queue_ # << >>
    PROVE  /\ PlaceInv' /\ OnceInv'
           /\ routine'[w] \in Queued /\ Queued' = Queued \ {routine'[w]}
  <1>1. PICK n \in Nat : n < Len(global_queue_) /\ TakesShare(w, n)
    BY GlobalShare DEF Inv
  <1>2. PICK r, share, left : /\ r = Head(global_queue_)
                              /\ share = SubSeq(global_queue_, 2, n + 1)
                              /\ left = SubSeq(global_queue_, n + 2, Len(global_queue_))
    OBVIOUS
  <1>3. /\ r \in Routines /\ share \in Seq(Routines) /\ left \in Seq(Routines)
        /\ Range(global_queue_) = {r} \cup Range(share) \cup Range(left)
        /\ IsInjective(share) /\ IsInjective(left) /\ r \notin Range(share) \cup Range(left)
        /\ Range(share) \cap Range(left) = {}
    <2>1. global_queue_ \in Seq(Routines) /\ IsInjective(global_queue_)
      BY DEF Inv, TypeOK, OnceInv
    <2>2. QED
      BY <1>1, <1>2, <2>1, ShareFacts
  <1>4. /\ Takes(w, r, share) /\ global_queue_' = left
        /\ UNCHANGED <<local_queues_, lifo_slots_, spilled, history, todo>>
        /\ pc[w] = "take"
    BY <1>1, <1>2 DEF TakesShare, TakeFromGlobalQueue, Trying
  <1>5. ASSUME NEW s \in {r} \cup Range(share)
        PROVE  /\ \E kind \in {"global", "local", "slot"}, by \in Actors \cup {Null} : Placed(s, kind, by)
               /\ s \notin Range(global_queue_')
               /\ \A v \in Workers : s \notin Range(local_queues_'[v]) /\ lifo_slots_'[v] # s
    <2>1. s \in Range(global_queue_) /\ s \notin Range(left) /\ s \in Routines
      BY <1>3, RangeFacts
    <2>2. PICK by \in Actors \cup {Null} : Placed(s, "global", by)
      BY <2>1, Constants, Found DEF Inv
    <2>3. \A v \in Workers : s \notin Range(local_queues_[v]) /\ lifo_slots_[v] # s
      BY <2>2 DEF Placed
    <2>4. QED
      BY <1>4, <2>1, <2>2, <2>3
  <1>6. \A s \in Routines \ ({r} \cup Range(share)) :
               /\ s \in Range(global_queue_') <=> s \in Range(global_queue_)
               /\ \A v \in Workers : /\ s \in Range(local_queues_'[v]) <=> s \in Range(local_queues_[v])
                                     /\ lifo_slots_'[v] = s <=> lifo_slots_[v] = s
    BY <1>3, <1>4
  <1>7. IsInjective(global_queue_') /\ \A v \in Workers : IsInjective(local_queues_'[v])
    BY <1>3, <1>4 DEF Inv, OnceInv
  <1>8. TakesOut(w, r, share)
    BY <1>3, <1>4, <1>5, <1>6, <1>7 DEF TakesOut
  <1>9. QED
    BY <1>3, <1>8, TakePlaces

LEMMA RobPlaces ==
    ASSUME Inv, TypeOK', NEW w \in Workers, Rob(w), ~TakesNothing(w)
    PROVE  /\ PlaceInv' /\ OnceInv'
           /\ routine'[w] \in Queued /\ Queued' = Queued \ {routine'[w]}
  <1>1. PICK from \in Workers : Robs(w, from)
    BY RobCases
  <1> DEFINE n == kLocalQueueSize \div kRobbedPart
             q == local_queues_[from]
  <1>2. PICK taken, left : taken = Grabbed(q, n) /\ left = Left(q, n)
    OBVIOUS
  <1>3. PICK r, share : r = Head(taken) /\ share = Tail(taken)
    OBVIOUS
  <1>4. /\ taken # << >> /\ Takes(w, r, share)
        /\ local_queues_' = [local_queues_ EXCEPT ![from] = left]
        /\ UNCHANGED <<global_queue_, lifo_slots_, spilled, history, todo>>
        /\ pc[w] = "rob"
    BY <1>1, <1>2, <1>3 DEF Robs, Rob
  <1>5. q \in Seq(Routines) /\ n \in Nat /\ IsInjective(q)
    BY Constants DEF Inv, TypeOK, OnceInv
  <1>6. /\ local_queues_'[from] = left
        /\ \A v \in Workers : v # from => local_queues_'[v] = local_queues_[v]
    BY <1>4 DEF Inv, TypeOK
  <1> HIDE DEF n
  <1>7. /\ taken \in Seq(Routines) /\ left \in Seq(Routines)
        /\ Range(q) = Range(taken) \cup Range(left)
        /\ IsInjective(taken) /\ IsInjective(left) /\ Range(taken) \cap Range(left) = {}
    BY <1>2, <1>5, GrabFacts
  <1>8. /\ r \in Routines /\ share \in Seq(Routines)
        /\ Range(taken) = {r} \cup Range(share) /\ IsInjective(share) /\ r \notin Range(share)
    BY <1>3, <1>4, <1>7, HeadTailFacts
  <1>9. ASSUME NEW s \in {r} \cup Range(share)
        PROVE  /\ \E kind \in {"global", "local", "slot"}, by \in Actors \cup {Null} : Placed(s, kind, by)
               /\ s \notin Range(global_queue_')
               /\ \A v \in Workers : s \notin Range(local_queues_'[v]) /\ lifo_slots_'[v] # s
    <2>1. s \in Range(q) /\ s \notin Range(left) /\ s \in Routines
      BY <1>7, <1>8, RangeFacts
    <2>2. Placed(s, "local", from)
      BY <2>1, Found DEF Inv
    <2>3. /\ s \notin Range(global_queue_)
          /\ \A v \in Workers : lifo_slots_[v] # s /\ (v # from => s \notin Range(local_queues_[v]))
      BY <2>2 DEF Placed
    <2>4. QED
      BY <1>4, <1>6, <2>1, <2>2, <2>3 DEF Actors
  <1>10. \A s \in Routines \ ({r} \cup Range(share)) :
               /\ s \in Range(global_queue_') <=> s \in Range(global_queue_)
               /\ \A v \in Workers : /\ s \in Range(local_queues_'[v]) <=> s \in Range(local_queues_[v])
                                     /\ lifo_slots_'[v] = s <=> lifo_slots_[v] = s
    BY <1>4, <1>6, <1>7, <1>8
  <1>11. IsInjective(global_queue_') /\ \A v \in Workers : IsInjective(local_queues_'[v])
    BY <1>4, <1>6, <1>7 DEF Inv, OnceInv
  <1>12. TakesOut(w, r, share)
    BY <1>4, <1>8, <1>9, <1>10, <1>11 DEF TakesOut
  <1>13. QED
    BY <1>8, <1>12, TakePlaces

\* A routine that returns is finished.
LEMMA FinishesPlaces ==
    ASSUME Inv, TypeOK', NEW w \in Workers, Finishes(w), NEW r, r = routine[w]
    PROVE  /\ Moves(r, "routine", w, "finished", Null) /\ OnceInv'
           /\ r \in submitted \ finished /\ finished' = finished \cup {r}
  <1>1. /\ UNCHANGED <<global_queue_, local_queues_, lifo_slots_, moving, spilled>>
        /\ UNCHANGED <<submitted, discarded>>
        /\ finished' = finished \cup {r} /\ routine' = [routine EXCEPT ![w] = Null]
        /\ pc[w] = "run" /\ todo' = todo
        /\ pc' = [pc EXCEPT ![w] = "done"] \/ pc' = [pc EXCEPT ![w] = "loop"]
    BY DEF Finishes, Return, PlainReturn, Goto, transit, queues
  <1>2. /\ w \in Actors /\ pc'[w] # "execute"
        /\ \A b \in Actors : b # w => pc'[b] = pc[b]
    BY <1>1, Constants DEF Inv, TypeOK
  <1>3. r \in Routines /\ Null \notin Routines
    BY <1>1, PoolAssumption DEF Inv, TypeOK, WorkerInv, Running
  <1>4. routine'[w] = Null /\ \A v \in Workers : v # w => routine'[v] = routine[v]
    BY <1>1 DEF Inv, TypeOK
  <1>5. \A b \in Actors, s \in Routines : Submitting(b, s)' <=> Submitting(b, s)
    BY <1>1, <1>2, SubmittingSame
  <1>6. Placed(r, "routine", w)
    BY <1>3, Found DEF Inv
  <1>7. ASSUME NEW s \in Routines, s # r PROVE SamePlace(s)
    BY <1>1, <1>3, <1>4, <1>5, <1>7 DEF SamePlace
  <1>8. Placed(r, "finished", Null)'
    BY <1>1, <1>3, <1>4, <1>5, <1>6 DEF Placed
  <1>9. OnceInv'
    BY <1>1 DEF Inv, OnceInv
  <1>10. r \in submitted \ finished
    BY <1>6 DEF Placed
  <1>11. QED
    BY <1>1, <1>3, <1>6, <1>7, <1>8, <1>9, <1>10 DEF Moves

\* The destructor discards what waits.
LEMMA DestroyPlaces ==
    ASSUME Inv, TypeOK', NEW c \in Clients, Destroy(c)
    PROVE  /\ PlaceInv' /\ OnceInv'
           /\ Waiting \subseteq Queued /\ Queued' = Queued \ Waiting
           /\ discarded \cap Waiting = {}
  <1>1. /\ UNCHANGED <<moving, spilled, routine, submitted, finished, pc>>
        /\ discarded' = discarded \cup Waiting
        /\ global_queue_' = << >>
        /\ local_queues_' = [w \in Workers |-> << >>]
        /\ lifo_slots_' = [w \in Workers |-> Null]
        /\ todo' = [todo EXCEPT ![c] = Tail(todo[c])]
        /\ pc[c] = "idle"
    BY DEF Destroy, transit, taking
  <1>2. \A b \in Actors : b # c => todo'[b] = todo[b]
    BY <1>1 DEF Inv, TypeOK
  <1>3. \A b \in Actors, s \in Routines : Submitting(b, s)' <=> Submitting(b, s)
    BY <1>1, <1>2, SubmittingSame
  <1>4. /\ Range(<< >>) = {} /\ IsInjective(<< >>) /\ Null \notin Routines
        /\ Waiting \subseteq Routines /\ Waiting \subseteq Queued
    BY SmallSequences, PoolAssumption, WaitingRoutines DEF Inv
  <1>5. /\ Range(global_queue_') = {} /\ IsInjective(global_queue_')
        /\ \A w \in Workers : /\ Range(local_queues_'[w]) = {} /\ IsInjective(local_queues_'[w])
                              /\ lifo_slots_'[w] = Null
    BY <1>1, <1>4
  <1>6. ASSUME NEW s \in Routines \ Waiting PROVE SamePlace(s)
    <2>1. /\ s \notin Range(global_queue_)
          /\ \A w \in Workers : s \notin Range(local_queues_[w]) /\ lifo_slots_[w] # s
      BY <1>4, WaitingRoutines
    <2>2. QED
      BY <1>1, <1>3, <1>4, <1>5, <2>1 DEF SamePlace
  <1>7. ASSUME NEW s \in Waiting
        PROVE  s \in Routines /\ s \notin discarded /\ Placed(s, "discarded", Null)'
    <2>1. s \in Routines
      BY <1>4
    <2>2. PICK kind \in Kinds, by \in Actors \cup {Null} : Placed(s, kind, by)
      BY <2>1 DEF Inv, PlaceInv
    <2>3. kind \in {"global", "local", "slot"}
      BY <2>1, <2>2, <1>4, WaitingRoutines DEF Placed
    <2>4. Placed(s, "discarded", Null)'
      BY <1>1, <1>3, <1>4, <1>5, <2>1, <2>2, <2>3 DEF Placed
    <2>5. QED
      BY <2>1, <2>2, <2>3, <2>4 DEF Placed
  <1>8. "discarded" \in Kinds \ QueueKinds
    BY DEF Kinds, QueueKinds
  <1>9. PlaceInv'
    <2>1. \A s \in Routines \cap Waiting :
              \E k \in Kinds, b \in Actors \cup {Null} : Placed(s, k, b)'
      BY <1>7, <1>8
    <2>2. QED
      BY <1>6, <2>1, Relocated DEF Inv
  <1>10. OnceInv'
    BY <1>1, <1>5 DEF Inv, OnceInv
  <1>11. Queued' = Queued \ Waiting
    <2>1. \A s : s \notin Waiting => (s \in Queued' <=> s \in Queued)
      BY <1>6, QueuedWithout DEF Inv
    <2>2. \A s \in Waiting : s \notin Queued'
      BY <1>7, <1>8, QueuedKinds
    <2>3. QED
      BY <2>1, <2>2
  <1>12. QED
    BY <1>4, <1>7, <1>9, <1>10, <1>11

------------------------------------------------------------------------------
\* Every step keeps each routine in one place.
LEMMA PlacesStep ==
    ASSUME Inv, Next PROVE PlaceInv' /\ OnceInv'
  <1>1. TypeOK'
    BY TypeStep
  <1>2. CASE Quiet
    BY <1>2, QuietPlaces DEF Inv
  <1>3. /\ {"new", "execute", "global", "local", "moving", "routine", "finished"} \subseteq Kinds
        /\ \A w \in Workers : w \in Actors \cup {Null}
        /\ Null \in Actors \cup {Null}
    BY Constants DEF Kinds
  <1>4. ASSUME NEW a \in Actors, Submission(a) PROVE PlaceInv' /\ OnceInv'
    BY <1>4, SubmissionPlaces
  <1>5. ASSUME NEW a \in Actors, PushGlobal(a) PROVE PlaceInv' /\ OnceInv'
    <2>1. PICK r : r = Call(a).routine
      OBVIOUS
    <2>2. Moves(r, "execute", a, "global", Null) /\ OnceInv'
      BY <1>1, <1>5, <2>1, PushGlobalPlaces
    <2>3. QED
      BY <1>1, <1>3, <2>2, MoveFacts DEF Inv
  <1>6. ASSUME NEW w \in Workers, PushLocal(w) PROVE PlaceInv' /\ OnceInv'
    <2>1. PICK r : r = Call(w).routine
      OBVIOUS
    <2>2. Moves(r, "execute", w, "moving", w) /\ OnceInv'
      BY <1>1, <1>6, <2>1, PushLocalPlaces
    <2>3. QED
      BY <1>1, <1>3, <2>2, MoveFacts DEF Inv
  <1>7. ASSUME NEW w \in Workers, PushLIFO(w) PROVE PlaceInv' /\ OnceInv'
    <2>1. PICK r : r = Call(w).routine
      OBVIOUS
    <2>2. QED
      BY <1>1, <1>7, <2>1, PushLIFOPlaces
  <1>8. ASSUME NEW w \in Workers, Move(w) PROVE PlaceInv' /\ OnceInv'
    <2>1. PICK r : r = Head(moving[w])
      OBVIOUS
    <2>2. Moves(r, "moving", w, "local", w) /\ OnceInv'
      BY <1>1, <1>8, <2>1, MovePlaces
    <2>3. QED
      BY <1>1, <1>3, <2>2, MoveFacts DEF Inv
  <1>9. ASSUME NEW w \in Workers, GrabHalf(w) \/ Spill(w) PROVE PlaceInv' /\ OnceInv'
    BY <1>1, <1>9, GrabHalfPlaces, SpillPlaces
  <1>10. ASSUME NEW w \in Workers, TakeFromLIFOSlot(w), lifo_slots_[w] # Null
         PROVE  PlaceInv' /\ OnceInv'
    BY <1>1, <1>10, TakeFromLIFOSlotPlaces
  <1>11. ASSUME NEW w \in Workers, TakeFromLocalQueue(w), local_queues_[w] # << >>
         PROVE  PlaceInv' /\ OnceInv'
    BY <1>1, <1>11, TakeFromLocalQueuePlaces
  <1>12. ASSUME NEW w \in Workers, TakeFromGlobalQueue(w), global_queue_ # << >>
         PROVE  PlaceInv' /\ OnceInv'
    BY <1>1, <1>12, TakeFromGlobalQueuePlaces
  <1>13. ASSUME NEW w \in Workers, Rob(w), ~TakesNothing(w) PROVE PlaceInv' /\ OnceInv'
    BY <1>1, <1>13, RobPlaces
  <1>14. ASSUME NEW w \in Workers, Finishes(w) PROVE PlaceInv' /\ OnceInv'
    <2>1. PICK r : r = routine[w]
      OBVIOUS
    <2>2. Moves(r, "routine", w, "finished", Null) /\ OnceInv'
      BY <1>1, <1>14, <2>1, FinishesPlaces
    <2>3. QED
      BY <1>1, <1>3, <2>2, MoveFacts DEF Inv
  <1>15. ASSUME NEW c \in Clients, Destroy(c) PROVE PlaceInv' /\ OnceInv'
    BY <1>1, <1>15, DestroyPlaces
  <1>16. QED
    BY <1>2, <1>4, <1>5, <1>6, <1>7, <1>8, <1>9, <1>10, <1>11, <1>12, <1>13, <1>14, <1>15,
       QuietOrRelocation DEF Relocation

LEMMA InvStep ==
    ASSUME Inv, [Next]_vars PROVE Inv'
  <1>1. CASE Next
    <2>1. TypeOK'
      BY <1>1, TypeStep
    <2>2. WorkerInv' /\ CallInv' /\ ScriptInv'
      BY <1>1, <2>1, WorkerInvStep, CallInvStep, ScriptInvStep
    <2>3. PlaceInv' /\ OnceInv'
      BY <1>1, PlacesStep
    <2>4. QED
      BY <2>1, <2>2, <2>3 DEF Inv
  <1>2. CASE UNCHANGED vars
    <2>1. /\ UNCHANGED <<global_queue_, local_queues_, lifo_slots_, lifo_count>>
          /\ UNCHANGED <<routines_in_queue_, routines_wg_, robbers_count_, closed, variant>>
          /\ UNCHANGED <<pc, todo, steps, routine, moving, spilled, old_count>>
          /\ UNCHANGED <<submitted, finished, discarded>>
      BY <1>2 DEF vars, queues, counters, history, taking, transit
    <2>2. TypeOK'
      BY <2>1 DEF Inv, TypeOK
    <2>3. WorkerInv'
      BY <2>1 DEF Inv, WorkerInv, WithWaitIdle
    <2>4. CallInv'
      BY <2>1 DEF Inv, CallInv, Next_, Call
    <2>5. ScriptInv'
      BY <2>1 DEF Inv, ScriptInv, WithWaitIdle, Stopped
    <2>6. PlaceInv' /\ OnceInv'
      <3>1. Quiet
        BY <2>1 DEF Quiet, queues, transit, history
      <3>2. QED
        BY <3>1, QuietPlaces DEF Inv
    <2>7. QED
      BY <2>2, <2>3, <2>4, <2>5, <2>6 DEF Inv
  <1>3. QED
    BY <1>1, <1>2

\* A sequence that holds r once holds it at one position.
LEMMA OnePosition ==
    ASSUME NEW S, NEW s \in Seq(S), IsInjective(s), NEW r
    PROVE  /\ r \in Range(s) => \E i : Positions(s, r) = {i}
           /\ r \notin Range(s) => Positions(s, r) = {}
  <1>1. ASSUME NEW i \in DOMAIN s, s[i] = r PROVE Positions(s, r) = {i}
    BY <1>1 DEF IsInjective, Positions
  <1>2. QED
    BY <1>1 DEF Range, Positions

\* The elements of Where.
LEMMA WhereFacts ==
    ASSUME NEW r
    PROVE  \A p : p \in Where(r) <=>
               \/ \E i \in Positions(global_queue_, r) : p = <<"global_queue_", Null, i>>
               \/ \E w \in Workers :
                     \/ \E i \in Positions(local_queues_[w], r) : p = <<"local_queues_", w, i>>
                     \/ \E i \in Positions(moving[w], r) : p = <<"moving", w, i>>
                     \/ \E i \in Positions(spilled[w], r) : p = <<"spilled", w, i>>
                     \/ lifo_slots_[w] = r /\ p = <<"lifo_slots_", w, 1>>
                     \/ routine[w] = r /\ p = <<"routine", w, 1>>
               \/ \E a \in Actors : Submitting(a, r) /\ p = <<"execute", a, 1>>
  BY DEF Where, Submitting

LEMMA OnePlace ==
    ASSUME Inv PROVE EachRoutineInOnePlace
  <1>1. finished \cap discarded = {}
    BY DEF Inv, TypeOK, PlaceInv, Placed
  <1>2. ASSUME NEW r \in Routines
        PROVE  Cardinality(Where(r)) = IF r \in submitted \ (finished \cup discarded) THEN 1 ELSE 0
    <2>1. PICK kind \in Kinds, by \in Actors \cup {Null} : Placed(r, kind, by)
      BY DEF Inv, PlaceInv
    <2>2. r \in submitted \ (finished \cup discarded)
              <=> kind \notin {"new", "finished", "discarded"}
      BY <2>1 DEF Placed
    <2>3. /\ kind = "global" => \E i : Positions(global_queue_, r) = {i}
          /\ kind # "global" => Positions(global_queue_, r) = {}
      BY <2>1, OnePosition DEF Inv, TypeOK, OnceInv, Placed
    <2>4. ASSUME NEW w \in Workers
          PROVE  /\ IF kind = "local" /\ by = w THEN \E i : Positions(local_queues_[w], r) = {i}
                                                ELSE Positions(local_queues_[w], r) = {}
                 /\ IF kind = "moving" /\ by = w THEN \E i : Positions(moving[w], r) = {i}
                                                 ELSE Positions(moving[w], r) = {}
                 /\ IF kind = "spilled" /\ by = w THEN \E i : Positions(spilled[w], r) = {i}
                                                  ELSE Positions(spilled[w], r) = {}
      <3>1. /\ local_queues_[w] \in Seq(Routines) /\ IsInjective(local_queues_[w])
            /\ moving[w] \in Seq(Routines) /\ IsInjective(moving[w])
            /\ spilled[w] \in Seq(Routines) /\ IsInjective(spilled[w])
        BY DEF Inv, TypeOK, OnceInv
      <3>2. /\ r \in Range(local_queues_[w]) <=> kind = "local" /\ by = w
            /\ r \in Range(moving[w]) <=> kind = "moving" /\ by = w
            /\ r \in Range(spilled[w]) <=> kind = "spilled" /\ by = w
        BY <2>1 DEF Placed
      <3>3. QED
        BY <3>1, <3>2, OnePosition
    <2>5. /\ \A w \in Workers : /\ lifo_slots_[w] = r <=> kind = "slot" /\ by = w
                                /\ routine[w] = r <=> kind = "routine" /\ by = w
          /\ \A a \in Actors : Submitting(a, r) <=> kind = "execute" /\ by = a
      BY <2>1 DEF Placed
    <2>6. CASE kind \in {"new", "finished", "discarded"}
      <3>1. Where(r) = {}
        BY <2>3, <2>4, <2>5, <2>6, WhereFacts
      <3>2. QED
        BY <2>2, <2>6, <3>1, FS_EmptySet
    <2>7. CASE kind \notin {"new", "finished", "discarded"}
      <3>1. \E p : Where(r) = {p}
        <4>1. CASE kind = "global"
          <5>1. PICK i : Positions(global_queue_, r) = {i}
            BY <2>3, <4>1
          <5>2. Where(r) = {<<"global_queue_", Null, i>>}
            BY <2>4, <2>5, <4>1, <5>1, WhereFacts
          <5>3. QED
            BY <5>2
        <4>2. CASE kind = "execute"
          <5>1. by \in Actors
            BY <2>1, <4>2 DEF Placed
          <5>2. Where(r) = {<<"execute", by, 1>>}
            BY <2>3, <2>4, <2>5, <4>2, <5>1, WhereFacts
          <5>3. QED
            BY <5>2
        <4>3. CASE kind \in {"local", "moving", "spilled"}
          <5>1. by \in Workers
            BY <2>1, <4>3 DEF Placed
          <5>2. CASE kind = "local"
            <6>1. PICK i : Positions(local_queues_[by], r) = {i}
              BY <2>4, <5>1, <5>2
            <6>2. Where(r) = {<<"local_queues_", by, i>>}
              BY <2>3, <2>4, <2>5, <5>1, <5>2, <6>1, WhereFacts
            <6>3. QED
              BY <6>2
          <5>3. CASE kind = "moving"
            <6>1. PICK i : Positions(moving[by], r) = {i}
              BY <2>4, <5>1, <5>3
            <6>2. Where(r) = {<<"moving", by, i>>}
              BY <2>3, <2>4, <2>5, <5>1, <5>3, <6>1, WhereFacts
            <6>3. QED
              BY <6>2
          <5>4. CASE kind = "spilled"
            <6>1. PICK i : Positions(spilled[by], r) = {i}
              BY <2>4, <5>1, <5>4
            <6>2. Where(r) = {<<"spilled", by, i>>}
              BY <2>3, <2>4, <2>5, <5>1, <5>4, <6>1, WhereFacts
            <6>3. QED
              BY <6>2
          <5>5. QED
            BY <4>3, <5>2, <5>3, <5>4
        <4>4. CASE kind \in {"slot", "routine"}
          <5>1. by \in Workers
            BY <2>1, <4>4 DEF Placed
          <5>2. /\ kind = "slot" => Where(r) = {<<"lifo_slots_", by, 1>>}
                /\ kind = "routine" => Where(r) = {<<"routine", by, 1>>}
            BY <2>3, <2>4, <2>5, <5>1, WhereFacts
          <5>3. QED
            BY <4>4, <5>2
        <4>5. QED
          BY <2>7, <4>1, <4>2, <4>3, <4>4 DEF Kinds
      <3>2. QED
        BY <2>2, <2>7, <3>1, FS_Singleton
    <2>8. QED
      BY <2>6, <2>7
  <1>3. QED
    BY <1>1, <1>2 DEF EachRoutineInOnePlace

------------------------------------------------------------------------------
\* In every state of every behaviour each actor is where its variables say, and
\* each routine in one kind of place, at one actor at most.
THEOREM Places == Spec => []Inv
  <1>1. Init => Inv
    BY InitIInv DEF IInv
  <1>2. QED
    BY <1>1, InvStep, PTL DEF Spec

\* The variables always have their types: no counter leaves the range of its
\* word, no local queue exceeds its capacity, there are never more robbers than
\* workers, and a worker that takes from a queue always finds a routine.
THEOREM TypeCorrect == Spec => []TypeOK
  <1>1. Inv => TypeOK
    BY DEF Inv
  <1>2. QED
    BY <1>1, Places, PTL

\* Each routine that was submitted, and has neither returned nor been discarded,
\* is in one place, for any number of workers and clients that move it.
THEOREM EachRoutineIsInOnePlace == Spec => []EachRoutineInOnePlace
  BY OnePlace, Places, PTL

------------------------------------------------------------------------------
\* What the counter of queued routines is compared with, and how a step changes
\* it.
SameCounts ==
    /\ Uncounted' = Uncounted /\ Queued' = Queued /\ Unsubtracted' = Unsubtracted
    /\ discarded' = discarded /\ routines_in_queue_' = routines_in_queue_
Pushes ==
    /\ \E a \in Actors \ Uncounted : Uncounted' = Uncounted \cup {a}
    /\ \E r \in Routines \ Queued : Queued' = Queued \cup {r}
    /\ Unsubtracted' = Unsubtracted
    /\ discarded' = discarded /\ routines_in_queue_' = routines_in_queue_
Adds ==
    /\ \E a \in Uncounted : Uncounted' = Uncounted \ {a}
    /\ Queued' = Queued /\ Unsubtracted' = Unsubtracted /\ discarded' = discarded
    /\ routines_in_queue_' = (routines_in_queue_ + 1) % Word
TakesOne ==
    /\ \E w \in Workers \ Unsubtracted : Unsubtracted' = Unsubtracted \cup {w}
    /\ \E r \in Queued : Queued' = Queued \ {r}
    /\ Uncounted' = Uncounted
    /\ discarded' = discarded /\ routines_in_queue_' = routines_in_queue_
Subtracts ==
    /\ \E w \in Unsubtracted : Unsubtracted' = Unsubtracted \ {w}
    /\ Uncounted' = Uncounted /\ Queued' = Queued /\ discarded' = discarded
    /\ routines_in_queue_' = (routines_in_queue_ + Word - 1) % Word
Discards ==
    /\ \E left \in SUBSET Queued : /\ Queued' = Queued \ left
                                   /\ discarded' = discarded \cup left
                                   /\ discarded \cap left = {}
    /\ Uncounted' = Uncounted /\ Unsubtracted' = Unsubtracted
    /\ routines_in_queue_' = routines_in_queue_
Stops ==
    /\ Uncounted' = Uncounted /\ Queued' = Queued /\ Unsubtracted' = Unsubtracted
    /\ discarded' = discarded
    /\ routines_in_queue_' = (routines_in_queue_ + kStopTokens) % Word

\* A step of one actor puts only that actor into one of the sets, or out of it.
LEMMA OneActor ==
    ASSUME NEW a \in Actors,
           \A b \in Actors \ {a} : pc'[b] = pc[b] /\ todo'[b] = todo[b],
           \A w \in Workers \ {a} : routine'[w] = routine[w]
    PROVE  /\ Uncounted' = IF pc'[a] = "count" \/ (pc'[a] \in Loading /\ todo'[a] # << >>)
                           THEN Uncounted \cup {a} ELSE Uncounted \ {a}
           /\ a \in Uncounted <=> pc[a] = "count" \/ (pc[a] \in Loading /\ todo[a] # << >>)
           /\ a \in Workers =>
                 /\ Unsubtracted' =
                       IF routine'[a] # Null /\ todo'[a] = << >>
                              /\ pc'[a] \in Loading \cup {"taken"}
                       THEN Unsubtracted \cup {a} ELSE Unsubtracted \ {a}
                 /\ a \in Unsubtracted <=> /\ routine[a] # Null /\ todo[a] = << >>
                                           /\ pc[a] \in Loading \cup {"taken"}
           /\ a \notin Workers => Unsubtracted' = Unsubtracted
  <1>1. \A b \in Actors \ {a} : b \in Uncounted' <=> b \in Uncounted
    BY DEF Uncounted
  <1>2. /\ a \in Uncounted' <=> pc'[a] = "count" \/ (pc'[a] \in Loading /\ todo'[a] # << >>)
        /\ a \in Uncounted <=> pc[a] = "count" \/ (pc[a] \in Loading /\ todo[a] # << >>)
    BY DEF Uncounted, Loading
  <1>3. Uncounted \subseteq Actors /\ Uncounted' \subseteq Actors
    BY DEF Uncounted
  <1>4. \A w \in Workers \ {a} : w \in Unsubtracted' <=> w \in Unsubtracted
    BY Constants DEF Unsubtracted
  <1>5. a \in Workers =>
            /\ a \in Unsubtracted' <=> /\ routine'[a] # Null /\ todo'[a] = << >>
                                       /\ pc'[a] \in Loading \cup {"taken"}
            /\ a \in Unsubtracted <=> /\ routine[a] # Null /\ todo[a] = << >>
                                      /\ pc[a] \in Loading \cup {"taken"}
    BY DEF Unsubtracted, Loading
  <1>6. Unsubtracted \subseteq Workers /\ Unsubtracted' \subseteq Workers
    BY DEF Unsubtracted
  <1>7. QED
    BY <1>1, <1>2, <1>3, <1>4, <1>5, <1>6

\* Actors that stay where they are, are elsewhere before and after the step, or
\* go on pushing.
LEMMA SameActors ==
    ASSUME \A b \in Actors :
              \/ /\ pc'[b] = pc[b] /\ todo'[b] = todo[b]
                 /\ b \in Workers => routine'[b] = routine[b]
              \/ /\ pc[b] \notin Loading \cup {"count", "taken"}
                 /\ pc'[b] \notin Loading \cup {"count", "taken"}
              \/ /\ b \in Workers /\ routine'[b] = routine[b] /\ todo'[b] = todo[b]
                 /\ pc[b] \in Loading /\ pc'[b] \in Loading \cup {AfterMove(b)}
    PROVE  Uncounted' = Uncounted /\ Unsubtracted' = Unsubtracted
  <1>1. \A b \in Actors : b \in Uncounted' <=> b \in Uncounted
    BY DEF Uncounted, Loading, AfterMove
  <1>2. Uncounted \subseteq Actors /\ Uncounted' \subseteq Actors
    BY DEF Uncounted
  <1>3. \A w \in Workers : w \in Unsubtracted' <=> w \in Unsubtracted
    BY Constants DEF Unsubtracted, Loading, AfterMove
  <1>4. Unsubtracted \subseteq Workers /\ Unsubtracted' \subseteq Workers
    BY DEF Unsubtracted
  <1>5. QED
    BY <1>1, <1>2, <1>3, <1>4

\* The queues hold what they held.
LEMMA QueuedSame ==
    ASSUME UNCHANGED <<queues, transit>> PROVE Queued' = Queued /\ Waiting' = Waiting
  BY DEF queues, transit, Queued, Waiting

\* Every step has one of these effects.
LEMMA CountEffects ==
    ASSUME Inv, Next, WithWaitIdle
    PROVE  IF \E c \in Clients : StopAdd(c) THEN Stops
           ELSE SameCounts \/ Pushes \/ Adds \/ TakesOne \/ Subtracts \/ Discards
  <1>b. /\ pc \in [Actors -> Labels] /\ todo \in [Actors -> Seq(Calls)]
        /\ routine \in [Workers -> Routines \cup {Null}]
        /\ \A w \in Workers : w \in Actors /\ w \notin Clients
        /\ \A c \in Clients : c \in Actors /\ c \notin Workers
    BY Constants DEF Inv, TypeOK
  <1>t. TypeOK'
    BY TypeStep
  <1>1. ASSUME NEW a \in Actors, ExecuteAdd(a) PROVE SameCounts
    <2>1. UNCHANGED <<queues, transit, discarded, routines_in_queue_>>
      BY <1>1 DEF ExecuteAdd, counters, history, taking
    <2>2. \A b \in Actors :
              \/ /\ pc'[b] = pc[b] /\ todo'[b] = todo[b]
                 /\ b \in Workers => routine'[b] = routine[b]
              \/ /\ pc[b] \notin Loading \cup {"count", "taken"}
                 /\ pc'[b] \notin Loading \cup {"count", "taken"}
      BY <1>1, <1>b DEF ExecuteAdd, Goto, Caller, Loading, taking
    <2>3. QED
      BY <2>1, <2>2, SameActors, QueuedSame DEF SameCounts
  <1>2. ASSUME NEW w \in Workers, Exit(w) PROVE SameCounts
    <2>1. UNCHANGED <<queues, transit, discarded, routines_in_queue_>>
      BY <1>2 DEF Exit, counters, history, taking
    <2>2. \A b \in Actors :
              \/ /\ pc'[b] = pc[b] /\ todo'[b] = todo[b]
                 /\ b \in Workers => routine'[b] = routine[b]
              \/ /\ pc[b] \notin Loading \cup {"count", "taken"}
                 /\ pc'[b] \notin Loading \cup {"count", "taken"}
      BY <1>2, <1>b DEF Exit, Goto, Caller, Loading, taking
    <2>3. QED
      BY <2>1, <2>2, SameActors, QueuedSame DEF SameCounts
  <1>3. ASSUME NEW w \in Workers, ChooseStrategy(w) PROVE SameCounts
    <2>1. UNCHANGED <<queues, transit, discarded, routines_in_queue_>>
      BY <1>3 DEF ChooseStrategy, counters, history, taking
    <2>2. \A b \in Actors :
              \/ /\ pc'[b] = pc[b] /\ todo'[b] = todo[b]
                 /\ b \in Workers => routine'[b] = routine[b]
              \/ /\ pc[b] \notin Loading \cup {"count", "taken"}
                 /\ pc'[b] \notin Loading \cup {"count", "taken"}
      BY <1>3, <1>b DEF ChooseStrategy, Goto, Caller, Loading, taking
    <2>3. QED
      BY <2>1, <2>2, SameActors, QueuedSame DEF SameCounts
  <1>4. ASSUME NEW w \in Workers, TakeFromLIFOSlot(w), lifo_slots_[w] = Null PROVE SameCounts
    <2>1. UNCHANGED <<queues, transit, discarded, routines_in_queue_>>
      BY <1>4 DEF TakeFromLIFOSlot, TakesNothing, Trying, queues, transit, counters, history
    <2>2. \A b \in Actors :
              \/ /\ pc'[b] = pc[b] /\ todo'[b] = todo[b]
                 /\ b \in Workers => routine'[b] = routine[b]
              \/ /\ pc[b] \notin Loading \cup {"count", "taken"}
                 /\ pc'[b] \notin Loading \cup {"count", "taken"}
      BY <1>4, <1>b DEF TakeFromLIFOSlot, TakesNothing, Trying, Goto, Caller, Loading, taking
    <2>3. QED
      BY <2>1, <2>2, SameActors, QueuedSame DEF SameCounts
  <1>5. ASSUME NEW w \in Workers, TakeFromLocalQueue(w), local_queues_[w] = << >> PROVE SameCounts
    <2>1. UNCHANGED <<queues, transit, discarded, routines_in_queue_>>
      BY <1>5 DEF TakeFromLocalQueue, TakesNothing, Trying, queues, transit, counters, history
    <2>2. \A b \in Actors :
              \/ /\ pc'[b] = pc[b] /\ todo'[b] = todo[b]
                 /\ b \in Workers => routine'[b] = routine[b]
              \/ /\ pc[b] \notin Loading \cup {"count", "taken"}
                 /\ pc'[b] \notin Loading \cup {"count", "taken"}
      BY <1>5, <1>b DEF TakeFromLocalQueue, TakesNothing, Trying, Goto, Caller, Loading, taking
    <2>3. QED
      BY <2>1, <2>2, SameActors, QueuedSame DEF SameCounts
  <1>6. ASSUME NEW w \in Workers, TakeFromGlobalQueue(w), global_queue_ = << >> PROVE SameCounts
    <2>1. UNCHANGED <<queues, transit, discarded, routines_in_queue_>>
      BY <1>6 DEF TakeFromGlobalQueue, TakesNothing, Trying, queues, transit, counters, history
    <2>2. \A b \in Actors :
              \/ /\ pc'[b] = pc[b] /\ todo'[b] = todo[b]
                 /\ b \in Workers => routine'[b] = routine[b]
              \/ /\ pc[b] \notin Loading \cup {"count", "taken"}
                 /\ pc'[b] \notin Loading \cup {"count", "taken"}
      BY <1>6, <1>b DEF TakeFromGlobalQueue, TakesNothing, Trying, Goto, Caller, Loading, taking
    <2>3. QED
      BY <2>1, <2>2, SameActors, QueuedSame DEF SameCounts
  <1>7. ASSUME NEW w \in Workers, BecomeRobber(w) PROVE SameCounts
    <2>1. UNCHANGED <<queues, transit, discarded, routines_in_queue_>>
      BY <1>7 DEF BecomeRobber, TakesNothing, Trying, queues, transit, counters, history, taking
    <2>2. \A b \in Actors :
              \/ /\ pc'[b] = pc[b] /\ todo'[b] = todo[b]
                 /\ b \in Workers => routine'[b] = routine[b]
              \/ /\ pc[b] \notin Loading \cup {"count", "taken"}
                 /\ pc'[b] \notin Loading \cup {"count", "taken"}
      BY <1>7, <1>b DEF BecomeRobber, TakesNothing, Trying, Goto, Caller, Loading, taking
    <2>3. QED
      BY <2>1, <2>2, SameActors, QueuedSame DEF SameCounts
  <1>8. ASSUME NEW w \in Workers, Rob(w), TakesNothing(w) PROVE SameCounts
    <2>1. UNCHANGED <<queues, transit, discarded, routines_in_queue_>>
      BY <1>8 DEF Rob, TakesNothing, queues, transit, counters, history
    <2>2. \A b \in Actors :
              \/ /\ pc'[b] = pc[b] /\ todo'[b] = todo[b]
                 /\ b \in Workers => routine'[b] = routine[b]
              \/ /\ pc[b] \notin Loading \cup {"count", "taken"}
                 /\ pc'[b] \notin Loading \cup {"count", "taken"}
      BY <1>8, <1>b DEF Rob, TakesNothing, Goto, Caller, Loading, taking
    <2>3. QED
      BY <2>1, <2>2, SameActors, QueuedSame DEF SameCounts
  <1>9. ASSUME NEW w \in Workers, Return(w) PROVE SameCounts
    <2>1. UNCHANGED <<queues, transit, discarded, routines_in_queue_>>
      BY <1>9 DEF Return, counters, history, taking
    <2>2. \A b \in Actors :
              \/ /\ pc'[b] = pc[b] /\ todo'[b] = todo[b]
                 /\ b \in Workers => routine'[b] = routine[b]
              \/ /\ pc[b] \notin Loading \cup {"count", "taken"}
                 /\ pc'[b] \notin Loading \cup {"count", "taken"}
      BY <1>9, <1>b DEF Return, Goto, Caller, Loading, taking
    <2>3. QED
      BY <2>1, <2>2, SameActors, QueuedSame DEF SameCounts
  <1>10. ASSUME NEW w \in Workers, Done(w) PROVE SameCounts
    <2>1. UNCHANGED <<queues, transit, discarded, routines_in_queue_>>
      BY <1>10 DEF Done, counters, history, taking
    <2>2. \A b \in Actors :
              \/ /\ pc'[b] = pc[b] /\ todo'[b] = todo[b]
                 /\ b \in Workers => routine'[b] = routine[b]
              \/ /\ pc[b] \notin Loading \cup {"count", "taken"}
                 /\ pc'[b] \notin Loading \cup {"count", "taken"}
      BY <1>10, <1>b DEF Done, Goto, Caller, Loading, taking
    <2>3. QED
      BY <2>1, <2>2, SameActors, QueuedSame DEF SameCounts
  <1>11. ASSUME NEW w \in Workers, NotifyIdle(w, "notifyIdle", "loop") PROVE SameCounts
    <2>1. UNCHANGED <<queues, transit, discarded, routines_in_queue_>>
      BY <1>11 DEF NotifyIdle, counters, history, taking
    <2>2. \A b \in Actors :
              \/ /\ pc'[b] = pc[b] /\ todo'[b] = todo[b]
                 /\ b \in Workers => routine'[b] = routine[b]
              \/ /\ pc[b] \notin Loading \cup {"count", "taken"}
                 /\ pc'[b] \notin Loading \cup {"count", "taken"}
      BY <1>11, <1>b DEF NotifyIdle, Goto, Caller, Loading, taking
    <2>3. QED
      BY <2>1, <2>2, SameActors, QueuedSame DEF SameCounts
  <1>12. ASSUME NEW w \in Workers, Wait(w) PROVE SameCounts
    <2>1. UNCHANGED <<queues, transit, discarded, routines_in_queue_>>
      BY <1>12 DEF Wait, counters, history, taking
    <2>2. \A b \in Actors :
              \/ /\ pc'[b] = pc[b] /\ todo'[b] = todo[b]
                 /\ b \in Workers => routine'[b] = routine[b]
              \/ /\ pc[b] \notin Loading \cup {"count", "taken"}
                 /\ pc'[b] \notin Loading \cup {"count", "taken"}
      BY <1>12, <1>b DEF Wait, Goto, Caller, Loading, taking
    <2>3. QED
      BY <2>1, <2>2, SameActors, QueuedSame DEF SameCounts
  <1>13. ASSUME NEW c \in Clients, WaitIdle(c) PROVE SameCounts
    <2>1. UNCHANGED <<queues, transit, discarded, routines_in_queue_>>
      BY <1>13 DEF WaitIdle, counters, history, taking
    <2>2. \A b \in Actors :
              \/ /\ pc'[b] = pc[b] /\ todo'[b] = todo[b]
                 /\ b \in Workers => routine'[b] = routine[b]
              \/ /\ pc[b] \notin Loading \cup {"count", "taken"}
                 /\ pc'[b] \notin Loading \cup {"count", "taken"}
      BY <1>13, <1>b DEF WaitIdle, Goto, Caller, Loading, taking
    <2>3. QED
      BY <2>1, <2>2, SameActors, QueuedSame DEF SameCounts
  <1>14. ASSUME NEW c \in Clients, IdleLoad(c) PROVE SameCounts
    <2>1. UNCHANGED <<queues, transit, discarded, routines_in_queue_>>
      BY <1>14 DEF IdleLoad, counters, history, taking
    <2>2. \A b \in Actors :
              \/ /\ pc'[b] = pc[b] /\ todo'[b] = todo[b]
                 /\ b \in Workers => routine'[b] = routine[b]
              \/ /\ pc[b] \notin Loading \cup {"count", "taken"}
                 /\ pc'[b] \notin Loading \cup {"count", "taken"}
      BY <1>14, <1>b DEF IdleLoad, Goto, Caller, Loading, taking
    <2>3. QED
      BY <2>1, <2>2, SameActors, QueuedSame DEF SameCounts
  <1>15. ASSUME NEW c \in Clients, IdleCheck(c) PROVE SameCounts
    <2>1. UNCHANGED <<queues, transit, discarded, routines_in_queue_>>
      BY <1>15 DEF IdleCheck, counters, history, taking
    <2>2. \A b \in Actors :
              \/ /\ pc'[b] = pc[b] /\ todo'[b] = todo[b]
                 /\ b \in Workers => routine'[b] = routine[b]
              \/ /\ pc[b] \notin Loading \cup {"count", "taken"}
                 /\ pc'[b] \notin Loading \cup {"count", "taken"}
      BY <1>15, <1>b DEF IdleCheck, Goto, Caller, Loading, taking
    <2>3. QED
      BY <2>1, <2>2, SameActors, QueuedSame DEF SameCounts
  <1>16. ASSUME NEW c \in Clients, StopNotify(c) PROVE SameCounts
    <2>1. UNCHANGED <<queues, transit, discarded, routines_in_queue_>>
      BY <1>16 DEF StopNotify, Asleep, counters, history, taking
    <2>2. \A b \in Actors :
              \/ /\ pc'[b] = pc[b] /\ todo'[b] = todo[b]
                 /\ b \in Workers => routine'[b] = routine[b]
              \/ /\ pc[b] \notin Loading \cup {"count", "taken"}
                 /\ pc'[b] \notin Loading \cup {"count", "taken"}
      BY <1>16, <1>b DEF StopNotify, Asleep, Goto, Caller, Loading, taking
    <2>3. QED
      BY <2>1, <2>2, SameActors, QueuedSame DEF SameCounts
  <1>17. ASSUME NEW c \in Clients, Close(c) PROVE SameCounts
    <2>1. UNCHANGED <<queues, transit, discarded, routines_in_queue_>>
      BY <1>17 DEF Close, counters, history, taking
    <2>2. \A b \in Actors :
              \/ /\ pc'[b] = pc[b] /\ todo'[b] = todo[b]
                 /\ b \in Workers => routine'[b] = routine[b]
              \/ /\ pc[b] \notin Loading \cup {"count", "taken"}
                 /\ pc'[b] \notin Loading \cup {"count", "taken"}
      BY <1>17, <1>b DEF Close, Goto, Caller, Loading, taking
    <2>3. QED
      BY <2>1, <2>2, SameActors, QueuedSame DEF SameCounts
  <1>18. ASSUME NEW c \in Clients, Join(c) PROVE SameCounts
    <2>1. UNCHANGED <<queues, transit, discarded, routines_in_queue_>>
      BY <1>18 DEF Join, counters, history, taking
    <2>2. \A b \in Actors :
              \/ /\ pc'[b] = pc[b] /\ todo'[b] = todo[b]
                 /\ b \in Workers => routine'[b] = routine[b]
              \/ /\ pc[b] \notin Loading \cup {"count", "taken"}
                 /\ pc'[b] \notin Loading \cup {"count", "taken"}
      BY <1>18, <1>b DEF Join, Goto, Caller, Loading, taking
    <2>3. QED
      BY <2>1, <2>2, SameActors, QueuedSame DEF SameCounts
  <1>19. ASSUME NEW c \in Clients, NotifyIdle(c, "allDone", "idle") PROVE SameCounts
    <2>1. UNCHANGED <<queues, transit, discarded, routines_in_queue_>>
      BY <1>19 DEF NotifyIdle, counters, history, taking
    <2>2. \A b \in Actors :
              \/ /\ pc'[b] = pc[b] /\ todo'[b] = todo[b]
                 /\ b \in Workers => routine'[b] = routine[b]
              \/ /\ pc[b] \notin Loading \cup {"count", "taken"}
                 /\ pc'[b] \notin Loading \cup {"count", "taken"}
      BY <1>19, <1>b DEF NotifyIdle, Goto, Caller, Loading, taking
    <2>3. QED
      BY <2>1, <2>2, SameActors, QueuedSame DEF SameCounts
  <1>20. ASSUME NEW a \in Actors, NotifyOne(a) PROVE SameCounts
    <2>1. UNCHANGED <<queues, transit, discarded, routines_in_queue_>>
      BY <1>20 DEF NotifyOne, Asleep, counters, history, taking
    <2>2. \A b \in Actors :
              \/ /\ pc'[b] = pc[b] /\ todo'[b] = todo[b]
                 /\ b \in Workers => routine'[b] = routine[b]
              \/ /\ pc[b] \notin Loading \cup {"count", "taken"}
                 /\ pc'[b] \notin Loading \cup {"count", "taken"}
      BY <1>20, <1>b DEF NotifyOne, Asleep, Goto, Caller, Loading, taking
    <2>3. QED
      BY <2>1, <2>2, SameActors, QueuedSame DEF SameCounts
  <1>21. ASSUME NEW w \in Workers, Move(w) PROVE SameCounts
    <2>1. /\ UNCHANGED <<routine, todo, discarded, routines_in_queue_>>
          /\ pc[w] \in Loading /\ pc'[w] \in Loading \cup {AfterMove(w)}
          /\ \A b \in Actors \ {w} : pc'[b] = pc[b]
      BY <1>21, <1>b DEF Move, Goto, Loading, counters, history, taking
    <2>2. PICK r : r = Head(moving[w])
      OBVIOUS
    <2>3. Moves(r, "moving", w, "local", w)
      BY <1>21, <1>t, <2>2, MovePlaces
    <2>4. "moving" \in Kinds \cap QueueKinds /\ "local" \in Kinds \cap QueueKinds
          /\ w \in Actors \cup {Null}
      BY <1>b DEF Kinds, QueueKinds
    <2>5. r \in Queued /\ Queued' = Queued \cup {r}
      BY <1>t, <2>3, <2>4, MoveFacts DEF Inv
    <2>6. Uncounted' = Uncounted /\ Unsubtracted' = Unsubtracted
      BY <2>1, SameActors
    <2>7. QED
      BY <2>1, <2>5, <2>6 DEF SameCounts
  <1>22. ASSUME NEW w \in Workers, MoveFails(w) \/ GrabHalf(w) \/ Spill(w) PROVE SameCounts
    <2>1. /\ UNCHANGED <<routine, todo, discarded, routines_in_queue_>>
          /\ pc[w] \in Loading /\ pc'[w] \in Loading \cup {AfterMove(w)}
          /\ \A b \in Actors \ {w} : pc'[b] = pc[b]
      BY <1>22, <1>b DEF MoveFails, GrabHalf, Spill, Goto, Loading, counters, history, taking
    <2>2. Queued' = Queued
      <3>1. CASE MoveFails(w)
        BY <3>1, QueuedSame DEF MoveFails
      <3>2. QED
        BY <1>22, <1>t, <3>1, GrabHalfPlaces, SpillPlaces
    <2>3. Uncounted' = Uncounted /\ Unsubtracted' = Unsubtracted
      BY <2>1, SameActors
    <2>4. QED
      BY <2>1, <2>2, <2>3 DEF SameCounts
  <1>23. ASSUME NEW a \in Actors, PushGlobal(a) PROVE Pushes
    <2>1. /\ UNCHANGED <<routine, todo, discarded, routines_in_queue_>>
          /\ pc[a] = "execute" /\ pc'[a] = "count"
          /\ \A b \in Actors \ {a} : pc'[b] = pc[b]
      BY <1>23, <1>b DEF PushGlobal, Goto, counters, history, taking
    <2>2. PICK r : r = Call(a).routine
      OBVIOUS
    <2>3. Moves(r, "execute", a, "global", Null)
      BY <1>23, <1>t, <2>2, PushGlobalPlaces
    <2>4. "execute" \in Kinds \ QueueKinds /\ "global" \in Kinds \cap QueueKinds
      BY DEF Kinds, QueueKinds
    <2>5. r \in Routines /\ r \notin Queued /\ Queued' = Queued \cup {r}
      BY <1>t, <2>3, <2>4, MoveFacts DEF Inv, Moves
    <2>6. /\ a \notin Uncounted /\ Uncounted' = Uncounted \cup {a}
          /\ Unsubtracted' = Unsubtracted
      <3>1. a \notin Uncounted /\ Uncounted' = Uncounted \cup {a}
        BY <2>1, OneActor DEF Loading
      <3>2. CASE a \in Workers
        <4>1. Unsubtracted' = Unsubtracted \ {a} /\ a \notin Unsubtracted
          BY <2>1, <3>2, OneActor DEF Loading
        <4>2. QED
          BY <3>1, <4>1
      <3>3. CASE a \notin Workers
        BY <2>1, <3>1, <3>3, OneActor
      <3>4. QED
        BY <3>2, <3>3
    <2>7. QED
      BY <2>1, <2>5, <2>6 DEF Pushes
  <1>24. ASSUME NEW w \in Workers, PushLocal(w) \/ PushLIFO(w) PROVE Pushes
    <2>1. /\ UNCHANGED <<routine, todo, discarded, routines_in_queue_>>
          /\ pc[w] = "execute" /\ pc'[w] \in {"move", "count"}
          /\ \A b \in Actors \ {w} : pc'[b] = pc[b]
      BY <1>24, <1>b DEF PushLocal, PushLIFO, Goto, counters, history, taking
    <2>2. PICK r : r = Call(w).routine
      OBVIOUS
    <2>3. r \in Routines /\ r \notin Queued /\ Queued' = Queued \cup {r}
      <3>1. CASE PushLocal(w)
        <4>1. Moves(r, "execute", w, "moving", w)
          BY <1>t, <2>2, <3>1, PushLocalPlaces
        <4>2. /\ "execute" \in Kinds \ QueueKinds /\ "moving" \in Kinds \cap QueueKinds
              /\ w \in Actors \cup {Null}
          BY <1>b DEF Kinds, QueueKinds
        <4>3. QED
          BY <1>t, <4>1, <4>2, MoveFacts DEF Inv, Moves
      <3>2. CASE PushLIFO(w)
        BY <1>t, <2>2, <3>2, PushLIFOPlaces
      <3>3. QED
        BY <1>24, <3>1, <3>2
    <2>4. todo[w] # << >>
      BY <1>b, <2>1 DEF Inv, CallInv, Next_
    <2>5. w \notin Uncounted /\ Uncounted' = Uncounted \cup {w}
      BY <1>b, <2>1, <2>4, OneActor DEF Loading
    <2>6. Unsubtracted' = Unsubtracted \ {w} /\ w \notin Unsubtracted
      BY <1>b, <2>1, <2>4, OneActor DEF Loading
    <2>7. Unsubtracted' = Unsubtracted
      BY <2>6
    <2>8. QED
      BY <1>b, <2>1, <2>3, <2>5, <2>7 DEF Pushes
  <1>25. ASSUME NEW a \in Actors, Count(a) PROVE Adds
    <2>1. /\ UNCHANGED <<queues, transit, routine, discarded>>
          /\ routines_in_queue_' = (routines_in_queue_ + 1) % Word
          /\ pc[a] = "count" /\ pc'[a] \in {"notify", "run", "idle"}
          /\ \A b \in Actors \ {a} : pc'[b] = pc[b] /\ todo'[b] = todo[b]
      BY <1>25, <1>b DEF Count, Goto, Caller, history, taking
    <2>2. a \in Uncounted /\ Uncounted' = Uncounted \ {a}
      BY <2>1, OneActor DEF Loading
    <2>3. Unsubtracted' = Unsubtracted
      <3>1. CASE a \in Workers
        <4>1. todo[a] # << >>
          BY <2>1 DEF Inv, CallInv, Next_
        <4>2. Unsubtracted' = Unsubtracted \ {a} /\ a \notin Unsubtracted
          BY <2>1, <3>1, <4>1, OneActor DEF Loading
        <4>3. QED
          BY <4>2
      <3>2. CASE a \notin Workers
        BY <2>1, <3>2, OneActor
      <3>3. QED
        BY <3>1, <3>2
    <2>4. QED
      BY <2>1, <2>2, <2>3, QueuedSame DEF Adds
  <1>26. ASSUME NEW w \in Workers,
                \/ TakeFromLIFOSlot(w) /\ lifo_slots_[w] # Null
                \/ TakeFromLocalQueue(w) /\ local_queues_[w] # << >>
                \/ TakeFromGlobalQueue(w) /\ global_queue_ # << >>
                \/ Rob(w) /\ ~TakesNothing(w)
         PROVE  TakesOne
    <2>1. /\ UNCHANGED <<todo, discarded, routines_in_queue_>>
          /\ pc[w] \in {"take", "rob"} /\ pc'[w] \in {"taken", "move"}
          /\ \A b \in Actors \ {w} : pc'[b] = pc[b]
          /\ \A v \in Workers \ {w} : routine'[v] = routine[v]
      BY <1>26, <1>b DEF TakeFromLIFOSlot, TakeFromLocalQueue, TakeFromGlobalQueue, Rob, Trying,
         Takes, TakesNothing, counters, history
    <2>2. routine'[w] \in Queued /\ Queued' = Queued \ {routine'[w]}
      BY <1>26, <1>t, TakeFromLIFOSlotPlaces, TakeFromLocalQueuePlaces,
         TakeFromGlobalQueuePlaces, RobPlaces
    <2>3. todo[w] = << >> /\ routine[w] = Null
      BY <2>1 DEF Inv, WorkerInv, Running, Loading
    <2>4. routine'[w] # Null
      BY <2>2, WaitingRoutines, PoolAssumption DEF Inv
    <2>5. w \notin Uncounted /\ Uncounted' = Uncounted \ {w}
      BY <1>b, <2>1, <2>3, OneActor DEF Loading
    <2>6. w \notin Unsubtracted /\ Unsubtracted' = Unsubtracted \cup {w}
      BY <1>b, <2>1, <2>3, <2>4, OneActor DEF Loading
    <2>7. QED
      BY <2>1, <2>2, <2>5, <2>6 DEF TakesOne
  <1>27. ASSUME NEW w \in Workers, CountTaken(w) PROVE Subtracts
    <2>1. /\ UNCHANGED <<queues, transit, routine, discarded>>
          /\ routines_in_queue_' = (routines_in_queue_ + Word - 1) % Word
          /\ pc[w] = "taken" /\ pc'[w] = "run"
          /\ \A b \in Actors \ {w} : pc'[b] = pc[b] /\ todo'[b] = todo[b]
      BY <1>27, <1>b DEF CountTaken, Goto, history, taking
    <2>2. todo[w] = << >> /\ routine[w] # Null
      BY <2>1 DEF Inv, WorkerInv, Running, Loading
    <2>3. w \notin Uncounted /\ Uncounted' = Uncounted \ {w}
      BY <1>b, <2>1, OneActor DEF Loading
    <2>4. w \in Unsubtracted /\ Unsubtracted' = Unsubtracted \ {w}
      BY <1>b, <2>1, <2>2, OneActor DEF Loading
    <2>5. QED
      BY <2>1, <2>3, <2>4, QueuedSame DEF Subtracts
  <1>28. ASSUME NEW c \in Clients, StopAdd(c) PROVE Stops
    <2>1. /\ UNCHANGED <<queues, transit, discarded>>
          /\ routines_in_queue_' = (routines_in_queue_ + kStopTokens) % Word
      BY <1>28 DEF StopAdd, history
    <2>2. \A b \in Actors :
              \/ /\ pc'[b] = pc[b] /\ todo'[b] = todo[b]
                 /\ b \in Workers => routine'[b] = routine[b]
              \/ /\ pc[b] \notin Loading \cup {"count", "taken"}
                 /\ pc'[b] \notin Loading \cup {"count", "taken"}
      BY <1>28, <1>b DEF StopAdd, Goto, Loading, taking
    <2>3. QED
      BY <2>1, <2>2, SameActors, QueuedSame DEF Stops
  <1>29. ASSUME NEW c \in Clients, Destroy(c) PROVE Discards
    <2>1. /\ UNCHANGED <<routine, routines_in_queue_, pc>>
          /\ discarded' = discarded \cup Waiting /\ pc[c] = "idle"
          /\ \A b \in Actors \ {c} : todo'[b] = todo[b]
      BY <1>29, <1>b DEF Destroy, counters, taking
    <2>2. \A b \in Actors :
              \/ /\ pc'[b] = pc[b] /\ todo'[b] = todo[b]
                 /\ b \in Workers => routine'[b] = routine[b]
              \/ /\ pc[b] \notin Loading \cup {"count", "taken"}
                 /\ pc'[b] \notin Loading \cup {"count", "taken"}
      BY <2>1 DEF Loading
    <2>3. QED
      BY <1>29, <1>t, <2>1, <2>2, SameActors, DestroyPlaces DEF Discards
  <1>30. QED
    BY <1>1, <1>2, <1>3, <1>4, <1>5, <1>6, <1>7, <1>8, <1>9, <1>10, <1>11, <1>12, <1>13, <1>14,
       <1>15, <1>16, <1>17, <1>18, <1>19, <1>20, <1>21, <1>22, <1>23, <1>24, <1>25, <1>26, <1>27,
       <1>28, <1>29, <1>b
       DEF Next, WorkerStep, ClientStep, Execute, PlainExecute, PlainPushed, PlainRun, PlainReturn,
           PlainSpin, PlainStop, PlainJoin

\* Both sides of the equality change alike.
LEMMA Balance ==
    ASSUME NEW q \in 0..(Word - 1), NEW q2 \in 0..(Word - 1), NEW d \in Int,
           Congruent(q2, q + d),
           NEW l \in Int, NEW l2 \in Int, NEW r \in Int, NEW r2 \in Int,
           Congruent(q + l, r), d + l2 - l = r2 - r
    PROVE  Congruent(q2 + l2, r2)
  <1>1. q \in Int /\ q2 \in Int /\ q + d \in Int /\ q + l \in Int /\ d + l2 - l \in Int
    BY Constants
  <1>2. Congruent(q2 + l2, (q + d) + l2)
    BY <1>1, Congruences
  <1>3. Congruent((q + l) + (d + l2 - l), r + (d + l2 - l))
    <2>1. \A a, b, n \in Int : Congruent(a, b) => Congruent(a + n, b + n)
      BY Congruences
    <2>2. QED
      BY <1>1, <2>1, Zenon
  <1>4. (q + l) + (d + l2 - l) = (q + d) + l2 /\ r + (d + l2 - l) = r2
    BY <1>1
  <1>5. q2 + l2 \in Int /\ (q + d) + l2 \in Int
    BY <1>1
  <1>6. Congruent((q + d) + l2, r2)
    BY <1>3, <1>4
  <1>7. QED
    BY <1>2, <1>5, <1>6, Congruences

\* The sizes of the sets.
LEMMA Sizes ==
    ASSUME TypeOK
    PROVE  /\ IsFiniteSet(Uncounted) /\ Cardinality(Uncounted) \in Nat
           /\ IsFiniteSet(Queued) /\ Cardinality(Queued) \in Nat
           /\ IsFiniteSet(Unsubtracted) /\ Cardinality(Unsubtracted) \in Nat
           /\ IsFiniteSet(discarded) /\ Cardinality(discarded) \in Nat
           /\ IsFiniteSet(DoneWorkers) /\ Cardinality(DoneWorkers) \in Nat
           /\ IsFiniteSet(submitted \ finished) /\ Cardinality(submitted \ finished) \in Nat
  <1>1. /\ Uncounted \subseteq Actors /\ Queued \subseteq Routines
        /\ Unsubtracted \subseteq Workers /\ discarded \subseteq Routines
        /\ DoneWorkers \subseteq Workers /\ submitted \ finished \subseteq Routines
    BY WaitingRoutines DEF Uncounted, Unsubtracted, DoneWorkers, TypeOK
  <1>2. IsFiniteSet(Actors) /\ IsFiniteSet(Workers) /\ IsFiniteSet(Routines)
    BY Constants
  <1>3. /\ IsFiniteSet(Uncounted) /\ IsFiniteSet(Queued) /\ IsFiniteSet(Unsubtracted)
        /\ IsFiniteSet(discarded) /\ IsFiniteSet(DoneWorkers)
        /\ IsFiniteSet(submitted \ finished)
    BY <1>1, <1>2, FS_Subset
  <1>4. QED
    BY <1>3, FS_CardinalityType

\* Tokens are added once.
LEMMA TokensStep ==
    ASSUME Inv, Next, WithWaitIdle
    PROVE  IF \E c \in Clients : StopAdd(c)
           THEN Tokens = 0 /\ Tokens' = kStopTokens ELSE Tokens' = Tokens
  <1>1. CASE \E c \in Clients : StopAdd(c)
    <2>1. PICK c \in Clients : StopAdd(c)
      BY <1>1
    <2>2. ~Stopped
      <3>1. /\ todo[c] # << >> /\ Head(todo[c]).op = "Stop" /\ pc[c] = "idle"
            /\ todo[c] \in Seq(Calls)
        BY <2>1, Constants DEF StopAdd, Next_, Call, Goto, Inv, TypeOK
      <3>2. 1 \in DOMAIN todo[c] /\ todo[c][1].op = "Stop"
        BY <3>1, LenProperties, EmptySeq
      <3>3. QED
        BY <3>1, <3>2 DEF Inv, ScriptInv
    <2>3. Stopped'
      BY <2>1, Constants DEF StopAdd, Goto, Stopped, Inv, TypeOK
    <2>4. QED
      BY <1>1, <2>2, <2>3 DEF Tokens
  <1>2. CASE ~\E c \in Clients : StopAdd(c)
    <2>1. Stopped' <=> Stopped
      BY <1>2, StoppedStep DEF PlainStop
    <2>2. QED
      BY <1>2, <2>1 DEF Tokens
  <1>3. QED
    BY <1>1, <1>2

LEMMA QueueCountStep ==
    ASSUME Inv, Next, QueueCountInv PROVE QueueCountInv'
  <1> SUFFICES ASSUME WithWaitIdle'
               PROVE  Congruent(routines_in_queue_' + Cardinality(Uncounted'),
                                Cardinality(Queued') + Cardinality(Unsubtracted')
                                + Cardinality(discarded') + Tokens')
    BY DEF QueueCountInv
  <1>1. WithWaitIdle
    BY DEF Next, WithWaitIdle
  <1>2. PICK q, q2, l, l2, a, a2, b, b2, c, c2, t, t2 :
            /\ q = routines_in_queue_ /\ q2 = routines_in_queue_'
            /\ l = Cardinality(Uncounted) /\ l2 = Cardinality(Uncounted')
            /\ a = Cardinality(Queued) /\ a2 = Cardinality(Queued')
            /\ b = Cardinality(Unsubtracted) /\ b2 = Cardinality(Unsubtracted')
            /\ c = Cardinality(discarded) /\ c2 = Cardinality(discarded')
            /\ t = Tokens /\ t2 = Tokens'
    OBVIOUS
  <1>3. /\ q \in 0..(Word - 1) /\ l \in Nat /\ a \in Nat /\ b \in Nat /\ c \in Nat /\ t \in Nat
        /\ Congruent(q + l, a + b + c + t)
        /\ IsFiniteSet(Uncounted) /\ IsFiniteSet(Queued) /\ IsFiniteSet(Unsubtracted)
        /\ IsFiniteSet(discarded)
    BY <1>1, <1>2, Sizes, Constants DEF Inv, TypeOK, QueueCountInv, Tokens
  <1>4. q2 \in 0..(Word - 1)
    BY <1>2, TypeStep DEF TypeOK
  \* What each effect does to the numbers.
  <1>5. PICK d \in Int : /\ Congruent(q2, q + d)
                         /\ l2 \in Int /\ a2 + b2 + c2 + t2 \in Int
                         /\ d + l2 - l = (a2 + b2 + c2 + t2) - (a + b + c + t)
    <2>0. q \in Int /\ Congruent(q, q + 0) /\ 1 \in Int /\ -1 \in Int /\ 0 \in Int
          /\ kStopTokens \in Int
      BY <1>3, Congruences, Constants
    <2>1. ASSUME \E e \in Clients : StopAdd(e)
          PROVE  /\ Congruent(q2, q + kStopTokens)
                 /\ l2 = l /\ a2 = a /\ b2 = b /\ c2 = c /\ t2 = t + kStopTokens
      <3>1. t = 0 /\ t2 = kStopTokens /\ Stops
        BY <1>1, <1>2, <2>1, TokensStep, CountEffects
      <3>2. Congruent((q + kStopTokens) % Word, q + kStopTokens)
        BY <1>3, Counting
      <3>3. QED
        BY <1>2, <2>0, <3>1, <3>2 DEF Stops
    <2>2. ASSUME ~\E e \in Clients : StopAdd(e)
          PROVE  /\ t2 = t
                 /\ SameCounts \/ Pushes \/ Adds \/ TakesOne \/ Subtracts \/ Discards
      BY <1>1, <1>2, <2>2, TokensStep, CountEffects
    <2>3. ASSUME SameCounts PROVE q2 = q /\ l2 = l /\ a2 = a /\ b2 = b /\ c2 = c
      BY <1>2, <2>3 DEF SameCounts
    <2>4. ASSUME Pushes PROVE q2 = q /\ l2 = l + 1 /\ a2 = a + 1 /\ b2 = b /\ c2 = c
      BY <1>2, <1>3, <2>4, OneMore DEF Pushes
    <2>5. ASSUME Adds
          PROVE  Congruent(q2, q + 1) /\ l2 = l - 1 /\ a2 = a /\ b2 = b /\ c2 = c
      BY <1>2, <1>3, <2>5, OneLess, Counting DEF Adds
    <2>6. ASSUME TakesOne PROVE q2 = q /\ l2 = l /\ a2 = a - 1 /\ b2 = b + 1 /\ c2 = c
      BY <1>2, <1>3, <2>6, OneLess, OneMore DEF TakesOne
    <2>7. ASSUME Subtracts
          PROVE  Congruent(q2, q - 1) /\ l2 = l /\ a2 = a /\ b2 = b - 1 /\ c2 = c
      BY <1>2, <1>3, <2>7, OneLess, Counting DEF Subtracts
    <2>8. ASSUME Discards
          PROVE  q2 = q /\ l2 = l /\ b2 = b /\ a2 \in Int /\ c2 \in Int /\ a2 + c2 = a + c
      <3>1. PICK left \in SUBSET Queued : /\ Queued' = Queued \ left
                                          /\ discarded' = discarded \cup left
                                          /\ discarded \cap left = {}
        BY <2>8 DEF Discards
      <3>2. /\ IsFiniteSet(left) /\ Cardinality(left) \in Nat
            /\ Queued \cap left = left
        BY <1>3, FS_Subset, FS_CardinalityType
      <3>3. a2 = a - Cardinality(left)
        BY <1>2, <1>3, <3>1, <3>2, FS_Difference
      <3>4. c2 = c + Cardinality(left)
        <4>1. Cardinality(discarded \cup left) = c + Cardinality(left) - Cardinality({})
          BY <1>2, <1>3, <3>1, <3>2, FS_Union
        <4>2. Cardinality({}) = 0
          BY FS_EmptySet
        <4>3. QED
          BY <1>2, <1>3, <3>1, <3>2, <4>1, <4>2
      <3>5. QED
        BY <1>2, <1>3, <2>8, <3>2, <3>3, <3>4 DEF Discards
    <2>9. CASE \E e \in Clients : StopAdd(e)
      BY <1>3, <2>0, <2>1, <2>9
    <2>10. CASE ~\E e \in Clients : StopAdd(e)
      <3>1. t2 = t
        BY <2>2, <2>10
      <3>2. CASE SameCounts \/ Pushes \/ TakesOne \/ Discards
        <4>1. /\ q2 = q /\ l2 \in Int /\ a2 + b2 + c2 + t2 \in Int
              /\ 0 + l2 - l = (a2 + b2 + c2 + t2) - (a + b + c + t)
          BY <1>3, <2>3, <2>4, <2>6, <2>8, <3>1, <3>2
        <4>2. QED
          BY <2>0, <4>1
      <3>3. CASE Adds
        BY <1>3, <2>0, <2>5, <3>1, <3>3
      <3>4. CASE Subtracts
        <4>1. /\ Congruent(q2, q + -1) /\ l2 \in Int /\ a2 + b2 + c2 + t2 \in Int
              /\ -1 + l2 - l = (a2 + b2 + c2 + t2) - (a + b + c + t)
          <5>1. q - 1 = q + -1
            BY <2>0
          <5>2. QED
            BY <1>3, <2>7, <3>1, <3>4, <5>1
        <4>2. QED
          BY <2>0, <4>1
      <3>5. QED
        BY <2>2, <2>10, <3>2, <3>3, <3>4
    <2>11. QED
      BY <2>9, <2>10
  <1>6. PICK r, r2 : r = a + b + c + t /\ r2 = a2 + b2 + c2 + t2
    OBVIOUS
  <1>7. /\ r \in Int /\ r2 \in Int /\ l \in Int
        /\ Congruent(q + l, r) /\ d + l2 - l = r2 - r
    BY <1>3, <1>5, <1>6
  <1>8. Congruent(q2 + l2, r2)
    <2>1. /\ q \in 0..(Word - 1) /\ q2 \in 0..(Word - 1) /\ d \in Int /\ l2 \in Int
          /\ Congruent(q2, q + d) /\ Congruent(q + l, r) /\ d + l2 - l = r2 - r
      BY <1>3, <1>4, <1>5, <1>7
    <2>2. QED
      BY <1>7, <2>1, Balance, ZenonT(60)
  <1>9. QED
    BY <1>2, <1>6, <1>8

LEMMA SomeWorker == \E w \in Workers : TRUE
  <1>1. Workers # {}
    BY Constants, FS_EmptySet
  <1>2. QED
    BY <1>1

\* Only somebody who adds to the counter, and is about to wake a worker, makes
\* it positive while all sleep.
Undisturbed ==
    /\ routines_in_queue_' # 0 => routines_in_queue_ # 0
    /\ \A w \in Workers : pc'[w] = "asleep" => pc[w] = "asleep"
    /\ \A a \in Actors : pc[a] \in {"notify", "stopNotify"} => pc'[a] \in {"notify", "stopNotify"}
LEMMA SleepStep ==
    ASSUME Inv, Next, SleepInv PROVE SleepInv'
  <1> DEFINE Awake == \E w \in Workers : pc'[w] # "asleep"
             Wakes == \E a \in Actors : pc'[a] \in {"notify", "stopNotify"}
  <1>b. /\ pc \in [Actors -> Labels] /\ \E w \in Workers : TRUE
        /\ \A w \in Workers : w \in Actors /\ w \notin Clients
        /\ \A c \in Clients : c \in Actors /\ c \notin Workers
    BY Constants, SomeWorker DEF Inv, TypeOK
  <1>1. ASSUME NEW w \in Workers, ExecuteAdd(w) PROVE Awake
    BY <1>1, <1>b DEF ExecuteAdd, Goto, Caller
  <1>2. ASSUME NEW w \in Workers, PushGlobal(w) PROVE Awake
    BY <1>2, <1>b DEF PushGlobal, Goto, Caller
  <1>3. ASSUME NEW w \in Workers, Count(w) PROVE Awake
    BY <1>3, <1>b DEF Count, Goto, Caller
  <1>4. ASSUME NEW w \in Workers, NotifyOne(w) PROVE Awake
    BY <1>4, <1>b DEF NotifyOne, Goto, Caller, Asleep
  <1>5. ASSUME NEW w \in Workers, PlainExecute(w) PROVE Awake
    BY <1>5, <1>b DEF PlainExecute, Goto, Caller
  <1>6. ASSUME NEW w \in Workers, PlainPushed(w) PROVE Awake
    BY <1>6, <1>b DEF PlainPushed, Goto, Caller
  <1>7. ASSUME NEW w \in Workers, Exit(w) PROVE Awake
    BY <1>7, <1>b DEF Exit, Goto
  <1>8. ASSUME NEW w \in Workers, ChooseStrategy(w) PROVE Awake
    BY <1>8, <1>b DEF ChooseStrategy, Goto
  <1>9. ASSUME NEW w \in Workers, TakeFromLIFOSlot(w) PROVE Awake
    BY <1>9, <1>b DEF TakeFromLIFOSlot, Goto, Trying, Takes, TakesNothing
  <1>10. ASSUME NEW w \in Workers, TakeFromLocalQueue(w) PROVE Awake
    BY <1>10, <1>b DEF TakeFromLocalQueue, Goto, Trying, Takes, TakesNothing
  <1>11. ASSUME NEW w \in Workers, TakeFromGlobalQueue(w) PROVE Awake
    BY <1>11, <1>b DEF TakeFromGlobalQueue, Goto, Trying, Takes, TakesNothing
  <1>12. ASSUME NEW w \in Workers, BecomeRobber(w) PROVE Awake
    BY <1>12, <1>b DEF BecomeRobber, Goto, Trying, Takes, TakesNothing
  <1>13. ASSUME NEW w \in Workers, Rob(w) PROVE Awake
    BY <1>13, <1>b DEF Rob, Goto, Trying, Takes, TakesNothing
  <1>14. ASSUME NEW w \in Workers, CountTaken(w) PROVE Awake
    BY <1>14, <1>b DEF CountTaken, Goto
  <1>15. ASSUME NEW w \in Workers, PushLocal(w) PROVE Awake
    BY <1>15, <1>b DEF PushLocal, Goto
  <1>16. ASSUME NEW w \in Workers, PushLIFO(w) PROVE Awake
    BY <1>16, <1>b DEF PushLIFO, Goto
  <1>17. ASSUME NEW w \in Workers, Move(w) PROVE Awake
    BY <1>17, <1>b DEF Move, Goto, AfterMove
  <1>18. ASSUME NEW w \in Workers, MoveFails(w) PROVE Awake
    BY <1>18, <1>b DEF MoveFails, Goto
  <1>19. ASSUME NEW w \in Workers, GrabHalf(w) PROVE Awake
    BY <1>19, <1>b DEF GrabHalf, Goto
  <1>20. ASSUME NEW w \in Workers, Spill(w) PROVE Awake
    BY <1>20, <1>b DEF Spill, Goto
  <1>21. ASSUME NEW w \in Workers, Return(w) PROVE Awake
    BY <1>21, <1>b DEF Return, Goto
  <1>22. ASSUME NEW w \in Workers, Done(w) PROVE Awake
    BY <1>22, <1>b DEF Done, Goto
  <1>23. ASSUME NEW w \in Workers, NotifyIdle(w, "notifyIdle", "loop") PROVE Awake
    BY <1>23, <1>b DEF NotifyIdle, Goto
  <1>24. ASSUME NEW w \in Workers, Wait(w) PROVE Awake \/ routines_in_queue_' = 0
    BY <1>24, <1>b DEF Wait, Goto, counters
  <1>25. ASSUME NEW w \in Workers, PlainRun(w) PROVE Awake
    BY <1>25, <1>b DEF PlainRun, Goto
  <1>26. ASSUME NEW w \in Workers, PlainReturn(w) PROVE Awake
    BY <1>26, <1>b DEF PlainReturn, Goto
  <1>27. ASSUME NEW w \in Workers, PlainSpin(w) PROVE Awake
    BY <1>27, <1>b DEF PlainSpin, Goto
  <1>28. ASSUME NEW c \in Clients, ExecuteAdd(c) PROVE Undisturbed
    BY <1>28, <1>b DEF ExecuteAdd, Goto, Undisturbed, Caller, counters
  <1>29. ASSUME NEW c \in Clients, PushGlobal(c) PROVE Undisturbed
    BY <1>29, <1>b DEF PushGlobal, Goto, Undisturbed, Caller, counters
  <1>30. ASSUME NEW c \in Clients, PlainExecute(c) PROVE Undisturbed
    BY <1>30, <1>b DEF PlainExecute, Goto, Undisturbed, Caller, counters
  <1>31. ASSUME NEW c \in Clients, PlainPushed(c) PROVE Undisturbed
    BY <1>31, <1>b DEF PlainPushed, Goto, Undisturbed, Caller, counters
  <1>32. ASSUME NEW c \in Clients, Count(c) PROVE Undisturbed \/ Wakes
    BY <1>32, <1>b DEF Count, Goto, Undisturbed, Caller, counters
  <1>33. ASSUME NEW c \in Clients, NotifyOne(c) PROVE Awake
    BY <1>33, <1>b DEF NotifyOne, Goto, Asleep, Caller
  <1>34. ASSUME NEW c \in Clients, WaitIdle(c) PROVE Undisturbed
    BY <1>34, <1>b DEF WaitIdle, Goto, Undisturbed, counters
  <1>35. ASSUME NEW c \in Clients, IdleLoad(c) PROVE Undisturbed
    BY <1>35, <1>b DEF IdleLoad, Goto, Undisturbed, counters
  <1>36. ASSUME NEW c \in Clients, IdleCheck(c) PROVE Undisturbed
    BY <1>36, <1>b DEF IdleCheck, Goto, Undisturbed, counters
  <1>37. ASSUME NEW c \in Clients, Close(c) PROVE Undisturbed
    BY <1>37, <1>b DEF Close, Goto, Undisturbed, counters
  <1>38. ASSUME NEW c \in Clients, Join(c) PROVE Undisturbed
    BY <1>38, <1>b DEF Join, Goto, Undisturbed, counters
  <1>39. ASSUME NEW c \in Clients, PlainStop(c) PROVE Undisturbed
    BY <1>39, <1>b DEF PlainStop, Goto, Undisturbed, counters
  <1>40. ASSUME NEW c \in Clients, PlainJoin(c) PROVE Undisturbed
    BY <1>40, <1>b DEF PlainJoin, Goto, Undisturbed, counters
  <1>41. ASSUME NEW c \in Clients, Destroy(c) PROVE Undisturbed
    BY <1>41, <1>b DEF Destroy, Goto, Undisturbed, counters
  <1>42. ASSUME NEW c \in Clients, StopAdd(c) PROVE Wakes
    BY <1>42, <1>b DEF StopAdd, Goto
  <1>43. ASSUME NEW c \in Clients, StopNotify(c) PROVE Awake
    BY <1>43, <1>b DEF StopNotify, Goto, Asleep
  <1>44. ASSUME NEW c \in Clients, NotifyIdle(c, "allDone", "idle") PROVE Undisturbed
    BY <1>44, <1>b DEF NotifyIdle, Goto, Undisturbed, counters
  <1>45. Undisturbed \/ Awake \/ Wakes \/ routines_in_queue_' = 0
    BY <1>1, <1>2, <1>3, <1>4, <1>5, <1>6, <1>7, <1>8, <1>9, <1>10, <1>11, <1>12, <1>13, <1>14,
       <1>15, <1>16, <1>17, <1>18, <1>19, <1>20, <1>21, <1>22, <1>23, <1>24, <1>25, <1>26,
       <1>27, <1>28, <1>29, <1>30, <1>31, <1>32, <1>33, <1>34, <1>35, <1>36, <1>37, <1>38,
       <1>39, <1>40, <1>41, <1>42, <1>43, <1>44
       DEF Next, WorkerStep, ClientStep, Execute
  <1>46. QED
    BY <1>45 DEF SleepInv, Undisturbed, Asleep

------------------------------------------------------------------------------
\* What the count of the WaitGroup is compared with.
SameGroup ==
    /\ routines_wg_' = routines_wg_
    /\ submitted' \ finished' = submitted \ finished /\ DoneWorkers' = DoneWorkers
Enters ==
    /\ \E r \in Routines \ (submitted \ finished) :
          submitted' \ finished' = (submitted \ finished) \cup {r}
    /\ DoneWorkers' = DoneWorkers
    /\ routines_wg_' = (routines_wg_ + 1) % Word
Returns ==
    /\ \E r \in submitted \ finished : submitted' \ finished' = (submitted \ finished) \ {r}
    /\ \E w \in Workers \ DoneWorkers : DoneWorkers' = DoneWorkers \cup {w}
    /\ routines_wg_' = routines_wg_
Leaves ==
    /\ submitted' \ finished' = submitted \ finished
    /\ \E w \in DoneWorkers : DoneWorkers' = DoneWorkers \ {w}
    /\ routines_wg_' = (routines_wg_ + Word - 1) % Word

LEMMA GroupEffects ==
    ASSUME Inv, Next, WithWaitIdle, ~Stopped'
    PROVE  SameGroup \/ Enters \/ Returns \/ Leaves
  <1>b. /\ pc \in [Actors -> Labels]
        /\ \A w \in Workers : w \in Actors /\ w \notin Clients
        /\ \A c \in Clients : c \in Actors /\ c \notin Workers
    BY Constants DEF Inv, TypeOK
  <1>c. ~Stopped
    BY StoppedStep
  <1>t. TypeOK'
    BY TypeStep
  <1>1. ASSUME NEW a \in Actors, PushGlobal(a) PROVE SameGroup
    BY <1>1, <1>b DEF PushGlobal, Goto, SameGroup, DoneWorkers, counters, history, Caller
  <1>2. ASSUME NEW a \in Actors, Count(a) PROVE SameGroup
    BY <1>2, <1>b DEF Count, Goto, SameGroup, DoneWorkers, counters, history, Caller
  <1>3. ASSUME NEW a \in Actors, NotifyOne(a) PROVE SameGroup
    BY <1>3, <1>b DEF NotifyOne, Goto, SameGroup, DoneWorkers, counters, history, Caller, Asleep
  <1>4. ASSUME NEW w \in Workers, Exit(w) PROVE SameGroup
    BY <1>4, <1>b DEF Exit, Goto, SameGroup, DoneWorkers, counters, history
  <1>5. ASSUME NEW w \in Workers, ChooseStrategy(w) PROVE SameGroup
    BY <1>5, <1>b DEF ChooseStrategy, Goto, SameGroup, DoneWorkers, counters, history
  <1>6. ASSUME NEW w \in Workers, TakeFromLIFOSlot(w) PROVE SameGroup
    BY <1>6, <1>b
       DEF TakeFromLIFOSlot, Goto, SameGroup, DoneWorkers, counters, history, Trying, Takes,
           TakesNothing
  <1>7. ASSUME NEW w \in Workers, TakeFromLocalQueue(w) PROVE SameGroup
    BY <1>7, <1>b
       DEF TakeFromLocalQueue, Goto, SameGroup, DoneWorkers, counters, history, Trying, Takes,
           TakesNothing
  <1>8. ASSUME NEW w \in Workers, TakeFromGlobalQueue(w) PROVE SameGroup
    BY <1>8, <1>b
       DEF TakeFromGlobalQueue, Goto, SameGroup, DoneWorkers, counters, history, Trying, Takes,
           TakesNothing
  <1>9. ASSUME NEW w \in Workers, BecomeRobber(w) PROVE SameGroup
    BY <1>9, <1>b
       DEF BecomeRobber, Goto, SameGroup, DoneWorkers, counters, history, Trying, Takes,
           TakesNothing
  <1>10. ASSUME NEW w \in Workers, Rob(w) PROVE SameGroup
    BY <1>10, <1>b
       DEF Rob, Goto, SameGroup, DoneWorkers, counters, history, Trying, Takes, TakesNothing
  <1>11. ASSUME NEW w \in Workers, CountTaken(w) PROVE SameGroup
    BY <1>11, <1>b DEF CountTaken, Goto, SameGroup, DoneWorkers, counters, history
  <1>12. ASSUME NEW w \in Workers, PushLocal(w) PROVE SameGroup
    BY <1>12, <1>b DEF PushLocal, Goto, SameGroup, DoneWorkers, counters, history
  <1>13. ASSUME NEW w \in Workers, PushLIFO(w) PROVE SameGroup
    BY <1>13, <1>b DEF PushLIFO, Goto, SameGroup, DoneWorkers, counters, history
  <1>14. ASSUME NEW w \in Workers, Move(w) PROVE SameGroup
    BY <1>14, <1>b DEF Move, Goto, SameGroup, DoneWorkers, counters, history, AfterMove
  <1>15. ASSUME NEW w \in Workers, MoveFails(w) PROVE SameGroup
    BY <1>15, <1>b DEF MoveFails, Goto, SameGroup, DoneWorkers, counters, history
  <1>16. ASSUME NEW w \in Workers, GrabHalf(w) PROVE SameGroup
    BY <1>16, <1>b DEF GrabHalf, Goto, SameGroup, DoneWorkers, counters, history
  <1>17. ASSUME NEW w \in Workers, Spill(w) PROVE SameGroup
    BY <1>17, <1>b DEF Spill, Goto, SameGroup, DoneWorkers, counters, history
  <1>18. ASSUME NEW w \in Workers, NotifyIdle(w, "notifyIdle", "loop") PROVE SameGroup
    BY <1>18, <1>b DEF NotifyIdle, Goto, SameGroup, DoneWorkers, counters, history
  <1>19. ASSUME NEW w \in Workers, Wait(w) PROVE SameGroup
    BY <1>19, <1>b DEF Wait, Goto, SameGroup, DoneWorkers, counters, history
  <1>20. ASSUME NEW c \in Clients, WaitIdle(c) PROVE SameGroup
    BY <1>20, <1>b DEF WaitIdle, Goto, SameGroup, DoneWorkers, counters, history
  <1>21. ASSUME NEW c \in Clients, IdleLoad(c) PROVE SameGroup
    BY <1>21, <1>b DEF IdleLoad, Goto, SameGroup, DoneWorkers, counters, history
  <1>22. ASSUME NEW c \in Clients, IdleCheck(c) PROVE SameGroup
    BY <1>22, <1>b DEF IdleCheck, Goto, SameGroup, DoneWorkers, counters, history
  <1>23. ASSUME NEW c \in Clients, Close(c) PROVE SameGroup
    BY <1>23, <1>b DEF Close, Goto, SameGroup, DoneWorkers, counters, history
  <1>24. ASSUME NEW c \in Clients, StopAdd(c) PROVE SameGroup
    BY <1>24, <1>b DEF StopAdd, Goto, SameGroup, DoneWorkers, counters, history
  <1>25. ASSUME NEW c \in Clients, Destroy(c) PROVE SameGroup
    BY <1>25, <1>b DEF Destroy, Goto, SameGroup, DoneWorkers, counters, history
  <1>26. ASSUME NEW c \in Clients, StopNotify(c) PROVE SameGroup
    BY <1>26, <1>b DEF StopNotify, Goto, SameGroup, DoneWorkers, counters, history, Asleep
  <1>27. ASSUME NEW c \in Clients, NotifyIdle(c, "allDone", "idle") PROVE SameGroup
    BY <1>27, <1>b DEF NotifyIdle, Goto, SameGroup, DoneWorkers, counters, history
  <1>28. ASSUME NEW a \in Actors, ExecuteAdd(a) PROVE Enters
    <2>1. PICK r : r = Call(a).routine
      OBVIOUS
    <2>2. /\ r \notin submitted /\ submitted' = submitted \cup {r} /\ finished' = finished
          /\ routines_wg_' = (routines_wg_ + 1) % Word
          /\ r \in Routines
      BY <1>28, <1>b, <2>1, AtHand DEF ExecuteAdd, Submits, Next_, Inv
    <2>3. DoneWorkers' = DoneWorkers
      BY <1>28, <1>b DEF ExecuteAdd, Goto, Caller, DoneWorkers
    <2>4. r \notin finished
      <3>1. PICK kind \in Kinds, by \in Actors \cup {Null} : Placed(r, kind, by)
        BY <2>2 DEF Inv, PlaceInv
      <3>2. QED
        BY <2>2, <3>1 DEF Placed
    <2>5. submitted' \ finished' = (submitted \ finished) \cup {r}
      BY <2>2, <2>4
    <2>6. QED
      BY <2>2, <2>3, <2>5 DEF Enters
  <1>29. ASSUME NEW w \in Workers, Return(w) PROVE Returns
    <2>1. PICK r : r = routine[w]
      OBVIOUS
    <2>2. r \in submitted \ finished /\ finished' = finished \cup {r}
      BY <1>29, <1>t, <2>1, FinishesPlaces DEF Finishes
    <2>3. submitted' = submitted /\ routines_wg_' = routines_wg_
      BY <1>29 DEF Return, counters
    <2>4. w \notin DoneWorkers /\ DoneWorkers' = DoneWorkers \cup {w}
      BY <1>29, <1>b DEF Return, Goto, DoneWorkers
    <2>5. submitted' \ finished' = (submitted \ finished) \ {r}
      BY <2>2, <2>3
    <2>6. QED
      BY <2>2, <2>3, <2>4, <2>5 DEF Returns
  <1>30. ASSUME NEW w \in Workers, Done(w) PROVE Leaves
    <2>1. w \in DoneWorkers /\ DoneWorkers' = DoneWorkers \ {w}
      BY <1>30, <1>b DEF Done, Goto, DoneWorkers
    <2>2. QED
      BY <1>30, <2>1 DEF Done, Leaves, history
  <1>31. ASSUME NEW c \in Clients, Join(c) PROVE FALSE
    BY <1>31, <1>b, <1>c DEF Join, Goto, Stopped
  <1>32. QED
    BY <1>1, <1>2, <1>3, <1>4, <1>5, <1>6, <1>7, <1>8, <1>9, <1>10, <1>11, <1>12, <1>13, <1>14,
       <1>15, <1>16, <1>17, <1>18, <1>19, <1>20, <1>21, <1>22, <1>23, <1>24, <1>25, <1>26,
       <1>27, <1>28, <1>29, <1>30, <1>31, <1>b
       DEF Next, WorkerStep, ClientStep, Execute, PlainExecute, PlainPushed, PlainRun, PlainReturn,
           PlainSpin, PlainStop, PlainJoin

LEMMA WaitGroupStep ==
    ASSUME Inv, Next, WaitGroupInv PROVE WaitGroupInv'
  <1> SUFFICES ASSUME WithWaitIdle', ~Stopped'
               PROVE  Congruent(routines_wg_', Cardinality(submitted' \ finished')
                                               + Cardinality(DoneWorkers'))
    BY DEF WaitGroupInv
  <1>1. WithWaitIdle /\ ~Stopped
    BY StoppedStep DEF Next, WithWaitIdle
  <1>2. PICK q, q2, a, a2, b, b2 :
            /\ q = routines_wg_ /\ q2 = routines_wg_'
            /\ a = Cardinality(submitted \ finished) /\ a2 = Cardinality(submitted' \ finished')
            /\ b = Cardinality(DoneWorkers) /\ b2 = Cardinality(DoneWorkers')
    OBVIOUS
  <1>3. /\ q \in 0..(Word - 1) /\ a \in Nat /\ b \in Nat
        /\ Congruent(q, a + b)
        /\ IsFiniteSet(submitted \ finished) /\ IsFiniteSet(DoneWorkers)
    BY <1>1, <1>2, Sizes DEF Inv, TypeOK, WaitGroupInv
  <1>4. q2 \in 0..(Word - 1)
    BY <1>2, TypeStep DEF TypeOK
  <1>5. q \in Int /\ q2 \in Int /\ a + b \in Int /\ 1 \in Int /\ -1 \in Int
    BY <1>3, <1>4, Constants
  <1>6. CASE SameGroup
    BY <1>2, <1>3, <1>6 DEF SameGroup
  <1>7. CASE Enters
    <2>1. a2 = a + 1 /\ b2 = b
      BY <1>2, <1>3, <1>7, OneMore DEF Enters
    <2>2. Congruent(q2, q + 1)
      BY <1>2, <1>3, <1>7, Counting DEF Enters
    <2>3. Congruent(q + 1, (a + b) + 1)
      BY <1>3, <1>5, Congruences
    <2>4. Congruent(q2, (a + b) + 1)
      BY <1>5, <2>2, <2>3, Congruences
    <2>5. a2 + b2 = (a + b) + 1
      BY <1>3, <2>1
    <2>6. QED
      BY <1>2, <2>4, <2>5
  <1>8. CASE Returns
    <2>1. a2 = a - 1 /\ b2 = b + 1 /\ q2 = q
      BY <1>2, <1>3, <1>8, OneMore, OneLess DEF Returns
    <2>2. a2 + b2 = a + b
      BY <1>3, <2>1
    <2>3. QED
      BY <1>2, <1>3, <2>1, <2>2
  <1>9. CASE Leaves
    <2>1. a2 = a /\ b2 = b - 1
      BY <1>2, <1>3, <1>9, OneLess DEF Leaves
    <2>2. Congruent(q2, q - 1) /\ q - 1 = q + -1
      BY <1>2, <1>3, <1>5, <1>9, Counting DEF Leaves
    <2>3. Congruent(q + -1, (a + b) + -1)
      BY <1>3, <1>5, Congruences
    <2>4. Congruent(q2, (a + b) + -1)
      BY <1>5, <2>2, <2>3, Congruences
    <2>5. a2 + b2 = (a + b) + -1
      BY <1>3, <2>1
    <2>6. QED
      BY <1>2, <2>4, <2>5
  <1>10. QED
    BY <1>1, <1>6, <1>7, <1>8, <1>9, GroupEffects

------------------------------------------------------------------------------
LEMMA IInvStep ==
    ASSUME IInv, [Next]_vars PROVE IInv'
  <1>1. Inv'
    BY InvStep DEF IInv
  <1>2. CASE Next
    BY <1>1, <1>2, QueueCountStep, WaitGroupStep, SleepStep DEF IInv
  <1>3. CASE UNCHANGED vars
    <2>1. /\ UNCHANGED <<queues, transit, pc, todo, routine, closed, variant>>
          /\ UNCHANGED <<routines_in_queue_, routines_wg_, submitted, finished, discarded>>
      BY <1>3 DEF vars, counters, history, taking, transit
    <2>2. /\ Queued' = Queued /\ Uncounted' = Uncounted /\ Unsubtracted' = Unsubtracted
          /\ DoneWorkers' = DoneWorkers /\ Asleep' = Asleep
          /\ WithWaitIdle' <=> WithWaitIdle
          /\ Stopped' <=> Stopped
      BY <2>1, QueuedSame DEF Uncounted, Unsubtracted, DoneWorkers, Asleep, WithWaitIdle, Stopped
    <2>3. QueueCountInv'
      BY <2>1, <2>2 DEF IInv, QueueCountInv, Tokens
    <2>4. WaitGroupInv'
      BY <2>1, <2>2 DEF IInv, WaitGroupInv
    <2>5. SleepInv'
      BY <2>1, <2>2 DEF IInv, SleepInv
    <2>6. QED
      BY <1>1, <2>3, <2>4, <2>5 DEF IInv
  <1>4. QED
    BY <1>2, <1>3

\* The invariant, with what both counters are compared with, holds in every state.
THEOREM Invariance == Spec => []IInv
  BY InitIInv, IInvStep, PTL DEF Spec

\* What is congruent to a small number is that number, or another word.
LEMMA SmallNumbers ==
    ASSUME NEW x \in Int, NEW y \in Int, Congruent(x, y) PROVE x % Word = y % Word
  <1>1. /\ x % Word \in 0..(Word - 1) /\ y % Word \in 0..(Word - 1)
        /\ Congruent(x % Word, x) /\ Congruent(y % Word, y)
    BY Wraps
  <1>2. PICK m, n : m = x % Word /\ n = y % Word
    OBVIOUS
  <1>3. m \in Int /\ n \in Int /\ Congruent(m, x) /\ Congruent(n, y)
    BY <1>1, <1>2, Constants
  <1>4. Congruent(m, y)
    BY <1>3, Congruences
  <1>5. Congruent(y, n)
    BY <1>3, Congruences
  <1>6. Congruent(m, n)
    BY <1>3, <1>4, <1>5, Congruences
  <1>7. QED
    BY <1>1, <1>2, <1>6, Congruences

\* The counter of queued routines is exact, up to the calls that are between
\* their push or take and its count, and to the tokens of Stop: it never drifts,
\* although it wraps below 0.
THEOREM CounterStaysExact == Spec => []CounterIsExact
  <1>1. ASSUME IInv PROVE CounterIsExact
    <2>1. SUFFICES ASSUME WithWaitIdle
                   PROVE  (routines_in_queue_ + Cardinality(Uncounted)) % Word
                              = (Cardinality(Queued) + Cardinality(Unsubtracted)
                                 + Cardinality(discarded) + Tokens) % Word
      BY DEF CounterIsExact, Tokens
    <2>2. /\ routines_in_queue_ + Cardinality(Uncounted) \in Int
          /\ Cardinality(Queued) + Cardinality(Unsubtracted) + Cardinality(discarded) + Tokens
                \in Int
      <3>1. TypeOK
        BY <1>1 DEF IInv, Inv
      <3>2. /\ Cardinality(Uncounted) \in Nat /\ Cardinality(Queued) \in Nat
            /\ Cardinality(Unsubtracted) \in Nat /\ Cardinality(discarded) \in Nat
        BY <3>1, Sizes
      <3>3. Tokens \in Nat /\ routines_in_queue_ \in Nat
        BY <3>1, Constants DEF Tokens, TypeOK
      <3>4. QED
        BY <3>2, <3>3
    <2>3. QED
      BY <1>1, <2>1, <2>2, SmallNumbers DEF IInv, QueueCountInv
  <1>2. QED
    BY <1>1, Invariance, PTL

\* Workers never all sleep over a routine, unless somebody is about to wake one:
\* a notification is not lost between the check of the counter and the sleep.
THEOREM NoWakeupIsLost == Spec => []NoLostWakeup
  <1>1. ASSUME IInv, Asleep = Workers,
               ~\E a \in Actors : pc[a] \in {"count", "notify", "stopNotify"}
        PROVE  Queued = {}
    <2>1. /\ TypeOK /\ QueueCountInv
          /\ \A w \in Workers : w \in Actors /\ pc[w] = "asleep"
      BY <1>1, Constants DEF IInv, Inv, Asleep
    <2>2. routines_in_queue_ = 0
      BY <1>1 DEF IInv, SleepInv
    <2>3. WithWaitIdle
      BY <1>1, <2>1, SomeWorker DEF IInv, Inv, WorkerInv
    <2>4. Uncounted = {} /\ Unsubtracted = {}
      <3>1. \A c \in Clients : pc[c] \notin Loading \cup {"count"}
        BY <1>1 DEF IInv, Inv, CallInv, Loading, Actors
      <3>2. QED
        BY <2>1, <3>1 DEF Uncounted, Unsubtracted, Loading, Actors
    <2>5. PICK a, b, t : a = Cardinality(Queued) /\ b = Cardinality(discarded) /\ t = Tokens
      OBVIOUS
    <2>6. Congruent(0, a + b + t)
      <3>1. Congruent(0 + Cardinality({}), a + Cardinality({}) + b + t)
        BY <2>1, <2>2, <2>3, <2>4, <2>5 DEF QueueCountInv
      <3>2. a \in Nat /\ b \in Nat /\ Cardinality({}) = 0
        BY <2>1, <2>5, Sizes, FS_EmptySet
      <3>3. 0 + Cardinality({}) = 0 /\ a + Cardinality({}) + b + t = a + b + t
        BY <3>2
      <3>4. QED
        BY <3>1, <3>3
    <2>7. a \in Nat /\ b \in Nat /\ a + b <= Cardinality(Routines)
      <3>1. Queued \cap discarded = {}
        <4>1. ASSUME NEW r \in Routines, r \in Queued, r \in discarded PROVE FALSE
          <5>1. PICK kind \in Kinds, by \in Actors \cup {Null} : Placed(r, kind, by)
            BY <1>1 DEF IInv, Inv, PlaceInv
          <5>2. kind \in QueueKinds /\ kind = "discarded"
            BY <4>1, <5>1, QueuedKinds DEF Placed
          <5>3. QED
            BY <5>2 DEF QueueKinds
        <4>2. QED
          BY <2>1, <4>1, WaitingRoutines
      <3>2. Queued \cup discarded \subseteq Routines
        BY <2>1, WaitingRoutines DEF TypeOK
      <3>3. Cardinality(Queued \cup discarded) = a + b - Cardinality({})
        BY <2>1, <2>5, <3>1, Sizes, FS_Union
      <3>4. Cardinality(Queued \cup discarded) <= Cardinality(Routines)
        BY <3>2, Constants, FS_Subset
      <3>5. a \in Nat /\ b \in Nat /\ Cardinality({}) = 0
        BY <2>1, <2>5, Sizes, FS_EmptySet
      <3>6. QED
        BY <3>3, <3>4, <3>5
    <2>8. a + b + t \in 0..(Word - 1) /\ 0 \in 0..(Word - 1) /\ t \in Nat
      <3>1. t \in Nat /\ t <= kStopTokens
        BY <2>5, Constants DEF Tokens
      <3>2. kStopTokens + Cardinality(Routines) < Word
        BY PoolAssumption, Constants
      <3>3. QED
        BY <2>7, <3>1, <3>2, Constants
    <2>9. 0 = a + b + t
      BY <2>6, <2>8, Congruences
    <2>10. a = 0
      BY <2>7, <2>8, <2>9
    <2>11. QED
      BY <2>1, <2>5, <2>10, Sizes, FS_EmptySet
  <1>2. IInv => NoLostWakeup
    BY <1>1 DEF NoLostWakeup
  <1>3. QED
    BY <1>2, Invariance, PTL

------------------------------------------------------------------------------
\* WaitIdle returns from its load of a count that is 0.
LEMMA IdleReturns ==
    ASSUME Inv, Next, NEW d \in Clients, pc[d] \in {"idleLoad", "idleCheck", "idleWait"},
           pc'[d] = "idle"
    PROVE  routines_wg_ = 0
  <1>b. /\ pc \in [Actors -> Labels]
        /\ \A w \in Workers : w \in Actors /\ w \notin Clients
        /\ \A c \in Clients : c \in Actors /\ c \notin Workers
    BY Constants DEF Inv, TypeOK
  <1>1. ASSUME NEW a \in Actors, ExecuteAdd(a) PROVE FALSE
    BY <1>1, <1>b DEF ExecuteAdd, Goto, Caller
  <1>2. ASSUME NEW a \in Actors, PushGlobal(a) PROVE FALSE
    BY <1>2, <1>b DEF PushGlobal, Goto, Caller
  <1>3. ASSUME NEW a \in Actors, Count(a) PROVE FALSE
    BY <1>3, <1>b DEF Count, Goto, Caller
  <1>4. ASSUME NEW a \in Actors, NotifyOne(a) PROVE FALSE
    BY <1>4, <1>b DEF NotifyOne, Goto, Caller, Asleep
  <1>5. ASSUME NEW a \in Actors, PlainExecute(a) PROVE FALSE
    BY <1>5, <1>b DEF PlainExecute, Goto, Caller
  <1>6. ASSUME NEW a \in Actors, PlainPushed(a) PROVE FALSE
    BY <1>6, <1>b DEF PlainPushed, Goto, Caller
  <1>7. ASSUME NEW w \in Workers, Exit(w) PROVE FALSE
    BY <1>7, <1>b DEF Exit, Goto
  <1>8. ASSUME NEW w \in Workers, ChooseStrategy(w) PROVE FALSE
    BY <1>8, <1>b DEF ChooseStrategy, Goto
  <1>9. ASSUME NEW w \in Workers, TakeFromLIFOSlot(w) PROVE FALSE
    BY <1>9, <1>b DEF TakeFromLIFOSlot, Goto, Trying, Takes, TakesNothing
  <1>10. ASSUME NEW w \in Workers, TakeFromLocalQueue(w) PROVE FALSE
    BY <1>10, <1>b DEF TakeFromLocalQueue, Goto, Trying, Takes, TakesNothing
  <1>11. ASSUME NEW w \in Workers, TakeFromGlobalQueue(w) PROVE FALSE
    BY <1>11, <1>b DEF TakeFromGlobalQueue, Goto, Trying, Takes, TakesNothing
  <1>12. ASSUME NEW w \in Workers, BecomeRobber(w) PROVE FALSE
    BY <1>12, <1>b DEF BecomeRobber, Goto, Trying, Takes, TakesNothing
  <1>13. ASSUME NEW w \in Workers, Rob(w) PROVE FALSE
    BY <1>13, <1>b DEF Rob, Goto, Trying, Takes, TakesNothing
  <1>14. ASSUME NEW w \in Workers, CountTaken(w) PROVE FALSE
    BY <1>14, <1>b DEF CountTaken, Goto
  <1>15. ASSUME NEW w \in Workers, PushLocal(w) PROVE FALSE
    BY <1>15, <1>b DEF PushLocal, Goto
  <1>16. ASSUME NEW w \in Workers, PushLIFO(w) PROVE FALSE
    BY <1>16, <1>b DEF PushLIFO, Goto
  <1>17. ASSUME NEW w \in Workers, Move(w) PROVE FALSE
    BY <1>17, <1>b DEF Move, Goto, AfterMove
  <1>18. ASSUME NEW w \in Workers, MoveFails(w) PROVE FALSE
    BY <1>18, <1>b DEF MoveFails, Goto
  <1>19. ASSUME NEW w \in Workers, GrabHalf(w) PROVE FALSE
    BY <1>19, <1>b DEF GrabHalf, Goto
  <1>20. ASSUME NEW w \in Workers, Spill(w) PROVE FALSE
    BY <1>20, <1>b DEF Spill, Goto
  <1>21. ASSUME NEW w \in Workers, Return(w) PROVE FALSE
    BY <1>21, <1>b DEF Return, Goto
  <1>22. ASSUME NEW w \in Workers, Done(w) PROVE FALSE
    BY <1>22, <1>b DEF Done, Goto
  <1>23. ASSUME NEW w \in Workers, NotifyIdle(w, "notifyIdle", "loop") PROVE FALSE
    BY <1>23, <1>b DEF NotifyIdle, Goto
  <1>24. ASSUME NEW w \in Workers, Wait(w) PROVE FALSE
    BY <1>24, <1>b DEF Wait, Goto
  <1>25. ASSUME NEW w \in Workers, PlainRun(w) PROVE FALSE
    BY <1>25, <1>b DEF PlainRun, Goto
  <1>26. ASSUME NEW w \in Workers, PlainReturn(w) PROVE FALSE
    BY <1>26, <1>b DEF PlainReturn, Goto
  <1>27. ASSUME NEW w \in Workers, PlainSpin(w) PROVE FALSE
    BY <1>27, <1>b DEF PlainSpin, Goto
  <1>28. ASSUME NEW c \in Clients, WaitIdle(c) PROVE FALSE
    BY <1>28, <1>b DEF WaitIdle, Goto
  <1>29. ASSUME NEW c \in Clients, IdleLoad(c) PROVE routines_wg_ = 0
    BY <1>29, <1>b DEF IdleLoad, Goto
  <1>30. ASSUME NEW c \in Clients, IdleCheck(c) PROVE FALSE
    BY <1>30, <1>b DEF IdleCheck, Goto
  <1>31. ASSUME NEW c \in Clients, StopAdd(c) PROVE FALSE
    BY <1>31, <1>b DEF StopAdd, Goto
  <1>32. ASSUME NEW c \in Clients, Close(c) PROVE FALSE
    BY <1>32, <1>b DEF Close, Goto
  <1>33. ASSUME NEW c \in Clients, Join(c) PROVE FALSE
    BY <1>33, <1>b DEF Join, Goto
  <1>34. ASSUME NEW c \in Clients, PlainStop(c) PROVE FALSE
    BY <1>34, <1>b DEF PlainStop, Goto
  <1>35. ASSUME NEW c \in Clients, PlainJoin(c) PROVE FALSE
    BY <1>35, <1>b DEF PlainJoin, Goto
  <1>36. ASSUME NEW c \in Clients, Destroy(c) PROVE FALSE
    BY <1>36, <1>b DEF Destroy, Goto
  <1>37. ASSUME NEW c \in Clients, StopNotify(c) PROVE FALSE
    BY <1>37, <1>b DEF StopNotify, Goto, Asleep
  <1>38. ASSUME NEW c \in Clients, NotifyIdle(c, "allDone", "idle") PROVE FALSE
    BY <1>38, <1>b DEF NotifyIdle, Goto
  <1>39. QED
    BY <1>1, <1>2, <1>3, <1>4, <1>5, <1>6, <1>7, <1>8, <1>9, <1>10, <1>11, <1>12, <1>13, <1>14,
       <1>15, <1>16, <1>17, <1>18, <1>19, <1>20, <1>21, <1>22, <1>23, <1>24, <1>25, <1>26,
       <1>27, <1>28, <1>29, <1>30, <1>31, <1>32, <1>33, <1>34, <1>35, <1>36, <1>37, <1>38, <1>b
       DEF Next, WorkerStep, ClientStep, Execute

\* When WaitIdle returns, every routine submitted so far has returned, and so
\* has every one that these submitted, unless the pool was stopped: the count of
\* the WaitGroup cannot be 0 before.
THEOREM IdleMeansAllDone == Spec => IdleMeansDone
  <1>1. ASSUME IInv, Next, NEW d \in Clients, pc[d] \in {"idleLoad", "idleCheck", "idleWait"},
               pc'[d] = "idle", ~Stopped
        PROVE  submitted \subseteq finished
    <2>1. TypeOK /\ routines_wg_ = 0
      BY <1>1, IdleReturns DEF IInv, Inv
    <2>2. WithWaitIdle
      <3>1. Next_(d, "WaitIdle") /\ d \in Actors
        BY <1>1, Constants DEF IInv, Inv, CallInv
      <3>2. todo[d] # << >> /\ todo[d] \in Seq(Calls) /\ Call(d).op = "WaitIdle"
        BY <2>1, <3>1 DEF Next_, TypeOK
      <3>3. Call(d) \in Range(todo[d]) /\ Call(d) \in Calls
        BY <3>2, HeadTailFacts DEF Call
      <3>4. Call(d) = [op |-> "WaitIdle"]
        BY <3>2, <3>3 DEF Calls
      <3>5. QED
        BY <1>1, <3>3, <3>4 DEF IInv, Inv, ScriptInv
    <2>3. PICK a, b : a = Cardinality(submitted \ finished) /\ b = Cardinality(DoneWorkers)
      OBVIOUS
    <2>4. Congruent(0, a + b)
      BY <1>1, <2>1, <2>2, <2>3 DEF IInv, WaitGroupInv
    <2>5. /\ a \in Nat /\ b \in Nat
          /\ a <= Cardinality(Routines) /\ b <= Cardinality(Workers)
      <3>1. submitted \ finished \subseteq Routines /\ DoneWorkers \subseteq Workers
        BY <2>1 DEF TypeOK, DoneWorkers
      <3>2. QED
        BY <2>1, <2>3, <3>1, Sizes, Constants, FS_Subset
    <2>6. a + b \in 0..(Word - 1) /\ 0 \in 0..(Word - 1)
      BY <2>5, PoolAssumption, Constants
    <2>7. a = 0
      <3>1. 0 = a + b
        BY <2>4, <2>6, Congruences
      <3>2. QED
        BY <2>5, <3>1
    <2>8. submitted \ finished = {}
      BY <2>1, <2>3, <2>7, Sizes, FS_EmptySet
    <2>9. QED
      BY <2>8
  <1>2. IInv /\ [Next]_vars =>
            [\A c \in Clients :
                pc[c] \in {"idleLoad", "idleCheck", "idleWait"} /\ pc'[c] = "idle"
                    => submitted \subseteq finished \/ Stopped]_vars
    BY <1>1
  <1>3. QED
    BY <1>2, Invariance, PTL DEF Spec, IdleMeansDone

------------------------------------------------------------------------------
\* What is left when everybody is done, for clients that end with Stop and the
\* destructor, which asserts that the pool was stopped.
StopAhead == \E d \in Clients : \E i \in DOMAIN todo[d] : todo[d][i].op = "Stop"
Final(c) == todo[c] # << >> /\ todo[c][Len(todo[c])].op = "Destroy"
Orderly == StopAhead /\ \E c \in Clients : Final(c)

Joined == \A w \in Workers : pc[w] = "exited"
ClosingInv ==
    /\ StopAhead \/ Joined
    /\ \/ \E c \in Clients : Final(c)
       \/ (\A c \in Clients : todo[c] = << >>) /\ submitted = finished \cup discarded

\* A worker that has left does not come back; Stop is over when all have left,
\* and only the destructor's step removes its call.
Removes(c) == \/ Call(c).op \in {"Execute", "WaitIdle"}
              \/ Call(c).op = "Stop" /\ Joined
              \/ Destroy(c)
Departures ==
    /\ \A w \in Workers : pc[w] = "exited" => pc'[w] = "exited"
    /\ \A c \in Clients : todo'[c] # todo[c] => Removes(c)
LEMMA DeparturesStep ==
    ASSUME Inv, Next PROVE Departures
  <1>a. /\ \A a \in Actors : pc[a] = "count" => Call(a).op = "Execute"
        /\ \A c \in Clients : pc[c] = "idleLoad" => Call(c).op = "WaitIdle"
        /\ \A c \in Clients : pc[c] = "join" => Call(c).op = "Stop"
    BY Constants DEF Inv, CallInv, Next_
  <1>b. /\ pc \in [Actors -> Labels] /\ todo \in [Actors -> Seq(Calls)]
        /\ \A w \in Workers : w \in Actors /\ w \notin Clients
        /\ \A c \in Clients : c \in Actors /\ c \notin Workers
    BY Constants DEF Inv, TypeOK
  <1>1. ASSUME NEW a \in Actors, ExecuteAdd(a) PROVE Departures
    BY <1>1, <1>a, <1>b
       DEF Departures, Removes, ExecuteAdd, Goto, Caller
  <1>2. ASSUME NEW a \in Actors, PushGlobal(a) PROVE Departures
    BY <1>2, <1>a, <1>b
       DEF Departures, Removes, PushGlobal, Goto, Caller
  <1>3. ASSUME NEW a \in Actors, Count(a) PROVE Departures
    BY <1>3, <1>a, <1>b
       DEF Departures, Removes, Count, Goto, Caller
  <1>4. ASSUME NEW a \in Actors, NotifyOne(a) PROVE Departures
    BY <1>4, <1>a, <1>b
       DEF Departures, Removes, NotifyOne, Goto, Caller, Asleep
  <1>5. ASSUME NEW a \in Actors, PlainExecute(a) PROVE Departures
    BY <1>5, <1>a, <1>b
       DEF Departures, Removes, PlainExecute, Goto, Caller
  <1>6. ASSUME NEW a \in Actors, PlainPushed(a) PROVE Departures
    BY <1>6, <1>a, <1>b
       DEF Departures, Removes, PlainPushed, Goto, Caller
  <1>7. ASSUME NEW w \in Workers, Exit(w) PROVE Departures
    BY <1>7, <1>a, <1>b
       DEF Departures, Removes, Exit, Goto
  <1>8. ASSUME NEW w \in Workers, ChooseStrategy(w) PROVE Departures
    BY <1>8, <1>a, <1>b
       DEF Departures, Removes, ChooseStrategy, Goto
  <1>9. ASSUME NEW w \in Workers, TakeFromLIFOSlot(w) PROVE Departures
    BY <1>9, <1>a, <1>b
       DEF Departures, Removes, TakeFromLIFOSlot, Goto, Trying, Takes, TakesNothing
  <1>10. ASSUME NEW w \in Workers, TakeFromLocalQueue(w) PROVE Departures
    BY <1>10, <1>a, <1>b
       DEF Departures, Removes, TakeFromLocalQueue, Goto, Trying, Takes, TakesNothing
  <1>11. ASSUME NEW w \in Workers, TakeFromGlobalQueue(w) PROVE Departures
    BY <1>11, <1>a, <1>b
       DEF Departures, Removes, TakeFromGlobalQueue, Goto, Trying, Takes, TakesNothing
  <1>12. ASSUME NEW w \in Workers, BecomeRobber(w) PROVE Departures
    BY <1>12, <1>a, <1>b
       DEF Departures, Removes, BecomeRobber, Goto, Trying, Takes, TakesNothing
  <1>13. ASSUME NEW w \in Workers, Rob(w) PROVE Departures
    BY <1>13, <1>a, <1>b
       DEF Departures, Removes, Rob, Goto, Trying, Takes, TakesNothing
  <1>14. ASSUME NEW w \in Workers, CountTaken(w) PROVE Departures
    BY <1>14, <1>a, <1>b
       DEF Departures, Removes, CountTaken, Goto
  <1>15. ASSUME NEW w \in Workers, PushLocal(w) PROVE Departures
    BY <1>15, <1>a, <1>b
       DEF Departures, Removes, PushLocal, Goto
  <1>16. ASSUME NEW w \in Workers, PushLIFO(w) PROVE Departures
    BY <1>16, <1>a, <1>b
       DEF Departures, Removes, PushLIFO, Goto
  <1>17. ASSUME NEW w \in Workers, Move(w) PROVE Departures
    BY <1>17, <1>a, <1>b
       DEF Departures, Removes, Move, Goto, AfterMove
  <1>18. ASSUME NEW w \in Workers, MoveFails(w) PROVE Departures
    BY <1>18, <1>a, <1>b
       DEF Departures, Removes, MoveFails, Goto
  <1>19. ASSUME NEW w \in Workers, GrabHalf(w) PROVE Departures
    BY <1>19, <1>a, <1>b
       DEF Departures, Removes, GrabHalf, Goto
  <1>20. ASSUME NEW w \in Workers, Spill(w) PROVE Departures
    BY <1>20, <1>a, <1>b
       DEF Departures, Removes, Spill, Goto
  <1>21. ASSUME NEW w \in Workers, Return(w) PROVE Departures
    BY <1>21, <1>a, <1>b
       DEF Departures, Removes, Return, Goto
  <1>22. ASSUME NEW w \in Workers, Done(w) PROVE Departures
    BY <1>22, <1>a, <1>b
       DEF Departures, Removes, Done, Goto
  <1>23. ASSUME NEW w \in Workers, NotifyIdle(w, "notifyIdle", "loop") PROVE Departures
    BY <1>23, <1>a, <1>b
       DEF Departures, Removes, NotifyIdle, Goto
  <1>24. ASSUME NEW w \in Workers, Wait(w) PROVE Departures
    BY <1>24, <1>a, <1>b
       DEF Departures, Removes, Wait, Goto
  <1>25. ASSUME NEW w \in Workers, PlainRun(w) PROVE Departures
    BY <1>25, <1>a, <1>b
       DEF Departures, Removes, PlainRun, Goto
  <1>26. ASSUME NEW w \in Workers, PlainReturn(w) PROVE Departures
    BY <1>26, <1>a, <1>b
       DEF Departures, Removes, PlainReturn, Goto
  <1>27. ASSUME NEW w \in Workers, PlainSpin(w) PROVE Departures
    BY <1>27, <1>a, <1>b
       DEF Departures, Removes, PlainSpin, Goto
  <1>28. ASSUME NEW c \in Clients, WaitIdle(c) PROVE Departures
    BY <1>28, <1>a, <1>b
       DEF Departures, Removes, WaitIdle, Goto
  <1>29. ASSUME NEW c \in Clients, IdleLoad(c) PROVE Departures
    BY <1>29, <1>a, <1>b
       DEF Departures, Removes, IdleLoad, Goto
  <1>30. ASSUME NEW c \in Clients, IdleCheck(c) PROVE Departures
    BY <1>30, <1>a, <1>b
       DEF Departures, Removes, IdleCheck, Goto
  <1>31. ASSUME NEW c \in Clients, StopAdd(c) PROVE Departures
    BY <1>31, <1>a, <1>b
       DEF Departures, Removes, StopAdd, Goto
  <1>32. ASSUME NEW c \in Clients, Close(c) PROVE Departures
    BY <1>32, <1>a, <1>b
       DEF Departures, Removes, Close, Goto
  <1>33. ASSUME NEW c \in Clients, Join(c) PROVE Departures
    BY <1>33, <1>a, <1>b
       DEF Departures, Removes, Join, Goto, Joined
  <1>34. ASSUME NEW c \in Clients, PlainStop(c) PROVE Departures
    BY <1>34, <1>a, <1>b
       DEF Departures, Removes, PlainStop, Goto
  <1>35. ASSUME NEW c \in Clients, PlainJoin(c) PROVE Departures
    BY <1>35, <1>a, <1>b
       DEF Departures, Removes, PlainJoin, Goto, Joined
  <1>36. ASSUME NEW c \in Clients, Destroy(c) PROVE Departures
    <2>1. /\ pc' = pc /\ \A d \in Clients : d # c => todo'[d] = todo[d]
      BY <1>36, <1>b DEF Destroy
    <2>2. QED
      BY <1>36, <2>1 DEF Departures, Removes
  <1>37. ASSUME NEW c \in Clients, StopNotify(c) PROVE Departures
    BY <1>37, <1>a, <1>b
       DEF Departures, Removes, StopNotify, Goto, Asleep
  <1>38. ASSUME NEW c \in Clients, NotifyIdle(c, "allDone", "idle") PROVE Departures
    BY <1>38, <1>a, <1>b
       DEF Departures, Removes, NotifyIdle, Goto
  <1>39. QED
    BY <1>1, <1>2, <1>3, <1>4, <1>5, <1>6, <1>7, <1>8, <1>9, <1>10, <1>11, <1>12, <1>13, <1>14,
       <1>15, <1>16, <1>17, <1>18, <1>19, <1>20, <1>21, <1>22, <1>23, <1>24, <1>25, <1>26,
       <1>27, <1>28, <1>29, <1>30, <1>31, <1>32, <1>33, <1>34, <1>35, <1>36, <1>37, <1>38, <1>b
       DEF Next, WorkerStep, ClientStep, Execute

\* Of a pool whose workers have left, the destructor discards all that has not
\* been run.
LEMMA LastDestroy ==
    ASSUME Inv, NEW c \in Clients, Destroy(c), Joined
    PROVE  submitted' = finished' \cup discarded'
  <1>1. /\ submitted' = submitted /\ finished' = finished
        /\ discarded' = discarded \cup Waiting
        /\ \A b \in Clients : pc[b] = "idle"
    BY DEF Destroy
  <1>2. ASSUME NEW r \in submitted
        PROVE  r \in finished \cup discarded \cup Waiting
    <2>1. r \in Routines
      BY DEF Inv, TypeOK
    <2>2. PICK kind \in Kinds, by \in Actors \cup {Null} : Placed(r, kind, by)
      BY <2>1 DEF Inv, PlaceInv
    <2>3. kind # "new"
      BY <2>2 DEF Placed
    <2>4. kind # "execute"
      <3>1. \A a \in Actors : pc[a] # "execute"
        BY <1>1 DEF Joined, Actors
      <3>2. QED
        BY <2>2, <3>1 DEF Placed, Submitting
    <2>5. kind \notin {"moving", "spilled", "routine"}
      <3>1. \A w \in Workers : moving[w] = << >> /\ spilled[w] = << >> /\ routine[w] = Null
        BY DEF Inv, WorkerInv, Joined, Loading, Running
      <3>2. r \notin Range(<< >>) /\ r # Null
        BY <2>1, SmallSequences, PoolAssumption
      <3>3. QED
        BY <2>2, <3>1, <3>2 DEF Placed
    <2>6. kind \in {"global", "local", "slot"} => r \in Waiting
      BY <2>1, <2>2, PoolAssumption DEF Placed, Waiting
    <2>7. kind = "finished" => r \in finished
      BY <2>2 DEF Placed
    <2>8. kind = "discarded" => r \in discarded
      BY <2>2 DEF Placed
    <2>9. QED
      BY <2>3, <2>4, <2>5, <2>6, <2>7, <2>8 DEF Kinds
  <1>3. Waiting \subseteq submitted
    <2>1. ASSUME NEW r \in Waiting PROVE r \in submitted
      <3>1. r \in Routines
        BY WaitingRoutines DEF Inv
      <3>2. PICK kind \in Kinds, by \in Actors \cup {Null} : Placed(r, kind, by)
        BY <3>1 DEF Inv, PlaceInv
      <3>3. kind \in {"global", "local", "slot"}
        BY <3>1, <3>2, WaitingRoutines DEF Placed
      <3>4. QED
        BY <3>2, <3>3 DEF Placed
    <2>2. QED
      BY <2>1
  <1>4. finished \subseteq submitted /\ discarded \subseteq submitted
    <2>1. ASSUME NEW r \in finished \cup discarded PROVE r \in submitted
      <3>1. r \in Routines
        BY DEF Inv, TypeOK
      <3>2. PICK kind \in Kinds, by \in Actors \cup {Null} : Placed(r, kind, by)
        BY <3>1 DEF Inv, PlaceInv
      <3>3. QED
        BY <3>2 DEF Placed
    <2>2. QED
      BY <2>1
  <1>5. QED
    BY <1>1, <1>2, <1>3, <1>4

\* Nothing happens any more.
LEMMA NothingLeft ==
    ASSUME Inv, Next, Joined, \A c \in Clients : todo[c] = << >>
    PROVE  UNCHANGED history
  <1>1. \A a \in Actors : todo[a] = << >> \/ a \in Workers
    BY DEF Actors
  <1>2. \A w \in Workers : todo[w] = << >> /\ pc[w] = "exited"
    BY DEF Inv, WorkerInv, Joined, Running, Loading
  <1>3. \A a \in Actors : todo[a] = << >>
    BY <1>1, <1>2
  <1>4. \A a \in Actors : ~Submission(a)
    BY <1>3 DEF Submission, ExecuteAdd, PlainExecute, Submits, Next_
  <1>5. \A a \in Actors : ~PushGlobal(a)
    BY <1>3 DEF PushGlobal, Goto, Inv, CallInv, Next_
  <1>6. \A w \in Workers : ~PushLocal(w) /\ ~PushLIFO(w) /\ ~Move(w) /\ ~GrabHalf(w) /\ ~Spill(w)
    BY <1>2 DEF PushLocal, PushLIFO, Move, GrabHalf, Spill, Goto
  <1>7. \A w \in Workers : /\ ~TakeFromLIFOSlot(w) /\ ~TakeFromLocalQueue(w)
                           /\ ~TakeFromGlobalQueue(w) /\ ~Rob(w) /\ ~Finishes(w)
    BY <1>2 DEF TakeFromLIFOSlot, TakeFromLocalQueue, TakeFromGlobalQueue, Rob, Trying,
                Finishes, Return, PlainReturn, Goto
  <1>8. \A c \in Clients : ~Destroy(c)
    BY DEF Destroy, Next_
  <1>9. Quiet
    BY <1>4, <1>5, <1>6, <1>7, <1>8, QuietOrRelocation DEF Relocation
  <1>10. QED
    BY <1>9 DEF Quiet

\* A script without its first call.
LEMMA ShorterScript ==
    ASSUME NEW s \in Seq(Calls), s # << >>
    PROVE  /\ Len(s) \in Nat /\ 1 <= Len(s) /\ Head(s) = s[1] /\ Tail(s) \in Seq(Calls)
           /\ Len(Tail(s)) = Len(s) - 1
           /\ Tail(s) = << >> <=> Len(s) = 1
           /\ \A i \in 2..Len(s) : i - 1 \in DOMAIN Tail(s) /\ Tail(s)[i-1] = s[i]
  <1>1. Len(s) \in Nat /\ Len(s) # 0 /\ Head(s) = s[1]
    BY LenProperties, EmptySeq
  <1>2. Tail(s) \in Seq(Calls) /\ Len(Tail(s)) = Len(s) - 1 /\ (Tail(s) = << >> <=> Len(s) = 1)
    BY HeadTailFacts
  <1>3. PICK t : t = Tail(s)
    OBVIOUS
  <1>4. t \in Seq(Calls) /\ Len(t) = Len(s) - 1 /\ \A i \in 1..Len(t) : t[i] = s[i+1]
    BY <1>1, <1>3, HeadTailProperties
  <1>5. ASSUME NEW i \in 2..Len(s) PROVE i - 1 \in DOMAIN t /\ t[i-1] = s[i]
    <2>1. i - 1 \in 1..Len(t) /\ (i - 1) + 1 = i
      BY <1>1, <1>4
    <2>2. DOMAIN t = 1..Len(t)
      BY <1>4, LenProperties
    <2>3. QED
      BY <1>4, <2>1, <2>2
  <1>6. QED
    BY <1>1, <1>2, <1>3, <1>5

LEMMA ClosingStep ==
    ASSUME Inv, ClosingInv, Next
    PROVE  ClosingInv'
  <1>1. TodoShrinks /\ Departures
    BY TodoStep, DeparturesStep
  <1>2. Joined => Joined'
    BY <1>1 DEF Joined, Departures
  <1>3. \A c \in Clients : todo[c] \in Seq(Calls)
    BY Constants DEF Inv, TypeOK
  <1>4. StopAhead' \/ Joined'
    <2>1. SUFFICES ASSUME NEW d \in Clients, NEW i \in DOMAIN todo[d],
                          todo[d][i].op = "Stop", ~Joined'
                   PROVE  StopAhead'
      BY <1>2 DEF ClosingInv, StopAhead
    <2>2. CASE todo'[d] = todo[d]
      BY <2>1, <2>2 DEF StopAhead
    <2>3. CASE todo'[d] # todo[d]
      <3>1. todo[d] # << >> /\ todo'[d] = Tail(todo[d]) /\ Removes(d)
        BY <1>1, <2>3 DEF TodoShrinks, Departures
      <3>2. /\ Len(todo[d]) \in Nat /\ Call(d) = todo[d][1]
            /\ \A j \in 2..Len(todo[d]) :
                  j - 1 \in DOMAIN Tail(todo[d]) /\ Tail(todo[d])[j-1] = todo[d][j]
        BY <1>3, <3>1, ShorterScript DEF Call
      <3>3. i \in 1..Len(todo[d])
        BY <1>3, <2>1, LenProperties
      <3>4. i # 1
        BY <1>2, <2>1, <3>1, <3>2 DEF Removes, Destroy, Next_
      <3>5. i \in 2..Len(todo[d])
        BY <3>2, <3>3, <3>4
      <3>6. i - 1 \in DOMAIN todo'[d] /\ todo'[d][i-1].op = "Stop"
        BY <2>1, <3>1, <3>2, <3>5
      <3>7. QED
        BY <3>6 DEF StopAhead
    <2>4. QED
      BY <2>2, <2>3
  <1>5. CASE \E c \in Clients : Final(c)
    <2>1. PICK c \in Clients : Final(c)
      BY <1>5
    <2>2. CASE todo'[c] = todo[c]
      BY <1>4, <2>1, <2>2 DEF ClosingInv, Final
    <2>3. CASE todo'[c] # todo[c]
      <3>1. todo[c] # << >> /\ todo'[c] = Tail(todo[c]) /\ Removes(c)
        BY <1>1, <2>3 DEF TodoShrinks, Departures
      <3>2. PICK n : n = Len(todo[c])
        OBVIOUS
      <3>3. /\ n \in Nat /\ 1 <= n /\ Call(c) = todo[c][1]
            /\ Len(todo'[c]) = n - 1 /\ (todo'[c] = << >> <=> n = 1)
            /\ \A j \in 2..n : todo'[c][j-1] = todo[c][j]
        BY <1>3, <3>1, <3>2, ShorterScript DEF Call
      <3>4. todo[c][n].op = "Destroy"
        BY <2>1, <3>2 DEF Final
      <3>5. CASE n # 1
        <4>1. n \in 2..n
          BY <3>3, <3>5
        <4>2. todo'[c] # << >> /\ todo'[c][n-1].op = "Destroy"
          BY <3>3, <3>4, <3>5, <4>1
        <4>3. Final(c)'
          BY <3>3, <4>2 DEF Final
        <4>4. QED
          BY <1>4, <4>3 DEF ClosingInv
      <3>6. CASE n = 1
        <4>1. Destroy(c)
          BY <3>1, <3>3, <3>4, <3>6 DEF Removes
        <4>2. \A b \in Clients : b # c => todo[b] = << >>
          BY <4>1 DEF Destroy
        <4>3. \A b \in Clients : todo'[b] = << >>
          BY <1>1, <3>3, <3>6, <4>2 DEF TodoShrinks
        <4>4. ~StopAhead
          <5>1. SUFFICES ASSUME NEW d \in Clients, NEW i \in DOMAIN todo[d],
                                todo[d][i].op = "Stop"
                         PROVE  FALSE
            BY DEF StopAhead
          <5>2. d = c
            BY <4>2, <5>1
          <5>3. i \in 1..n
            BY <1>3, <3>2, <5>1, <5>2, LenProperties
          <5>4. i = 1
            BY <3>6, <5>3
          <5>5. QED
            BY <3>4, <3>6, <5>1, <5>2, <5>4
        <4>5. submitted' = finished' \cup discarded'
          BY <4>1, <4>4, LastDestroy DEF ClosingInv
        <4>6. QED
          BY <1>4, <4>3, <4>5 DEF ClosingInv
      <3>7. QED
        BY <3>5, <3>6
    <2>4. QED
      BY <2>2, <2>3
  <1>6. CASE ~\E c \in Clients : Final(c)
    <2>1. (\A c \in Clients : todo[c] = << >>) /\ submitted = finished \cup discarded
      BY <1>6 DEF ClosingInv
    <2>2. Joined
      BY <2>1 DEF ClosingInv, StopAhead
    <2>3. UNCHANGED history
      BY <2>1, <2>2, NothingLeft
    <2>4. \A c \in Clients : todo'[c] = << >>
      BY <1>1, <2>1 DEF TodoShrinks
    <2>5. QED
      BY <1>4, <2>1, <2>3, <2>4 DEF ClosingInv, history
  <1>7. QED
    BY <1>5, <1>6

\* Clients that stop the pool and then destroy it, one of them with its last
\* call, leave nothing behind: when all their calls have returned, each routine
\* that was submitted, at whatever moment of Stop, has run or was discarded by
\* the destructor.
THEOREM NothingIsLeaked == Spec /\ Orderly => []NothingLeaks
  <1>1. Init /\ Orderly => ClosingInv
    BY DEF Orderly, ClosingInv
  <1>2. Inv /\ ClosingInv /\ [Next]_vars => ClosingInv'
    <2>1. SUFFICES ASSUME Inv, ClosingInv, UNCHANGED vars PROVE ClosingInv'
      BY ClosingStep
    <2>2. /\ UNCHANGED <<pc, todo>>
          /\ UNCHANGED <<submitted, finished, discarded>>
      BY <2>1 DEF vars, history
    <2>3. QED
      BY <2>1, <2>2 DEF ClosingInv, StopAhead, Final, Joined
  <1>3. ClosingInv => NothingLeaks
    BY DEF ClosingInv, NothingLeaks, Final
  <1>4. QED
    BY <1>1, <1>2, <1>3, Places, PTL DEF Spec
=============================================================================
