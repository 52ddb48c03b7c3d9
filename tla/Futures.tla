------------------------------ MODULE Futures ------------------------------
(***************************************************************************)
(* Futures: a contract is a FutureValue that a Future and a Promise own.   *)
(* The value of the Promise meets the callback of the Future in one word,  *)
(* and whoever comes second submits the callback to an executor.  A        *)
(* callback may set the Promise of the next contract (Then, Recover), or   *)
(* that of a group of contracts (All, FirstOf).                            *)
(*                                                                         *)
(* Clients make the calls of a program; the executor's workers run the     *)
(* routines, among them the callbacks, in any order.  A step is one access *)
(* to memory that threads share.  The load and the compare_exchange loop   *)
(* on callback are an exchange: nothing else depends on the value loaded.  *)
(***************************************************************************)
EXTENDS Integers, Sequences, FiniteSets, SequencesExt

CONSTANTS Contracts, Clients, Workers,
          Programs,            \* the calls each client makes, in order
          Null, kValueIsSet,
          Value, Exception,    \* what a Result holds,
          Moved,               \*   or nothing any more
          None

Actors == Clients \cup Workers
Results == {Value, Exception}
Attaching == {"Then", "Recover", "Subscribe", "All", "FirstOf"}

\* A call uses up the futures of the contracts at, and may make one, to.
Calls == [op : Attaching \cup {"Execute", "GetResult", "Drop"},
          at : Seq(Contracts), to : Contracts \cup {Null}]
Callbacks == [op : Attaching, to : Contracts \cup {Null}]
Tasks == [op : Attaching \cup {"Execute"}, to : Contracts \cup {Null},
          from : Contracts \cup {Null}, result : Results \cup {Null}]

ASSUME FuturesAssumption ==
    /\ Clients \cap Workers = {}
    /\ Programs \subseteq [Clients -> Seq(Calls)]
    /\ Null \notin Contracts \cup Results /\ kValueIsSet # Null
    /\ {Null, kValueIsSet} \cap Callbacks = {} /\ Value # Exception
    /\ {Moved, None} \cap Results = {} /\ Moved # None /\ Null \notin {Moved, None}

\* How many futures a call uses, and whether it makes one.  FirstOf has at most
\* two, since of three the second may take itself for the first, too (Compare).
WellFormed(call) ==
    /\ call.to = Null <=> call.op \in {"Subscribe", "GetResult", "Drop"}
    /\ call.at = << >> <=> call.op = "Execute"
    /\ call.op \notin {"All", "FirstOf"} => Len(call.at) <= 1
    /\ call.op = "FirstOf" => Len(call.at) <= 2
    /\ IsInjective(call.at)

\* A Future is moved into the call that uses it, by the client that has made it.
ASSUME ProgramAssumption ==
    \A p \in Programs : \A t \in Clients : \A i \in DOMAIN p[t] :
        /\ WellFormed(p[t][i])
        /\ \A c \in Range(p[t][i].at) : \E j \in 1..(i - 1) : p[t][j].to = c
        /\ p[t][i].to # Null => \E j \in DOMAIN p[t] : p[t][i].to \in Range(p[t][j].at)
        /\ \A u \in Clients : \A j \in DOMAIN p[u] :
              \/ t = u /\ i = j
              \/ /\ Range(p[t][i].at) \cap Range(p[u][j].at) = {}
                 /\ p[t][i].to = p[u][j].to => p[t][i].to = Null

VARIABLES
    callback, value, owners_count,   \* FutureValue
    group,         \* by contract: the call that made it, and the count of its
                   \*   VectorPromise or FirstOfPromise
    slots,         \* promise_value: what All has got from a contract
    tasks,         \* routines in the executor, in any order
    stopped,       \* it runs no more of them
    pc,
    todo, rest,    \* a client's calls, and contracts left in the current one
    job,           \* the routine a worker runs,
    old_callback, old_count,   \*   and its locals
    taken          \* history: the results that left their contracts

contract == <<callback, value, owners_count>>
groups == <<group, slots>>
executor == <<tasks, stopped>>
client == <<todo, rest>>
worker == <<job, old_callback, old_count>>
vars == <<contract, groups, executor, client, worker, pc, taken>>

NoCall == [op |-> "Execute", at |-> << >>, to |-> Null]
NoTask == [op |-> "Execute", to |-> Null, from |-> Null, result |-> Null]

Init == /\ callback = [c \in Contracts |-> Null]
        /\ value = [c \in Contracts |-> Null]
        /\ owners_count = [c \in Contracts |-> 0]
        /\ group = [c \in Contracts |-> [call |-> NoCall, count |-> 0, deleted |-> FALSE]]
        /\ slots = [c \in Contracts |-> Null]
        /\ tasks = << >>
        /\ stopped = FALSE
        /\ pc = [a \in Actors |-> "idle"]
        /\ todo \in Programs
        /\ rest = [t \in Clients |-> << >>]
        /\ job = [w \in Workers |-> NoTask]
        /\ old_callback = [w \in Workers |-> Null]
        /\ old_count = [w \in Workers |-> 0]
        /\ taken = [c \in Contracts |-> None]

Goto(a, from, to) == pc[a] = from /\ pc' = [pc EXCEPT ![a] = to]
Call(t) == Head(todo[t])
Next_(t, ops) == todo[t] # << >> /\ Call(t).op \in ops

\* A FutureValue has two owners from the start; to is Null if there is none.
Make(c) == owners_count' = [d \in Contracts |-> IF d = c THEN 2 ELSE owners_count[d]]

\* Variant: an object that was moved from gives up its value, too.
Destroy_Twice(c) == owners_count' = [owners_count EXCEPT ![c] = @ - 2]

\* FutureValue::Destroy
Destroy(c) == owners_count' = [owners_count EXCEPT ![c] = @ - 1]

\* Executors::Execute: the value of c is moved into a routine that invokes f.
Submit(f, c) ==
    /\ tasks' = Append(tasks, [op |-> f.op, to |-> f.to, from |-> c,
                               result |-> value[c]])
    /\ value' = [value EXCEPT ![c] = Moved]
    /\ taken' = [taken EXCEPT ![c] = value[c]]

------------------------------------------------------------------------------
\* Futures::Execute: a contract whose Promise goes into a routine.
Execute(t) ==
    /\ Next_(t, {"Execute"})
    /\ Goto(t, "idle", "idle")
    /\ Make(Call(t).to)
    /\ tasks' = Append(tasks, [NoTask EXCEPT !.to = Call(t).to])
    /\ todo' = [todo EXCEPT ![t] = Tail(@)]
    /\ UNCHANGED <<callback, value, groups, stopped, rest, worker, taken>>

\* Then, Recover, Subscribe, All and FirstOf make their contract, if any, and
\* subscribe to their futures one by one.
Attach(t) ==
    /\ Next_(t, Attaching)
    /\ Goto(t, "idle", "subscribe")
    /\ Make(Call(t).to)
    /\ group' = [c \in Contracts |->
                    IF c # Call(t).to THEN group[c]
                    ELSE [call |-> Call(t), count |-> Len(Call(t).at),
                          deleted |-> FALSE]]
    /\ rest' = [rest EXCEPT ![t] = Call(t).at]
    /\ UNCHANGED <<callback, value, slots, executor, todo, worker, taken>>

\* The next future of the call; after the last one the futures are destroyed.
Subscribed(t) ==
    /\ pc' = [pc EXCEPT ![t] = IF Len(rest[t]) > 1 THEN "subscribe" ELSE "drop"]
    /\ rest' = [rest EXCEPT ![t] = IF Len(rest[t]) > 1 THEN Tail(@) ELSE Call(t).at]

\* Variant: the callback is stored only if there is no value yet.
SetCallback_Lost(t) ==
    LET c == Head(rest[t])
    IN  /\ pc[t] = "subscribe"
        /\ callback' = [callback EXCEPT ![c] = IF @ = Null
                           THEN [op |-> Call(t).op, to |-> Call(t).to] ELSE @]
        /\ Subscribed(t)
        /\ UNCHANGED <<value, owners_count, groups, executor, todo, worker, taken>>

\* Future::SetCallback: the exchange, which may find the value set.
SetCallback(t) ==
    LET c == Head(rest[t])
    IN  /\ pc[t] = "subscribe"
        /\ callback' = [callback EXCEPT ![c] = [op |-> Call(t).op, to |-> Call(t).to]]
        /\ IF callback[c] = kValueIsSet
           THEN pc' = [pc EXCEPT ![t] = "submit"] /\ UNCHANGED rest
           ELSE Subscribed(t)
        /\ UNCHANGED <<value, owners_count, groups, executor, todo, worker, taken>>

SubmitCallback(t) ==
    /\ pc[t] = "submit"
    /\ Submit(Call(t), Head(rest[t]))
    /\ Subscribed(t)
    /\ UNCHANGED <<callback, owners_count, groups, stopped, todo, worker>>

\* ~Future, for every future of the call.
DropFuture(t) ==
    /\ Goto(t, "drop", IF Len(rest[t]) > 1 THEN "drop" ELSE "idle")
    /\ Destroy(Head(rest[t]))
    /\ rest' = [rest EXCEPT ![t] = Tail(@)]
    /\ todo' = IF Len(rest[t]) > 1 THEN todo ELSE [todo EXCEPT ![t] = Tail(@)]
    /\ UNCHANGED <<callback, value, groups, executor, worker, taken>>

\* GetResult waits for the callback word to change; an unused future is just
\* destroyed.
GetResult(t) ==
    /\ Next_(t, {"GetResult", "Drop"})
    /\ Goto(t, "idle", IF Call(t).op = "Drop" THEN "drop" ELSE "wait")
    /\ rest' = [rest EXCEPT ![t] = Call(t).at]
    /\ UNCHANGED <<contract, groups, executor, todo, worker, taken>>

\* Variant: the value is read without waiting for it.
Wait_Not(t) ==
    /\ Goto(t, "wait", "read")
    /\ UNCHANGED <<contract, groups, executor, client, worker, taken>>

Wait(t) ==
    /\ Goto(t, "wait", IF callback[Head(rest[t])] = Null THEN "asleep" ELSE "read")
    /\ UNCHANGED <<contract, groups, executor, client, worker, taken>>

Read(t) ==
    LET c == Head(rest[t])
    IN  /\ Goto(t, "read", "drop")
        /\ value' = [value EXCEPT ![c] = Moved]
        /\ taken' = [taken EXCEPT ![c] = value[c]]
        /\ UNCHANGED <<callback, owners_count, groups, executor, client, worker>>

------------------------------------------------------------------------------
\* A worker takes a routine and runs it.
Take(w) ==
    /\ Goto(w, "idle", "run")
    /\ ~stopped
    /\ \E i \in DOMAIN tasks :
          /\ job' = [job EXCEPT ![w] = tasks[i]]
          /\ tasks' = RemoveAt(tasks, i)
    /\ UNCHANGED <<contract, groups, stopped, client, old_callback, old_count, taken>>

\* The results that a functor, or its being skipped, can lead to.
Outcomes(j) == CASE j.op = "Then" /\ j.result = Exception -> {Exception}
                 [] j.op = "Recover" /\ j.result = Value -> {Value}
                 [] OTHER -> Results

\* The functor of Futures::Execute, ThenCallback or RecoverCallback.
Run(w) ==
    /\ Goto(w, "run", "set")
    /\ job[w].op \in {"Execute", "Then", "Recover"}
    /\ \E r \in Outcomes(job[w]) : job' = [job EXCEPT ![w].result = r]
    /\ UNCHANGED <<contract, groups, executor, client, old_callback, old_count, taken>>

\* SubscribeCallback; its functor does not throw.
RunSubscriber(w) ==
    /\ Goto(w, "run", "idle")
    /\ job[w].op = "Subscribe"
    /\ job' = [job EXCEPT ![w] = NoTask]
    /\ UNCHANGED <<contract, groups, executor, client, old_callback, old_count, taken>>

\* Variant: the last but one takes itself for the last.
RunAll_OffByOne(w) ==
    LET d == job[w].to
        count == group[d].count - 1
        got == {slots'[c] : c \in Range(group[d].call.at)}
    IN  /\ job[w].op = "All"
        /\ Goto(w, "run", IF count = 1 THEN "set" ELSE "idle")
        /\ slots' = [slots EXCEPT ![job[w].from] = job[w].result]
        /\ group' = [group EXCEPT ![d].count = count]
        /\ job' = [job EXCEPT ![w] =
               IF count # 1 THEN NoTask
               ELSE [@ EXCEPT !.result = IF Exception \in got THEN Exception ELSE Value]]
        /\ UNCHANGED <<contract, executor, client, old_callback, old_count, taken>>

\* The callback of All: its result goes to its place in promise_value, and the
\* last one sets the Promise.
RunAll(w) ==
    LET d == job[w].to
        count == group[d].count
        got == {slots'[c] : c \in Range(group[d].call.at)}
    IN  /\ job[w].op = "All"
        /\ Goto(w, "run", IF count = 1 THEN "set" ELSE "idle")
        /\ slots' = [slots EXCEPT ![job[w].from] = job[w].result]
        /\ group' = [group EXCEPT ![d].count = count - 1]
        /\ job' = [job EXCEPT ![w] =
               IF count # 1 THEN NoTask
               ELSE [@ EXCEPT !.result = IF Exception \in got THEN Exception ELSE Value]]
        /\ UNCHANGED <<contract, executor, client, old_callback, old_count, taken>>

\* The callback of FirstOf: fetch_sub, then the comparison with futures_count,
\* which may have been deleted by then and hold anything.
RunFirstOf(w) ==
    LET d == job[w].to
    IN  /\ Goto(w, "run", "compare")
        /\ job[w].op = "FirstOf"
        /\ old_count' = [old_count EXCEPT ![w] = group[d].count]
        /\ group' = [group EXCEPT ![d].count = @ - 1]
        /\ UNCHANGED <<contract, slots, executor, client, job, old_callback, taken>>

Compare(w) ==
    LET d == job[w].to
    IN  /\ pc[w] = "compare"
        /\ \E first \in IF group[d].deleted THEN BOOLEAN
                                            ELSE {old_count[w] = Len(group[d].call.at)} :
              /\ pc' = [pc EXCEPT ![w] = IF first THEN "set" ELSE "idle"]
              /\ job' = IF first THEN job ELSE [job EXCEPT ![w] = NoTask]
              /\ group' = [group EXCEPT ![d].deleted = @ \/ (~first /\ old_count[w] = 1)]
        /\ UNCHANGED <<contract, slots, executor, client, old_callback, old_count,
                       taken>>

------------------------------------------------------------------------------
\* Promise::Set: the value, the exchange, and the callback if there was one.
SetValue(w) ==
    /\ Goto(w, "set", "exchange")
    /\ value' = [value EXCEPT ![job[w].to] = job[w].result]
    /\ UNCHANGED <<callback, owners_count, groups, executor, client, worker, taken>>

Exchange(w) ==
    LET d == job[w].to
    IN  /\ Goto(w, "exchange", IF callback[d] = Null THEN "notify" ELSE "invoke")
        /\ callback' = [callback EXCEPT ![d] = kValueIsSet]
        /\ old_callback' = [old_callback EXCEPT ![w] = callback[d]]
        /\ UNCHANGED <<value, owners_count, groups, executor, client, job,
                       old_count, taken>>

Invoke(w) ==
    /\ Goto(w, "invoke", "drop")
    /\ Submit(old_callback[w], job[w].to)
    /\ UNCHANGED <<callback, owners_count, groups, stopped, client, worker>>

\* callback.notify_one(), for GetResult.
Notify(w) ==
    /\ pc[w] = "notify"
    /\ pc' = [a \in Actors |->
                 IF a = w THEN "drop"
                 ELSE IF pc[a] = "asleep" /\ Head(rest[a]) = job[w].to THEN "wait"
                 ELSE pc[a]]
    /\ UNCHANGED <<contract, groups, executor, client, worker, taken>>

\* ~Promise, when the routine or the callback that holds it is deleted; the
\* last callback of All deletes the group with it.
DropPromise(w) ==
    LET d == job[w].to
    IN  /\ Goto(w, "drop", "idle")
        /\ Destroy(d)
        /\ group' = [group EXCEPT ![d].deleted = @ \/ job[w].op = "All"]
        /\ job' = [job EXCEPT ![w] = NoTask]
        /\ UNCHANGED <<callback, value, slots, executor, client, old_callback,
                       old_count, taken>>

------------------------------------------------------------------------------
\* The executor stops, as ThreadPool::Stop does, and discards what it has: the
\* routine of Futures::Execute destroys its Promise, the one that was to
\* invoke a callback just forgets it.
Stop == /\ ~stopped
        /\ stopped' = TRUE
        /\ UNCHANGED <<contract, groups, tasks, client, worker, pc, taken>>

Discard ==
    /\ stopped
    /\ \A w \in Workers : pc[w] = "idle"
    /\ \E i \in DOMAIN tasks :
          /\ tasks' = RemoveAt(tasks, i)
          /\ IF tasks[i].op = "Execute" THEN Destroy(tasks[i].to)
                                        ELSE UNCHANGED owners_count
    /\ UNCHANGED <<callback, value, groups, stopped, client, worker, pc, taken>>

ClientStep(t) == \/ Execute(t) \/ Attach(t) \/ SetCallback(t) \/ SubmitCallback(t)
                 \/ DropFuture(t) \/ GetResult(t) \/ Wait(t) \/ Read(t)
WorkerStep(w) == \/ Take(w) \/ Run(w) \/ RunSubscriber(w)
                 \/ RunAll(w) \/ RunFirstOf(w) \/ Compare(w)
                 \/ SetValue(w) \/ Exchange(w) \/ Invoke(w) \/ Notify(w)
                 \/ DropPromise(w)

Next == \/ \E t \in Clients : ClientStep(t)
        \/ \E w \in Workers : WorkerStep(w)
        \/ Stop \/ Discard

Spec == Init /\ [][Next]_vars

\* Threads keep running, and functors return.
FairSpec == /\ Spec
            /\ \A t \in Clients : WF_vars(ClientStep(t))
            /\ \A w \in Workers : WF_vars(WorkerStep(w))

------------------------------------------------------------------------------
TypeOK ==
    /\ callback \in [Contracts -> {Null, kValueIsSet} \cup Callbacks]
    /\ value \in [Contracts -> Results \cup {Null, Moved}]
    /\ owners_count \in [Contracts -> 0..2]
    /\ group \in [Contracts -> [call : Calls, count : Nat, deleted : BOOLEAN]]
    /\ slots \in [Contracts -> Results \cup {Null}]
    /\ tasks \in Seq(Tasks)
    /\ stopped \in BOOLEAN
    /\ pc \in [Actors -> {"idle", "subscribe", "submit", "drop", "wait", "asleep",
                          "read", "run", "compare", "set", "exchange", "invoke",
                          "notify"}]
    /\ todo \in [Clients -> Seq(Calls)]
    /\ rest \in [Clients -> Seq(Contracts)]
    /\ job \in [Workers -> Tasks]
    /\ old_callback \in [Workers -> {Null, kValueIsSet} \cup Callbacks]
    /\ old_count \in [Workers -> Nat]
    /\ taken \in [Contracts -> Results \cup {None}]

\* A contract hands its result on once, to its callback or to GetResult, and
\* only when it is there, whichever of Promise and Future comes first.
Sent == [c \in Contracts |-> IF value[c] = Moved THEN taken[c]
                             ELSE IF value[c] = Null THEN None ELSE value[c]]
Contract == INSTANCE OneShot WITH sent <- Sent
ImplementsOneShot == Contract!Spec

\* A FutureValue is deleted by the second of its two owners: nobody uses one that
\* has been, nor the group of an All that has set its Promise, and when everybody
\* is done every one has been, unless it is or waits for that of a FirstOf that
\* nobody has set (see FirstOfDelivers).
Quiescent == /\ \A t \in Clients : pc[t] = "idle" /\ todo[t] = << >>
             /\ \A w \in Workers : pc[w] = "idle"
             /\ tasks = << >>
OnlyLiveValues ==
    /\ \A t \in Clients : pc[t] # "idle" =>
          \A c \in Range(rest[t]) : owners_count[c] > 0
    /\ \A w \in Workers :
          /\ pc[w] \in {"set", "exchange", "invoke", "notify", "drop"}
                => owners_count[job[w].to] > 0
          /\ pc[w] = "run" /\ job[w].op = "All" => ~group[job[w].to].deleted
NothingLeaks ==
    Quiescent /\ ~stopped =>
        \A d \in Contracts :
            \/ owners_count[d] = 0
            \/ group[d].call.op = "FirstOf"
            \/ \E c \in Range(group[d].call.at) : owners_count[c] # 0
ValuesReclaimed == OnlyLiveValues /\ NothingLeaks

\* The result of a contract follows from those it was made of: an exception
\* passes Then and is caught by Recover only, All waits for all of its inputs
\* and has an exception if one of them has, FirstOf passes one of them on.
ResultsFollow ==
    \A d \in Contracts :
        LET made == group[d].call
            inputs == {taken[c] : c \in Range(made.at)}
        IN  made.op # "Execute" /\ Sent[d] # None =>
                CASE made.op = "Then" -> inputs = {Exception} => Sent[d] = Exception
                  [] made.op = "Recover" -> inputs = {Value} => Sent[d] = Value
                  [] made.op = "All" ->
                        /\ None \notin inputs
                        /\ Sent[d] = Exception <=> Exception \in inputs
                  [] made.op = "FirstOf" -> Sent[d] \in inputs

\* What the future of c was given to has happened: its result has been handed to
\* GetResult or to the callback, and no step of that is left to do.
HandedOn(c) == /\ taken[c] # None
               /\ \A t \in Clients : c \notin Range(rest[t])
               /\ \A i \in DOMAIN tasks : tasks[i].from # c
               /\ \A w \in Workers : job[w].from # c

\* There is no result to hand on: a FirstOf has lost it (see FirstOfDelivers).
Undelivered(c) == /\ group[c].call.op = "FirstOf"
                  /\ group[c].deleted
                  /\ value[c] = Null

\* Every future that is waited for, or given a callback, gets its result: the
\* GetResult returns, the callback runs to its end and Then, Recover, All and
\* FirstOf so set their Promise in turn.  But for a FirstOf that has lost its
\* results, and for an executor that stops.
EverythingSettles ==
    \A p \in Programs : todo = p =>
        <>[](\/ stopped
             \/ \A t \in Clients : \A i \in DOMAIN p[t] : p[t][i].op # "Drop" =>
                   \A c \in Range(p[t][i].at) : HandedOn(c) \/ Undelivered(c))

\* "nonblocking wait for the first result of several futures"
FirstOfDelivers ==
    Quiescent /\ ~stopped =>
        \A d \in Contracts : group[d].call.op = "FirstOf" => Sent[d] # None
=============================================================================
