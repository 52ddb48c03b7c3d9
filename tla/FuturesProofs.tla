--------------------------- MODULE FuturesProofs ---------------------------
(***************************************************************************)
(* Proofs about futures, for any number of clients, workers and contracts  *)
(* and any programs in which a future is used once.                        *)
(*                                                                         *)
(* The Promise of a contract belongs to one worker at a time because the   *)
(* work that leads to it does: value tells what has become of a contract,  *)
(* and once it is Moved there is one routine, queued or run, that has the  *)
(* result.  A group is set by the routine that is the last of its inputs   *)
(* (for FirstOf, the first) to be counted.                                 *)
(***************************************************************************)
EXTENDS Futures, SequenceFacts, FiniteSetTheorems

\* A call of a client has begun.
Begun(t, i) == i = 1 /\ pc[t] # "idle"
Uses(t, i, c) == i \in DOMAIN todo[t] /\ c \in Range(todo[t][i].at)

\* The contracts that a client is still to make, those whose future it has, those
\* of them that have not met their promise, and the one that has found it set.
Makes(t, c) == \E i \in DOMAIN todo[t] : todo[t][i].to = c /\ ~Begun(t, i)
KeepsIn(calls, label, left, c) ==
    \E i \in DOMAIN calls :
        c \in Range(calls[i].at) /\ (i = 1 /\ label = "drop" => c \in Range(left))
Unmet(label, left, c) == \/ label \in {"idle", "wait", "asleep", "read"}
                         \/ label = "subscribe" /\ c \in Range(left)
                         \/ label = "submit" /\ c \in Range(Tail(left))
AwaitsIn(calls, label, left, c) ==
    \E i \in DOMAIN calls : c \in Range(calls[i].at) /\ (i = 1 => Unmet(label, left, c))
Keeps(t, c) == KeepsIn(todo[t], pc[t], rest[t], c)
Awaits(t, c) == AwaitsIn(todo[t], pc[t], rest[t], c)
Submits(t, c) == pc[t] = "submit" /\ Head(rest[t]) = c

Unmade == {c \in Contracts : \E t \in Clients : Makes(t, c)}
Owned == {c \in Contracts : c \notin Unmade /\ \E t \in Clients : Keeps(t, c)}
Unsubscribed == {c \in Contracts : \E t \in Clients : Awaits(t, c)}
Submitting == {c \in Contracts : \E t \in Clients : Submits(t, c)}

\* The routines: those in the executor and those that a worker runs.
Setting == {"set", "exchange", "invoke", "notify", "drop"}
Sets(w, d) == pc[w] \in Setting /\ job[w].to = d
InSetting == {d \in Contracts : \E w \in Workers : Sets(w, d)}
Pending == {c \in Contracts :
               \/ \E i \in DOMAIN tasks : tasks[i].from = c
               \/ \E w \in Workers : pc[w] = "run" /\ job[w].from = c}
Executed == {d \in Contracts :
                \/ \E i \in DOMAIN tasks : tasks[i].op = "Execute" /\ tasks[i].to = d
                \/ \E w \in Workers : pc[w] = "run" /\ job[w].op = "Execute" /\ job[w].to = d}
Active == ~stopped \/ \E w \in Workers : pc[w] # "idle"

\* The contracts that a group is made of, and those that it has not counted.
Made(d) == group[d].call
Inputs(d) == Range(Made(d).at)
Uncounted(d) == {c \in Inputs(d) : value[c] # Moved \/ c \in Pending}
Grouped == {d \in Contracts : Made(d).op # "Execute"}
Unset(d) == value[d] = Null /\ d \notin InSetting
Promised == {d \in Contracts : \/ d \in InSetting \/ d \in Executed
                               \/ d \in Grouped /\ value[d] = Null}

\* f is the callback of c, or the routine that invokes it.
Links(f, c) == /\ f.op \in Attaching
               /\ IF f.to = Null THEN f.op = "Subscribe" /\ \A d \in Contracts : c \notin Inputs(d)
                  ELSE Made(f.to).op = f.op /\ c \in Inputs(f.to)
IsTask(j) == IF j.from = Null THEN j.op = "Execute" /\ j.to \in Contracts \ (Grouped \cup Unmade)
             ELSE Links(j, j.from) /\ value[j.from] = Moved
SameWork(j, k) == j.from = k.from /\ (j.from = Null => j.to = k.to)

------------------------------------------------------------------------------
ProgramInv ==
    /\ \A t \in Clients : \A i \in DOMAIN todo[t] :
        /\ WellFormed(todo[t][i])
        /\ todo[t][i].to # Null =>
              \E j \in DOMAIN todo[t] : j > i /\ Uses(t, j, todo[t][i].to)
    /\ \A t, u \in Clients : \A i \in DOMAIN todo[t], j \in DOMAIN todo[u] :
        /\ t # u \/ i # j =>
              /\ Range(todo[t][i].at) \cap Range(todo[u][j].at) = {}
              /\ todo[t][i].to = todo[u][j].to => todo[t][i].to = Null
        /\ todo[u][j].to \in Range(todo[t][i].at) => t = u /\ j < i

ClientOK(t) ==
    /\ pc[t] \in {"idle", "subscribe", "submit", "drop", "wait", "asleep", "read"}
    /\ pc[t] # "idle" => /\ todo[t] # << >> /\ rest[t] # << >> /\ IsInjective(rest[t])
                         /\ Range(rest[t]) \subseteq Range(Call(t).at)
                         /\ Call(t).op # "Execute"
    /\ pc[t] \in {"subscribe", "submit"} => Call(t).op \in Attaching
    /\ pc[t] \in {"wait", "asleep", "read"} => rest[t] = Call(t).at /\ Call(t).op = "GetResult"
    /\ pc[t] # "idle" /\ Call(t).to # Null => Made(Call(t).to) = Call(t)
ClientInv == \A t \in Clients : ClientOK(t)

WorkerOK(w) ==
    /\ pc[w] \in {"idle", "run", "compare"} \cup Setting
    /\ pc[w] \in Setting => job[w].to # Null
    /\ pc[w] \in {"set", "exchange", "invoke"} => job[w].result \in Results
    /\ pc[w] = "compare" => job[w].op = "FirstOf"
WorkerInv == \A w \in Workers : WorkerOK(w)

\* The routines, of which no two are the same.
WorkInv ==
    /\ \A i \in DOMAIN tasks : /\ IsTask(tasks[i])
                               /\ tasks[i].from # Null => tasks[i].result = taken[tasks[i].from]
    /\ \A w \in Workers : pc[w] # "idle" =>
          /\ IsTask(job[w])
          /\ pc[w] \in {"run", "compare"} /\ job[w].from # Null => job[w].result = taken[job[w].from]
OnceInv ==
    /\ \A i, j \in DOMAIN tasks : SameWork(tasks[i], tasks[j]) => i = j
    /\ \A w \in Workers : pc[w] # "idle" => \A i \in DOMAIN tasks : ~SameWork(tasks[i], job[w])
    /\ \A w, v \in Workers :
          pc[w] # "idle" /\ pc[v] # "idle" /\ SameWork(job[w], job[v]) => w = v
SetterInv == \A w, v \in Workers, d \in Contracts : Sets(w, d) /\ Sets(v, d) => w = v

GroupInv ==
    \A d \in Contracts :
        /\ d \notin Grouped => Made(d) = NoCall
        /\ d \in Grouped => /\ Made(d).op \in Attaching /\ Made(d).to = d
                            /\ WellFormed(Made(d)) /\ d \notin Unmade
        /\ \A c \in Inputs(d) :
              /\ c \notin Unmade
              /\ \A e \in Contracts : c \in Inputs(e) => e = d
              /\ \A t \in Clients : \A i \in DOMAIN todo[t] :
                    Uses(t, i, c) => Begun(t, i) /\ Call(t).to = d

\* What a client and a worker know of the contract that they are at.
ContractInv ==
    \A c \in Contracts :
        /\ taken[c] # None <=> value[c] = Moved
        /\ callback[c] = kValueIsSet => value[c] # Null
        /\ callback[c] \notin {Null, kValueIsSet} => Links(callback[c], c)
        /\ c \in Unsubscribed => callback[c] \in {Null, kValueIsSet} /\ value[c] # Moved
        /\ c \in Submitting => value[c] \in Results /\ callback[c] \notin {Null, kValueIsSet}
        /\ c \in Unmade => value[c] = Null /\ c \notin InSetting
MeetInv ==
    /\ \A t \in Clients : pc[t] = "read" => callback[Head(rest[t])] = kValueIsSet
    /\ \A w \in Workers :
        LET d == job[w].to
        IN  /\ pc[w] = "set" => value[d] = Null
            /\ pc[w] = "exchange" => value[d] \in Results /\ callback[d] # kValueIsSet
            /\ pc[w] = "invoke" => /\ value[d] \in Results /\ callback[d] = kValueIsSet
                                   /\ d \notin Unsubscribed
                                   /\ old_callback[w] \in Callbacks /\ Links(old_callback[w], d)
            /\ pc[w] \in {"notify", "drop"} => value[d] # Null
            /\ pc[w] \in {"set", "exchange", "invoke"} => d \notin Submitting

\* Who is an owner.
OwnersInv ==
    \A c \in Contracts :
        owners_count[c] = (IF c \in Owned THEN 1 ELSE 0) + (IF c \in Promised THEN 1 ELSE 0)

\* A group counts its inputs; its promise is not set before.
CountInv ==
    Active => \A d \in Contracts :
        /\ Made(d).op \in {"All", "FirstOf"} => group[d].count = Cardinality(Uncounted(d))
        /\ group[d].deleted /\ d \in Grouped => Uncounted(d) = {}
First(d) ==
    /\ Made(d).op = "FirstOf"
    /\ \/ Uncounted(d) = Inputs(d)
       \/ \E w \in Workers : /\ pc[w] = "compare" /\ job[w].to = d
                             /\ old_count[w] = Len(Made(d).at)
Leads(d) == \/ d \in Executed
            \/ Made(d).op \in {"Then", "Recover", "All"} /\ Uncounted(d) # {}
            \/ First(d)
UnsetInv == Active => \A d \in Contracts : Leads(d) => Unset(d)
CompareInv ==
    \A w \in Workers : pc[w] = "compare" =>
        LET d == job[w].to
        IN  /\ old_count[w] \in 1..Len(Made(d).at)
            /\ old_count[w] > group[d].count
            /\ group[d].deleted => old_count[w] # 1
            /\ \A v \in Workers :
                  pc[v] = "compare" /\ job[v].to = d /\ old_count[v] = old_count[w] => v = w

\* What the contracts hold.
Follows(d, r) ==
    LET inputs == {taken[c] : c \in Inputs(d)}
    IN  /\ Made(d).op \in {"Then", "Recover", "All"} => None \notin inputs
        /\ Made(d).op = "Then" /\ inputs = {Exception} => r = Exception
        /\ Made(d).op = "Recover" /\ inputs = {Value} => r = Value
        /\ Made(d).op = "All" => (r = Exception <=> Exception \in inputs)
        /\ Made(d).op = "FirstOf" => r \in inputs
FollowInv ==
    /\ \A w \in Workers : pc[w] = "set" => Follows(job[w].to, job[w].result)
    /\ \A d \in Contracts : value[d] # Null => Follows(d, Sent[d])
    /\ Active => \A d \in Contracts :
          Made(d).op = "All" => \A c \in Inputs(d) \ Uncounted(d) : slots[c] = taken[c]

\* Nothing is forgotten: a result that its callback has not got is on the way, and
\* so is that of a contract whose inputs are there.
At(label, c) == \E w \in Workers : pc[w] = label /\ job[w].to = c
DeliverInv ==
    /\ \A d \in Contracts : \A c \in Inputs(d) : c \notin Unsubscribed => callback[c] # Null
    /\ \A c \in Contracts : value[c] \in Results =>
          \/ c \in Submitting
          \/ At("exchange", c)
          \/ /\ callback[c] = kValueIsSet
             /\ \/ c \in Unsubscribed \/ At("invoke", c)
                \/ \A d \in Contracts : c \notin Inputs(d)
    /\ Active => \A d \in Contracts :
          /\ Made(d).op \in {"Then", "Recover", "All"} /\ Uncounted(d) = {} => ~Unset(d)
          /\ d \notin Grouped \cup Unmade /\ ~stopped /\ (d \in Owned \/ \E e \in Contracts : d \in Inputs(e))
                => d \in Executed \/ ~Unset(d)

Inv == TypeOK /\ ProgramInv /\ ClientInv /\ WorkerInv /\ WorkInv /\ OnceInv /\ SetterInv
       /\ GroupInv /\ ContractInv /\ MeetInv /\ OwnersInv /\ CountInv /\ UnsetInv /\ CompareInv
IInv == Inv /\ FollowInv /\ DeliverInv

------------------------------------------------------------------------------
\* What the names of the code stand for.
LEMMA Constants ==
    /\ Null \notin Contracts /\ Null \notin Results /\ Null # Moved /\ Null # None
    /\ kValueIsSet # Null /\ Null \notin Callbacks /\ kValueIsSet \notin Callbacks
    /\ Moved \notin Results /\ None \notin Results /\ Moved # None
    /\ Value \in Results /\ Exception \in Results /\ Value # Exception
    /\ \A r \in Results : r # Null /\ r # Moved /\ r # None /\ (r = Value \/ r = Exception)
    /\ Clients \subseteq Actors /\ Workers \subseteq Actors
    /\ \A t \in Clients, w \in Workers : t # w
    /\ \A a \in Actors : a \in Clients \/ a \in Workers
    /\ NoTask \in Tasks /\ NoCall \in Calls
  <1>1. NoTask \in Tasks
    BY DEF NoTask, Tasks, Attaching
  <1>2. << >> \in Seq(Contracts)
    OBVIOUS
  <1>3. NoCall \in Calls
    BY <1>2 DEF NoCall, Calls, Attaching
  <1>4. QED
    BY <1>1, <1>3, FuturesAssumption DEF Results, Actors

\* The call that a client makes, and the contract that it is at.
LEMMA CallFacts ==
    ASSUME TypeOK, ProgramInv, NEW t \in Clients, todo[t] # << >>
    PROVE  /\ 1 \in DOMAIN todo[t] /\ Call(t) = todo[t][1] /\ Call(t) \in Calls
           /\ WellFormed(Call(t)) /\ Call(t).at \in Seq(Contracts)
           /\ Call(t).to \in Contracts \cup {Null}
           /\ Call(t).op \in Attaching \cup {"Execute", "GetResult", "Drop"}
  <1>1. todo[t] \in Seq(Calls) /\ 1 \in DOMAIN todo[t] /\ todo[t][1] \in Calls
    BY EmptySeq, LenProperties, ElementOfSeq DEF TypeOK
  <1>2. Call(t) = todo[t][1]
    BY <1>1 DEF Call
  <1>3. QED
    BY <1>1, <1>2 DEF ProgramInv, Calls

LEMMA HeadFacts ==
    ASSUME TypeOK, ClientInv, NEW t \in Clients, pc[t] # "idle"
    PROVE  LET c == Head(rest[t])
           IN  /\ todo[t] # << >> /\ rest[t] \in Seq(Contracts) /\ rest[t] # << >>
               /\ c \in Contracts /\ c \in Range(rest[t]) /\ c \in Range(Call(t).at)
               /\ Tail(rest[t]) \in Seq(Contracts) /\ IsInjective(Tail(rest[t]))
               /\ Range(rest[t]) = {c} \cup Range(Tail(rest[t]))
               /\ c \notin Range(Tail(rest[t]))
               /\ Len(rest[t]) > 1 <=> Tail(rest[t]) # << >>
  <1>1. /\ todo[t] # << >> /\ rest[t] \in Seq(Contracts) /\ rest[t] # << >>
        /\ IsInjective(rest[t]) /\ Range(rest[t]) \subseteq Range(Call(t).at)
    BY DEF TypeOK, ClientInv, ClientOK
  <1>2. Len(rest[t]) \in Nat /\ Len(rest[t]) # 0
    BY <1>1, EmptySeq, LenProperties
  <1>3. Len(rest[t]) > 1 <=> Len(rest[t]) # 1
    <2>1. \A n \in Nat : n # 0 => (n > 1 <=> n # 1)
      OBVIOUS
    <2>2. QED
      BY <1>2, <2>1
  <1>4. /\ Head(rest[t]) \in Contracts /\ Tail(rest[t]) \in Seq(Contracts)
        /\ Tail(rest[t]) = << >> <=> Len(rest[t]) = 1
        /\ Range(rest[t]) = {Head(rest[t])} \cup Range(Tail(rest[t]))
        /\ IsInjective(Tail(rest[t])) /\ Head(rest[t]) \notin Range(Tail(rest[t]))
    BY <1>1, HeadTailFacts
  <1>5. QED
    BY <1>1, <1>3, <1>4

------------------------------------------------------------------------------
\* Steps in which the clients make no progress, and those in which the routines
\* stay where they are.
ClientsStay == /\ todo' = todo /\ rest' = rest
               /\ \A t \in Clients : \/ pc'[t] = pc[t]
                                     \/ {pc[t], pc'[t]} \subseteq {"wait", "asleep", "read"}
WorkersStay == tasks' = tasks /\ \A w \in Workers : pc'[w] = pc[w] /\ job'[w] = job[w]

LEMMA ClientViews ==
    ASSUME ClientsStay
    PROVE  /\ Unmade' = Unmade /\ Owned' = Owned
           /\ Unsubscribed' = Unsubscribed /\ Submitting' = Submitting
           /\ \A t \in Clients : \A i : Begun(t, i)' <=> Begun(t, i)
  <1>1. \A t \in Clients : \A i : Begun(t, i)' <=> Begun(t, i)
    BY DEF ClientsStay, Begun
  <1>2. \A t \in Clients : \A i, c : Uses(t, i, c)' <=> Uses(t, i, c)
    BY DEF ClientsStay, Uses
  <1>3. \A t \in Clients : /\ pc'[t] = "drop" <=> pc[t] = "drop"
                           /\ pc'[t] = "submit" <=> pc[t] = "submit"
                           /\ pc'[t] = "subscribe" <=> pc[t] = "subscribe"
                           /\ pc'[t] \in {"wait", "asleep", "read"}
                                 <=> pc[t] \in {"wait", "asleep", "read"}
    BY DEF ClientsStay
  <1>4. todo' = todo /\ rest' = rest
    BY DEF ClientsStay
  <1>5. Unmade' = Unmade
    BY <1>1, <1>4 DEF Unmade, Makes
  <1>6. Owned' = Owned
    <2>1. \A t \in Clients : \A c : Keeps(t, c)' <=> Keeps(t, c)
      BY <1>3, <1>4 DEF Keeps, KeepsIn
    <2>2. QED
      BY <1>5, <2>1 DEF Owned
  <1>7. Unsubscribed' = Unsubscribed
    <2>1. ASSUME NEW t \in Clients, NEW c PROVE Awaits(t, c)' <=> Awaits(t, c)
      <3>1. CASE pc'[t] = pc[t]
        BY <1>4, <3>1 DEF Awaits
      <3>2. CASE {pc[t], pc'[t]} \subseteq {"wait", "asleep", "read"}
        <4>1. Unmet(pc[t], rest[t], c) /\ Unmet(pc'[t], rest[t], c)
          BY <3>2 DEF Unmet
        <4>2. QED
          BY <1>4, <4>1 DEF Awaits, AwaitsIn
      <3>3. QED
        BY <3>1, <3>2 DEF ClientsStay
    <2>2. QED
      BY <2>1 DEF Unsubscribed
  <1>8. Submitting' = Submitting
    BY <1>3, <1>4 DEF Submitting, Submits
  <1>9. QED
    BY <1>1, <1>5, <1>6, <1>7, <1>8

LEMMA WorkerViews ==
    ASSUME WorkersStay
    PROVE  InSetting' = InSetting /\ Pending' = Pending /\ Executed' = Executed
  BY DEF WorkersStay, InSetting, Sets, Pending, Executed

\* A client that is done with a call: the others move up.
Finishes(t) == /\ todo[t] # << >> /\ todo' = [todo EXCEPT ![t] = Tail(@)]
               /\ pc'[t] = "idle"
OthersStay(t) == \A u \in Clients \ {t} :
                    pc'[u] = pc[u] /\ rest'[u] = rest[u] /\ todo'[u] = todo[u]
LEMMA Advance ==
    ASSUME TypeOK, NEW t \in Clients, Finishes(t)
    PROVE  /\ \A i \in DOMAIN todo'[t] : /\ i + 1 \in DOMAIN todo[t] \ {1} /\ i \in Nat
                                         /\ todo'[t][i] = todo[t][i + 1]
           /\ \A i \in DOMAIN todo[t] \ {1} : /\ i - 1 \in DOMAIN todo'[t] /\ i \in Nat
                                              /\ todo'[t][i - 1] = todo[t][i]
           /\ \A i : ~Begun(t, i)'
  <1> DEFINE s == todo[t]
  <1>1. s \in Seq(Calls) /\ s # << >> /\ todo'[t] = Tail(s) /\ pc'[t] = "idle"
    BY DEF TypeOK, Finishes
  <1> HIDE DEF s
  <1>2. /\ Len(s) \in Nat /\ DOMAIN s = 1..Len(s) /\ Tail(s) \in Seq(Calls)
        /\ Len(Tail(s)) = Len(s) - 1 /\ DOMAIN Tail(s) = 1..(Len(s) - 1)
    BY <1>1, EmptySeq, LenProperties, HeadTailProperties
  <1>3. \A i \in 1..(Len(s) - 1) : /\ i + 1 \in 1..Len(s) /\ i + 1 # 1 /\ i \in Nat
                                   /\ Tail(s)[i] = s[i + 1]
    BY <1>1, <1>2
  <1>4. \A i \in (1..Len(s)) \ {1} : i - 1 \in 1..(Len(s) - 1) /\ i \in Nat /\ (i - 1) + 1 = i
    BY <1>2
  <1>5. \A i \in (1..Len(s)) \ {1} : Tail(s)[i - 1] = s[i]
    BY <1>3, <1>4
  <1>6. QED
    BY <1>1, <1>2, <1>3, <1>4, <1>5 DEF s, Begun

LEMMA OthersViews ==
    ASSUME NEW t \in Clients, OthersStay(t)
    PROVE  \A u \in Clients \ {t} : \A c :
              /\ Makes(u, c)' <=> Makes(u, c)
              /\ Keeps(u, c)' <=> Keeps(u, c)
              /\ Awaits(u, c)' <=> Awaits(u, c)
              /\ Submits(u, c)' <=> Submits(u, c)
  BY DEF OthersStay, Makes, Keeps, Awaits, Submits, Uses, Begun

\* A contract is made by one call, and used by one.
LEMMA OneCall ==
    ASSUME ProgramInv, NEW t \in Clients, NEW i \in DOMAIN todo[t], NEW c \in Contracts,
           Null \notin Contracts
    PROVE  /\ todo[t][i].to = c => \A u \in Clients : \A j \in DOMAIN todo[u] :
                                       todo[u][j].to = c => u = t /\ j = i
           /\ Uses(t, i, c) => \A u \in Clients : \A j : Uses(u, j, c) => u = t /\ j = i
           /\ Uses(t, i, c) => \A u \in Clients : \A j \in DOMAIN todo[u] :
                                       todo[u][j].to = c => u = t /\ j < i
           /\ todo[t][i].to = c => \E j \in DOMAIN todo[t] : j > i /\ Uses(t, j, c)
  <1>1. ASSUME NEW u \in Clients, NEW j \in DOMAIN todo[u]
        PROVE  /\ t # u \/ i # j =>
                     /\ Range(todo[t][i].at) \cap Range(todo[u][j].at) = {}
                     /\ todo[t][i].to = todo[u][j].to => todo[t][i].to = Null
               /\ todo[u][j].to \in Range(todo[t][i].at) => t = u /\ j < i
    BY <1>1 DEF ProgramInv
  <1>2. todo[t][i].to = c => \E j \in DOMAIN todo[t] : j > i /\ Uses(t, j, c)
    BY DEF ProgramInv
  <1>3. QED
    BY <1>1, <1>2 DEF Uses

\* Execute makes a contract whose Promise is in a routine.
LEMMA ExecuteViews ==
    ASSUME TypeOK, ProgramInv, NEW t \in Clients, Execute(t)
    PROVE  LET d == Call(t).to
           IN  /\ d \in Unmade /\ Unmade' = Unmade \ {d} /\ Owned' = Owned \cup {d}
               /\ Unsubscribed' = Unsubscribed /\ Submitting' = Submitting
  <1> DEFINE d == Call(t).to
  <1>1. todo[t] # << >> /\ pc[t] = "idle" /\ Call(t).op = "Execute"
    BY DEF Execute, Next_, Goto
  <1>2. /\ 1 \in DOMAIN todo[t] /\ Call(t) = todo[t][1] /\ WellFormed(Call(t))
        /\ Call(t).to \in Contracts \cup {Null}
    BY <1>1, CallFacts
  <1>3. /\ d \in Contracts /\ d # Null /\ todo[t][1].to = d
        /\ \A c : ~Uses(t, 1, c)
    BY <1>1, <1>2, SmallSequences DEF WellFormed, Uses
  <1>4. Finishes(t) /\ OthersStay(t) /\ rest' = rest
        /\ \A u \in Clients : pc'[u] = pc[u]
    BY <1>1, Constants DEF Execute, Finishes, OthersStay, Goto, TypeOK
  <1> HIDE DEF d
  <1>5. /\ \A i \in DOMAIN todo'[t] : /\ i + 1 \in DOMAIN todo[t] \ {1}
                                      /\ todo'[t][i] = todo[t][i + 1]
        /\ \A i \in DOMAIN todo[t] \ {1} : /\ i - 1 \in DOMAIN todo'[t]
                                           /\ todo'[t][i - 1] = todo[t][i]
        /\ \A i : ~Begun(t, i)' /\ ~Begun(t, i)
    BY <1>1, <1>4, Advance DEF Begun
  <1>6. \A u \in Clients \ {t} : \A c : /\ Makes(u, c)' <=> Makes(u, c)
                                        /\ Keeps(u, c)' <=> Keeps(u, c)
                                        /\ Awaits(u, c)' <=> Awaits(u, c)
                                        /\ Submits(u, c)' <=> Submits(u, c)
    BY <1>4, OthersViews
  <1>7. \A c : (\E i \in DOMAIN todo'[t] : Uses(t, i, c)') <=> \E i \in DOMAIN todo[t] : Uses(t, i, c)
    BY <1>3, <1>5 DEF Uses
  <1>8. \A c \in Contracts : Makes(t, c)' <=> Makes(t, c) /\ c # d
    <2>1. \A i \in DOMAIN todo[t] : todo[t][i].to = d => i = 1
      BY <1>2, <1>3, OneCall, Constants
    <2>2. QED
      BY <1>3, <1>5, <2>1 DEF Makes
  <1>9. \A c : Keeps(t, c)' <=> Keeps(t, c)
    BY <1>4, <1>5, <1>7, <1>1 DEF Keeps, KeepsIn, Uses, Finishes
  <1>10. \A c : Awaits(t, c)' <=> Awaits(t, c)
    BY <1>4, <1>5, <1>7, <1>1 DEF Awaits, AwaitsIn, Unmet, Uses, Finishes
  <1>11. \A c : Submits(t, c)' <=> Submits(t, c)
    BY <1>4 DEF Submits
  <1>12. d \in Unmade /\ \A u \in Clients \ {t} : ~Makes(u, d)
    <2>1. Makes(t, d)
      BY <1>2, <1>3, <1>5 DEF Makes
    <2>2. \A u \in Clients \ {t} : ~Makes(u, d)
      BY <1>2, <1>3, OneCall, Constants DEF Makes
    <2>3. QED
      BY <1>3, <2>1, <2>2 DEF Unmade
  <1>13. Unmade' = Unmade \ {d}
    BY <1>6, <1>8, <1>12 DEF Unmade
  <1>14. Keeps(t, d)
    <2>1. \E j \in DOMAIN todo[t] : Uses(t, j, d)
      BY <1>2, <1>3, OneCall, Constants
    <2>2. QED
      BY <1>1, <2>1 DEF Keeps, KeepsIn, Uses
  <1>15. Owned' = Owned \cup {d}
    BY <1>3, <1>6, <1>9, <1>12, <1>13, <1>14 DEF Owned
  <1>16. Unsubscribed' = Unsubscribed /\ Submitting' = Submitting
    BY <1>6, <1>10, <1>11 DEF Unsubscribed, Submitting
  <1>17. QED
    BY <1>12, <1>13, <1>15, <1>16 DEF d

\* The future that a client uses: it has been made, and nobody else has it.
LEMMA Used ==
    ASSUME TypeOK, ProgramInv, ClientInv, NEW t \in Clients, todo[t] # << >>,
           NEW c \in Range(Call(t).at)
    PROVE  /\ 1 \in DOMAIN todo[t] /\ Uses(t, 1, c) /\ c \in Contracts /\ c \notin Unmade
           /\ \A i : Uses(t, i, c) => i = 1
           /\ \A u \in Clients \ {t} : ~Keeps(u, c) /\ ~Awaits(u, c) /\ ~Submits(u, c)
  <1>1. 1 \in DOMAIN todo[t] /\ Uses(t, 1, c) /\ c \in Contracts
    <2>1. 1 \in DOMAIN todo[t] /\ Call(t) = todo[t][1] /\ Call(t).at \in Seq(Contracts)
      BY CallFacts
    <2>2. QED
      BY <2>1, RangeFacts DEF Uses
  <1>2. \A u \in Clients : \A j : Uses(u, j, c) => u = t /\ j = 1
    BY <1>1, OneCall, Constants
  <1>3. \A u \in Clients : \A j \in DOMAIN todo[u] : todo[u][j].to = c => j < 1
    BY <1>1, OneCall, Constants
  <1>4. c \notin Unmade
    <2>1. \A u \in Clients : \A j \in DOMAIN todo[u] : ~(j < 1)
      <3>1. \A u \in Clients : todo[u] \in Seq(Calls)
        BY DEF TypeOK
      <3>2. \A u \in Clients : DOMAIN todo[u] = 1..Len(todo[u]) /\ Len(todo[u]) \in Nat
        BY <3>1, LenProperties
      <3>3. QED
        BY <3>2
    <2>2. QED
      BY <1>3, <2>1 DEF Unmade, Makes
  <1>5. \A u \in Clients \ {t} : ~Submits(u, c)
    <2>1. ASSUME NEW u \in Clients \ {t}, Submits(u, c) PROVE FALSE
      <3>1. pc[u] # "idle" /\ c = Head(rest[u])
        BY <2>1 DEF Submits
      <3>2. c \in Range(Call(u).at) /\ todo[u] # << >>
        BY <3>1, HeadFacts
      <3>3. Uses(u, 1, c)
        BY <3>2, CallFacts DEF Uses
      <3>4. QED
        BY <1>2, <3>3
    <2>2. QED
      BY <2>1
  <1>6. QED
    BY <1>1, <1>2, <1>4, <1>5 DEF Keeps, Awaits, KeepsIn, AwaitsIn, Uses

\* The calls after the first one, and what becomes of the futures of the first.
Later(calls, c) == \E i \in DOMAIN calls : i # 1 /\ c \in Range(calls[i].at)
LEMMA FirstCall ==
    ASSUME TypeOK, ProgramInv, NEW t \in Clients, todo[t] # << >>, NEW c
    PROVE  LET used == c \in Range(Call(t).at)
               later == Later(todo[t], c)
           IN  /\ Keeps(t, c) <=> later \/ (used /\ (pc[t] = "drop" => c \in Range(rest[t])))
               /\ Awaits(t, c) <=> later \/ (used /\ Unmet(pc[t], rest[t], c))
               /\ todo'[t] = todo[t] =>
                  /\ Keeps(t, c)' <=>
                        later \/ (used /\ (pc'[t] = "drop" => c \in Range(rest'[t])))
                  /\ Awaits(t, c)' <=> later \/ (used /\ Unmet(pc'[t], rest'[t], c))
  <1>1. 1 \in DOMAIN todo[t] /\ Call(t) = todo[t][1]
    BY CallFacts
  <1>2. \A label, left :
           /\ KeepsIn(todo[t], label, left, c)
                 <=> \/ Later(todo[t], c)
                     \/ c \in Range(Call(t).at) /\ (label = "drop" => c \in Range(left))
           /\ AwaitsIn(todo[t], label, left, c)
                 <=> Later(todo[t], c) \/ (c \in Range(Call(t).at) /\ Unmet(label, left, c))
    BY <1>1 DEF KeepsIn, AwaitsIn, Later
  <1>3. QED
    BY <1>2 DEF Keeps, Awaits

LEMMA UnmetCases ==
    ASSUME NEW label, NEW left, NEW c
    PROVE  /\ label \in {"idle", "wait", "asleep", "read"} => Unmet(label, left, c)
           /\ label = "subscribe" => (Unmet(label, left, c) <=> c \in Range(left))
           /\ label = "submit" => (Unmet(label, left, c) <=> c \in Range(Tail(left)))
           /\ label = "drop" => ~Unmet(label, left, c)
  BY DEF Unmet

\* A client goes on with its call.
Continues(t) == todo' = todo /\ pc[t] # "idle" /\ pc'[t] # "idle" /\ OthersStay(t)
LEMMA SameUnmade ==
    ASSUME NEW t \in Clients, Continues(t)
    PROVE  Unmade' = Unmade
  <1>1. \A u \in Clients : \A i : Begun(u, i)' <=> Begun(u, i)
    BY DEF Continues, OthersStay, Begun
  <1>2. QED
    BY <1>1 DEF Continues, Unmade, Makes

\* Attach makes a contract, too, but does not promise to keep it.
LEMMA AttachViews ==
    ASSUME TypeOK, ProgramInv, ClientInv, NEW t \in Clients, Attach(t)
    PROVE  LET d == Call(t).to
           IN  /\ d # Null => d \in Unmade
               /\ Unmade' = Unmade \ {d} /\ Owned' = Owned \cup ({d} \cap Contracts)
               /\ Unsubscribed' = Unsubscribed /\ Submitting' = Submitting
  <1> DEFINE d == Call(t).to
  <1>1. todo[t] # << >> /\ pc[t] = "idle" /\ Call(t).op \in Attaching
    BY DEF Attach, Next_, Goto
  <1>2. /\ 1 \in DOMAIN todo[t] /\ Call(t) = todo[t][1] /\ d = todo[t][1].to
        /\ d \in Contracts \cup {Null}
    BY <1>1, CallFacts
  <1>3. /\ todo' = todo /\ OthersStay(t) /\ pc'[t] = "subscribe" /\ rest'[t] = Call(t).at
    BY <1>1, Constants DEF Attach, OthersStay, Goto, TypeOK
  <1> HIDE DEF d
  <1>4. \A u \in Clients \ {t} : \A c : /\ Makes(u, c)' <=> Makes(u, c)
                                        /\ Keeps(u, c)' <=> Keeps(u, c)
                                        /\ Awaits(u, c)' <=> Awaits(u, c)
                                        /\ Submits(u, c)' <=> Submits(u, c)
    BY <1>3, OthersViews
  <1>5. \A c \in Contracts : Makes(t, c)' <=> Makes(t, c) /\ c # d
    <2>1. d \in Contracts => \A i \in DOMAIN todo[t] : todo[t][i].to = d => i = 1
      BY <1>2, OneCall, Constants
    <2>2. \A i : (Begun(t, i)' <=> i = 1) /\ ~Begun(t, i)
      BY <1>1, <1>3 DEF Begun
    <2>3. QED
      BY <1>2, <1>3, <2>1, <2>2 DEF Makes
  <1>6. \A c : /\ Keeps(t, c)' <=> Keeps(t, c)
               /\ Awaits(t, c)' <=> Awaits(t, c)
               /\ Submits(t, c)' <=> Submits(t, c)
    BY <1>1, <1>3, FirstCall, UnmetCases DEF Submits
  <1>7. d # Null => /\ d \in Unmade /\ Keeps(t, d)
                    /\ \A u \in Clients \ {t} : ~Makes(u, d)
    <2>1. SUFFICES ASSUME d \in Contracts
                   PROVE  /\ Makes(t, d) /\ Keeps(t, d)
                          /\ \A u \in Clients \ {t} : ~Makes(u, d)
      BY <1>2 DEF Unmade
    <2>2. Makes(t, d)
      BY <1>1, <1>2 DEF Makes, Begun
    <2>3. \A u \in Clients \ {t} : ~Makes(u, d)
      BY <1>2, <2>1, OneCall, Constants DEF Makes
    <2>4. \E j \in DOMAIN todo[t] : Uses(t, j, d)
      BY <1>2, <2>1, OneCall, Constants
    <2>5. QED
      BY <1>1, <2>2, <2>3, <2>4 DEF Keeps, KeepsIn, Uses
  <1>8. Unmade' = Unmade \ {d}
    BY <1>2, <1>4, <1>5, <1>7, Constants DEF Unmade
  <1>9. Owned' = Owned \cup ({d} \cap Contracts)
    BY <1>2, <1>4, <1>6, <1>7, <1>8, Constants DEF Owned
  <1>10. Unsubscribed' = Unsubscribed /\ Submitting' = Submitting
    BY <1>4, <1>6 DEF Unsubscribed, Submitting
  <1>11. QED
    BY <1>7, <1>8, <1>9, <1>10 DEF d

\* A client subscribes to a future, or finds that it must submit the callback.
LEMMA SetCallbackViews ==
    ASSUME TypeOK, ProgramInv, ClientInv, NEW t \in Clients, SetCallback(t)
    PROVE  LET c == Head(rest[t])
           IN  /\ c \in Unsubscribed /\ c \in Owned
               /\ Unmade' = Unmade /\ Owned' = Owned /\ Unsubscribed' = Unsubscribed \ {c}
               /\ Submitting' = IF callback[c] = kValueIsSet THEN Submitting \cup {c} ELSE Submitting
  <1> DEFINE c == Head(rest[t])
             t_ == Tail(rest[t])
  <1>1. pc[t] = "subscribe" /\ pc[t] # "idle"
    BY DEF SetCallback
  <1>2. /\ todo[t] # << >> /\ c \in Contracts /\ c \in Range(rest[t]) /\ c \in Range(Call(t).at)
        /\ Range(rest[t]) = {c} \cup Range(t_) /\ c \notin Range(t_)
        /\ Len(rest[t]) > 1 <=> t_ # << >>
        /\ Range(rest[t]) \subseteq Range(Call(t).at)
    BY <1>1, HeadFacts DEF ClientInv, ClientOK
  <1>3. /\ todo' = todo /\ OthersStay(t)
        /\ \/ /\ callback[c] = kValueIsSet /\ pc'[t] = "submit" /\ rest'[t] = rest[t]
           \/ /\ callback[c] # kValueIsSet
              /\ \/ pc'[t] = "subscribe" /\ rest'[t] = t_
                 \/ pc'[t] = "drop" /\ t_ = << >> /\ rest'[t] = Call(t).at
    BY <1>1, <1>2, Constants DEF SetCallback, Subscribed, OthersStay, TypeOK
  <1>4. /\ ~Later(todo[t], c) /\ c \notin Unmade
        /\ \A u \in Clients \ {t} : ~Keeps(u, c) /\ ~Awaits(u, c) /\ ~Submits(u, c)
    BY <1>2, Used DEF Later, Uses
  <1> HIDE DEF c, t_
  <1>5. \A u \in Clients \ {t} : \A e : /\ Keeps(u, e)' <=> Keeps(u, e)
                                        /\ Awaits(u, e)' <=> Awaits(u, e)
                                        /\ Submits(u, e)' <=> Submits(u, e)
    BY <1>3, OthersViews
  <1>6. Unmade' = Unmade
    BY <1>1, <1>3, SameUnmade DEF Continues
  <1>7. \A e : Keeps(t, e)' <=> Keeps(t, e)
    BY <1>1, <1>2, <1>3, FirstCall
  <1>8. \A e : Awaits(t, e)' <=> Awaits(t, e) /\ e # c
    <2>1. /\ Unmet(pc[t], rest[t], c)
          /\ \A e : Unmet(pc'[t], rest'[t], e) <=> Unmet(pc[t], rest[t], e) /\ e # c
      <3>1. \A e : Unmet(pc[t], rest[t], e) <=> e \in Range(rest[t])
        BY <1>1, UnmetCases
      <3>2. \A e : Unmet(pc'[t], rest'[t], e) <=> e \in Range(t_)
        <4>1. CASE pc'[t] = "submit" /\ rest'[t] = rest[t]
          <5>1. \A e : Unmet(pc'[t], rest'[t], e) <=> e \in Range(Tail(rest'[t]))
            BY <4>1, UnmetCases
          <5>2. QED
            BY <4>1, <5>1 DEF t_
        <4>2. CASE pc'[t] = "subscribe" /\ rest'[t] = t_
          BY <4>2, UnmetCases
        <4>3. CASE pc'[t] = "drop" /\ t_ = << >>
          <5>1. \A e : ~Unmet(pc'[t], rest'[t], e)
            BY <4>3, UnmetCases
          <5>2. QED
            BY <4>3, <5>1, SmallSequences
        <4>4. QED
          BY <1>3, <4>1, <4>2, <4>3
      <3>3. QED
        BY <1>2, <3>1, <3>2
    <2>2. QED
      BY <1>2, <1>3, <1>4, <2>1, FirstCall
  <1>9. \A e : /\ ~Submits(t, e)
               /\ Submits(t, e)' <=> callback[c] = kValueIsSet /\ e = c
    BY <1>1, <1>3 DEF Submits, c
  <1>10. Keeps(t, c) /\ Awaits(t, c)
    BY <1>1, <1>2, FirstCall, UnmetCases
  <1>11. QED
    BY <1>2, <1>4, <1>5, <1>6, <1>7, <1>8, <1>9, <1>10
       DEF Unsubscribed, Submitting, Owned, c

LEMMA SubmitCallbackViews ==
    ASSUME TypeOK, ProgramInv, ClientInv, NEW t \in Clients, SubmitCallback(t)
    PROVE  LET c == Head(rest[t])
           IN  /\ c \in Submitting
               /\ Unmade' = Unmade /\ Owned' = Owned /\ Unsubscribed' = Unsubscribed
               /\ Submitting' = Submitting \ {c}
  <1> DEFINE c == Head(rest[t])
             t_ == Tail(rest[t])
  <1>1. pc[t] = "submit" /\ pc[t] # "idle"
    BY DEF SubmitCallback
  <1>2. /\ todo[t] # << >> /\ c \in Contracts /\ c \in Range(rest[t]) /\ c \in Range(Call(t).at)
        /\ Len(rest[t]) > 1 <=> t_ # << >>
        /\ Range(rest[t]) \subseteq Range(Call(t).at)
    BY <1>1, HeadFacts DEF ClientInv, ClientOK
  <1>3. /\ todo' = todo /\ OthersStay(t)
        /\ \/ pc'[t] = "subscribe" /\ rest'[t] = t_
           \/ pc'[t] = "drop" /\ t_ = << >> /\ rest'[t] = Call(t).at
    BY <1>1, <1>2, Constants DEF SubmitCallback, Subscribed, OthersStay, TypeOK
  <1>4. \A u \in Clients \ {t} : ~Submits(u, c)
    BY <1>2, Used
  <1> HIDE DEF c, t_
  <1>5. \A u \in Clients \ {t} : \A e : /\ Keeps(u, e)' <=> Keeps(u, e)
                                        /\ Awaits(u, e)' <=> Awaits(u, e)
                                        /\ Submits(u, e)' <=> Submits(u, e)
    BY <1>3, OthersViews
  <1>6. Unmade' = Unmade
    BY <1>1, <1>3, SameUnmade DEF Continues
  <1>7. \A e : Keeps(t, e)' <=> Keeps(t, e)
    BY <1>1, <1>2, <1>3, FirstCall
  <1>8. \A e : Awaits(t, e)' <=> Awaits(t, e)
    <2>1. \A e : Unmet(pc'[t], rest'[t], e) <=> Unmet(pc[t], rest[t], e)
      BY <1>1, <1>2, <1>3, UnmetCases, SmallSequences DEF t_
    <2>2. QED
      BY <1>2, <1>3, <2>1, FirstCall
  <1>9. \A e : ~Submits(t, e)' /\ (Submits(t, e) <=> e = c)
    BY <1>1, <1>3 DEF Submits, c
  <1>10. QED
    BY <1>2, <1>4, <1>5, <1>6, <1>7, <1>8, <1>9 DEF Unsubscribed, Submitting, Owned, c

\* A client destroys a future; after the last one of the call it is done with it.
LEMMA DropFutureViews ==
    ASSUME TypeOK, ProgramInv, ClientInv, NEW t \in Clients, DropFuture(t)
    PROVE  LET c == Head(rest[t])
           IN  /\ c \in Owned /\ c \notin Unsubscribed
               /\ Unmade' = Unmade /\ Owned' = Owned \ {c}
               /\ Unsubscribed' = Unsubscribed /\ Submitting' = Submitting
  <1> DEFINE c == Head(rest[t])
             t_ == Tail(rest[t])
  <1>1. pc[t] = "drop" /\ pc[t] # "idle"
    BY DEF DropFuture, Goto
  <1>2. /\ todo[t] # << >> /\ c \in Contracts /\ c \in Range(rest[t]) /\ c \in Range(Call(t).at)
        /\ Range(rest[t]) = {c} \cup Range(t_) /\ c \notin Range(t_)
        /\ Len(rest[t]) > 1 <=> t_ # << >>
        /\ Range(rest[t]) \subseteq Range(Call(t).at)
    BY <1>1, HeadFacts DEF ClientInv, ClientOK
  <1>3. /\ OthersStay(t) /\ rest'[t] = t_
        /\ \/ pc'[t] = "drop" /\ todo' = todo
           \/ pc'[t] = "idle" /\ t_ = << >> /\ Finishes(t)
    BY <1>1, <1>2, Constants DEF DropFuture, Goto, OthersStay, Finishes, TypeOK
  <1>4. /\ ~Later(todo[t], c) /\ c \notin Unmade
        /\ \A u \in Clients \ {t} : ~Keeps(u, c) /\ ~Awaits(u, c) /\ ~Submits(u, c)
    BY <1>2, Used DEF Later, Uses
  <1> HIDE DEF c, t_
  <1>5. \A u \in Clients \ {t} : \A e : /\ Makes(u, e)' <=> Makes(u, e)
                                        /\ Keeps(u, e)' <=> Keeps(u, e)
                                        /\ Awaits(u, e)' <=> Awaits(u, e)
                                        /\ Submits(u, e)' <=> Submits(u, e)
    BY <1>3, OthersViews
  <1>6. /\ \A e : Makes(t, e)' <=> Makes(t, e)
        /\ \A e : Keeps(t, e)' <=> Keeps(t, e) /\ e # c
        /\ \A e : Awaits(t, e)' <=> Awaits(t, e)
    <2>1. CASE pc'[t] = "drop" /\ todo' = todo
      <3>1. \A e : Makes(t, e)' <=> Makes(t, e)
        BY <1>1, <2>1 DEF Makes, Begun
      <3>2. \A e : Keeps(t, e)' <=> Keeps(t, e) /\ e # c
        BY <1>1, <1>2, <1>3, <1>4, <2>1, FirstCall
      <3>3. \A e : Awaits(t, e)' <=> Awaits(t, e)
        BY <1>1, <1>2, <2>1, FirstCall, UnmetCases
      <3>4. QED
        BY <3>1, <3>2, <3>3
    <2>2. CASE pc'[t] = "idle" /\ t_ = << >> /\ Finishes(t)
      <3>1. /\ \A i \in DOMAIN todo'[t] : /\ i + 1 \in DOMAIN todo[t] \ {1} /\ i \in Nat
                                          /\ todo'[t][i] = todo[t][i + 1]
            /\ \A i \in DOMAIN todo[t] \ {1} : /\ i - 1 \in DOMAIN todo'[t] /\ i \in Nat
                                               /\ todo'[t][i - 1] = todo[t][i]
            /\ \A i : ~Begun(t, i)'
        BY <2>2, Advance
      <3>2. \A i : Begun(t, i) <=> i = 1
        BY <1>1 DEF Begun
      <3>3. \A e : Makes(t, e)' <=> Makes(t, e)
        BY <3>1, <3>2 DEF Makes
      <3>4. \A e : Later(todo[t], e) <=> \E i \in DOMAIN todo'[t] : e \in Range(todo'[t][i].at)
        BY <3>1 DEF Later
      <3>5. \A e : (Keeps(t, e)' <=> Later(todo[t], e)) /\ (Awaits(t, e)' <=> Later(todo[t], e))
        BY <2>2, <3>4 DEF Keeps, KeepsIn, Awaits, AwaitsIn, Unmet
      <3>6. \A e : Keeps(t, e) /\ e # c <=> Later(todo[t], e)
        BY <1>1, <1>2, <1>4, <2>2, FirstCall, SmallSequences
      <3>7. \A e : Awaits(t, e) <=> Later(todo[t], e)
        BY <1>1, <1>2, FirstCall, UnmetCases
      <3>8. QED
        BY <3>3, <3>5, <3>6, <3>7
    <2>3. QED
      BY <1>3, <2>1, <2>2
  <1>7. \A e : ~Submits(t, e)' /\ ~Submits(t, e)
    BY <1>1, <1>3 DEF Submits
  <1>8. Keeps(t, c) /\ ~Awaits(t, c)
    BY <1>1, <1>2, <1>4, FirstCall, UnmetCases
  <1>9. Unmade' = Unmade
    BY <1>5, <1>6 DEF Unmade
  <1>10. QED
    BY <1>2, <1>4, <1>5, <1>6, <1>7, <1>8, <1>9 DEF Unsubscribed, Submitting, Owned, c

\* A client that waits for the result, and one that does not need it.
LEMMA GetResultViews ==
    ASSUME TypeOK, ProgramInv, ClientInv, NEW t \in Clients, GetResult(t)
    PROVE  /\ Unmade' = Unmade /\ Owned' = Owned /\ Submitting' = Submitting
           /\ Unsubscribed' = IF Call(t).op = "Drop" THEN Unsubscribed \ Range(Call(t).at)
                                                     ELSE Unsubscribed
  <1>1. /\ todo[t] # << >> /\ pc[t] = "idle" /\ Call(t).op \in {"GetResult", "Drop"}
    BY DEF GetResult, Next_, Goto
  <1>2. /\ todo' = todo /\ OthersStay(t) /\ rest'[t] = Call(t).at
        /\ pc'[t] = IF Call(t).op = "Drop" THEN "drop" ELSE "wait"
    BY <1>1, Constants DEF GetResult, OthersStay, Goto, TypeOK
  <1>3. \A c \in Range(Call(t).at) : /\ ~Later(todo[t], c)
                                     /\ \A u \in Clients \ {t} : ~Awaits(u, c)
    BY <1>1, Used DEF Later, Uses
  <1>4. \A u \in Clients \ {t} : \A e : /\ Makes(u, e)' <=> Makes(u, e)
                                        /\ Keeps(u, e)' <=> Keeps(u, e)
                                        /\ Awaits(u, e)' <=> Awaits(u, e)
                                        /\ Submits(u, e)' <=> Submits(u, e)
    BY <1>2, OthersViews
  <1>5. \A e \in Contracts : Makes(t, e)' <=> Makes(t, e)
    <2>1. /\ 1 \in DOMAIN todo[t] /\ todo[t][1].to = Null
      BY <1>1, CallFacts DEF WellFormed
    <2>2. \A i : (Begun(t, i)' <=> i = 1) /\ ~Begun(t, i)
      BY <1>1, <1>2 DEF Begun
    <2>3. QED
      BY <1>2, <2>1, <2>2, Constants DEF Makes
  <1>6. \A e : Keeps(t, e)' <=> Keeps(t, e)
    BY <1>1, <1>2, FirstCall
  <1>7. \A e : Awaits(t, e)' <=> /\ Awaits(t, e)
                                 /\ Call(t).op = "Drop" => e \notin Range(Call(t).at)
    BY <1>1, <1>2, <1>3, FirstCall, UnmetCases
  <1>8. \A e : ~Submits(t, e)' /\ ~Submits(t, e)
    BY <1>1, <1>2 DEF Submits
  <1>9. Unmade' = Unmade
    BY <1>4, <1>5 DEF Unmade
  <1>10. Owned' = Owned /\ Submitting' = Submitting
    BY <1>4, <1>6, <1>8, <1>9 DEF Owned, Submitting
  <1>11. CASE Call(t).op = "Drop"
    BY <1>3, <1>4, <1>7, <1>9, <1>10, <1>11 DEF Unsubscribed
  <1>12. CASE Call(t).op # "Drop"
    BY <1>4, <1>7, <1>9, <1>10, <1>12 DEF Unsubscribed
  <1>13. QED
    BY <1>11, <1>12

LEMMA ReadViews ==
    ASSUME TypeOK, ProgramInv, ClientInv, NEW t \in Clients, Read(t)
    PROVE  LET c == Head(rest[t])
           IN  /\ c \in Unsubscribed /\ c \in Owned
               /\ Unmade' = Unmade /\ Owned' = Owned /\ Submitting' = Submitting
               /\ Unsubscribed' = Unsubscribed \ {c}
  <1> DEFINE c == Head(rest[t])
  <1>1. pc[t] = "read" /\ pc[t] # "idle" /\ rest[t] = Call(t).at /\ Call(t).op = "GetResult"
    BY DEF Read, Goto, ClientInv, ClientOK
  <1>2. /\ todo[t] # << >> /\ c \in Contracts /\ c \in Range(Call(t).at)
        /\ Range(rest[t]) = {c} \cup Range(Tail(rest[t])) /\ c \notin Range(Tail(rest[t]))
        /\ Len(rest[t]) > 1 <=> Tail(rest[t]) # << >>
    BY <1>1, HeadFacts
  <1>3. Range(Call(t).at) = {c}
    <2>1. Len(rest[t]) <= 1 /\ Len(rest[t]) \in Nat
      BY <1>1, <1>2, CallFacts, LenProperties DEF WellFormed
    <2>2. ~(Len(rest[t]) > 1)
      BY <2>1
    <2>3. QED
      BY <1>1, <1>2, <2>2, SmallSequences
  <1>4. /\ todo' = todo /\ OthersStay(t) /\ rest'[t] = rest[t] /\ pc'[t] = "drop"
    BY <1>1, Constants DEF Read, client, OthersStay, Goto, TypeOK
  <1>5. /\ ~Later(todo[t], c) /\ c \notin Unmade
        /\ \A u \in Clients \ {t} : ~Keeps(u, c) /\ ~Awaits(u, c) /\ ~Submits(u, c)
    BY <1>2, Used DEF Later, Uses
  <1> HIDE DEF c
  <1>6. \A u \in Clients \ {t} : \A e : /\ Keeps(u, e)' <=> Keeps(u, e)
                                        /\ Awaits(u, e)' <=> Awaits(u, e)
                                        /\ Submits(u, e)' <=> Submits(u, e)
    BY <1>4, OthersViews
  <1>7. Unmade' = Unmade
    BY <1>1, <1>4, SameUnmade DEF Continues
  <1>8. \A e : /\ Keeps(t, e)' <=> Keeps(t, e)
               /\ Awaits(t, e)' <=> Awaits(t, e) /\ e # c
               /\ ~Submits(t, e) /\ ~Submits(t, e)'
    BY <1>1, <1>2, <1>3, <1>4, <1>5, FirstCall, UnmetCases DEF Submits
  <1>9. Keeps(t, c) /\ Awaits(t, c)
    BY <1>1, <1>2, FirstCall, UnmetCases
  <1>10. QED
    BY <1>2, <1>5, <1>6, <1>7, <1>8, <1>9 DEF Unsubscribed, Submitting, Owned, c

------------------------------------------------------------------------------
\* The executor's queue after an Execute, and after a worker has taken routine i.
LEMMA QueueUp ==
    ASSUME TypeOK, NEW j, tasks' = Append(tasks, j)
    PROVE  LET n == Len(tasks) + 1
           IN  /\ \A i \in DOMAIN tasks : i \in DOMAIN tasks' /\ i # n /\ tasks'[i] = tasks[i]
               /\ \A i \in DOMAIN tasks' : i \in DOMAIN tasks \/ i = n
               /\ n \in DOMAIN tasks' /\ tasks'[n] = j
  <1>1. tasks \in Seq(Tasks)
    BY DEF TypeOK
  <1>2. Len(tasks) \in Nat /\ DOMAIN tasks = 1..Len(tasks)
    BY <1>1, LenProperties
  <1>3. /\ tasks' \in Seq(Tasks \cup {j}) /\ Len(tasks') = Len(tasks) + 1
        /\ \A i \in 1..Len(tasks) : tasks'[i] = tasks[i]
        /\ tasks'[Len(tasks) + 1] = j
    <2>1. tasks \in Seq(Tasks \cup {j})
      BY <1>1
    <2>2. QED
      BY <2>1, AppendProperties
  <1>4. DOMAIN tasks' = 1..(Len(tasks) + 1)
    BY <1>3, LenProperties
  <1>5. \A n \in Nat : /\ \A i \in 1..n : i \in 1..(n + 1) /\ i # n + 1
                       /\ \A i \in 1..(n + 1) : i \in 1..n \/ i = n + 1
                       /\ n + 1 \in 1..(n + 1)
    OBVIOUS
  <1>6. QED
    BY <1>2, <1>3, <1>4, <1>5

LEMMA QueueOff ==
    ASSUME TypeOK, NEW i \in DOMAIN tasks, tasks' = RemoveAt(tasks, i)
    PROVE  /\ tasks' \in Seq(Tasks)
           /\ \A k \in DOMAIN tasks' : /\ Skip(k, i) \in DOMAIN tasks \ {i}
                                       /\ tasks'[k] = tasks[Skip(k, i)]
           /\ \A k, l \in DOMAIN tasks' : Skip(k, i) = Skip(l, i) => k = l
           /\ \A k \in DOMAIN tasks \ {i} : \E l \in DOMAIN tasks' : tasks'[l] = tasks[k]
  <1>1. tasks \in Seq(Tasks) /\ DOMAIN tasks = 1..Len(tasks) /\ Len(tasks) \in Nat
    BY LenProperties DEF TypeOK
  <1>2. i \in 1..Len(tasks)
    BY <1>1
  <1>3. /\ tasks' \in Seq(Tasks) /\ Len(tasks') = Len(tasks) - 1
        /\ \A j \in 1..Len(tasks') : tasks'[j] = tasks[Skip(j, i)]
        /\ \A j \in 1..Len(tasks') : Skip(j, i) \in 1..Len(tasks) \ {i}
        /\ \A k \in 1..Len(tasks) \ {i} : Closed(k, i) \in 1..Len(tasks')
        /\ \A k \in 1..Len(tasks) \ {i} : tasks'[Closed(k, i)] = tasks[k]
    <2> DEFINE s == tasks
    <2>1. s \in Seq(Tasks) /\ i \in 1..Len(s)
      BY <1>1, <1>2
    <2> HIDE DEF s
    <2>2. PICK t : t = RemoveAt(s, i)
      OBVIOUS
    <2>3. /\ t \in Seq(Tasks) /\ Len(t) = Len(s) - 1
          /\ \A j \in 1..Len(t) : t[j] = s[Skip(j, i)]
          /\ \A j \in 1..Len(t) : Skip(j, i) \in 1..Len(s) \ {i}
          /\ \A k \in 1..Len(s) \ {i} : Closed(k, i) \in 1..Len(t)
          /\ \A k \in 1..Len(s) \ {i} : t[Closed(k, i)] = s[k]
      BY <2>1, <2>2, RemoveAtFacts
    <2>4. QED
      BY <2>2, <2>3 DEF s
  <1>4. DOMAIN tasks' = 1..Len(tasks') /\ Len(tasks') \in Nat
    BY <1>3, LenProperties
  <1>5. \A n \in Nat, m \in Nat : \A k, l \in 1..n : Skip(k, m) = Skip(l, m) => k = l
    BY DEF Skip
  <1>6. i \in Nat
    BY <1>1
  <1>7. \A k, l \in DOMAIN tasks' : Skip(k, i) = Skip(l, i) => k = l
    BY <1>4, <1>5, <1>6
  <1>8. \A k \in DOMAIN tasks' : /\ Skip(k, i) \in DOMAIN tasks \ {i}
                                 /\ tasks'[k] = tasks[Skip(k, i)]
    BY <1>1, <1>3, <1>4
  <1>9. \A k \in DOMAIN tasks \ {i} : \E l \in DOMAIN tasks' : tasks'[l] = tasks[k]
    BY <1>1, <1>3, <1>4
  <1>10. QED
    BY <1>3, <1>7, <1>8, <1>9

\* A routine that executes a functor has no contract before it, any other has one.
LEMMA TaskFacts ==
    ASSUME NEW j \in Tasks, IsTask(j)
    PROVE  /\ j.from = Null <=> j.op = "Execute"
           /\ j.from = Null => j.to \in Contracts /\ j.to \notin Grouped /\ j.to \notin Unmade
           /\ j.from # Null => /\ j.from \in Contracts /\ value[j.from] = Moved
                               /\ j.op \in Attaching /\ Links(j, j.from)
           /\ j.to = Null => j.op = "Subscribe"
           /\ j.from # Null /\ j.to # Null =>
                 j.to \in Contracts /\ Made(j.to).op = j.op /\ j.from \in Inputs(j.to)
  BY Constants DEF IsTask, Links, Tasks, Attaching

\* What one worker does leaves the routines of the others alone.
OthersWork(w) == \A v \in Workers \ {w} : pc'[v] = pc[v] /\ job'[v] = job[v]
LEMMA LeavesRun ==
    ASSUME TypeOK, WorkInv, OnceInv, NEW w \in Workers, OthersWork(w), tasks' = tasks,
           pc[w] = "run", pc'[w] # "run"
    PROVE  /\ Pending' = Pending \ {job[w].from}
           /\ Executed' = IF job[w].op = "Execute" THEN Executed \ {job[w].to} ELSE Executed
           /\ job[w].from # Null => job[w].from \in Pending
           /\ job[w].op = "Execute" => job[w].to \in Executed
  <1> DEFINE j == job[w]
  <1>1. /\ j \in Tasks /\ IsTask(j)
        /\ \A i \in DOMAIN tasks : tasks[i] \in Tasks /\ IsTask(tasks[i])
        /\ \A v \in Workers : job[v] \in Tasks /\ (pc[v] = "run" => IsTask(job[v]))
    BY ElementOfSeq, LenProperties DEF TypeOK, WorkInv
  <1>2. /\ \A i \in DOMAIN tasks : ~SameWork(tasks[i], j)
        /\ \A v \in Workers \ {w} : pc[v] = "run" => ~SameWork(job[v], j)
    BY DEF OnceInv
  <1>3. \A c \in Contracts : c = j.from => /\ \A i \in DOMAIN tasks : tasks[i].from # c
                                           /\ \A v \in Workers \ {w} : pc[v] = "run" => job[v].from # c
    BY <1>2, Constants DEF SameWork
  <1>4. Pending' = Pending \ {j.from}
    BY <1>3 DEF Pending, OthersWork
  <1>5. j.op = "Execute" =>
           /\ \A i \in DOMAIN tasks : ~(tasks[i].op = "Execute" /\ tasks[i].to = j.to)
           /\ \A v \in Workers \ {w} :
                 pc[v] = "run" => ~(job[v].op = "Execute" /\ job[v].to = j.to)
    BY <1>1, <1>2, TaskFacts DEF SameWork
  <1>6. Executed' = IF j.op = "Execute" THEN Executed \ {j.to} ELSE Executed
    BY <1>5 DEF Executed, OthersWork
  <1>7. /\ j.from # Null => j.from \in Pending
        /\ j.op = "Execute" => j.to \in Executed
    BY <1>1, TaskFacts DEF Pending, Executed
  <1>8. QED
    BY <1>4, <1>6, <1>7

LEMMA NotRunning ==
    ASSUME NEW w \in Workers, OthersWork(w), tasks' = tasks, pc[w] # "run", pc'[w] # "run"
    PROVE  Pending' = Pending /\ Executed' = Executed
  BY DEF OthersWork, Pending, Executed

LEMMA SettingViews ==
    ASSUME SetterInv, NEW w \in Workers, OthersWork(w)
    PROVE  /\ pc[w] \in Setting /\ pc'[w] \in Setting /\ job'[w].to = job[w].to
                 => InSetting' = InSetting
           /\ pc[w] \notin Setting /\ pc'[w] \notin Setting => InSetting' = InSetting
           /\ pc[w] \notin Setting /\ pc'[w] \in Setting /\ job'[w].to = job[w].to
                 => InSetting' = InSetting \cup ({job[w].to} \cap Contracts)
           /\ pc[w] \in Setting /\ pc'[w] \notin Setting
                 => InSetting' = InSetting \ {job[w].to}
  <1>1. \A v \in Workers \ {w} : \A d : Sets(v, d)' <=> Sets(v, d)
    BY DEF OthersWork, Sets
  <1>2. pc[w] \in Setting => \A v \in Workers \ {w} : \A d \in Contracts : d = job[w].to => ~Sets(v, d)
    BY DEF SetterInv, Sets
  <1>3. /\ \A d : Sets(w, d) <=> pc[w] \in Setting /\ d = job[w].to
        /\ \A d : Sets(w, d)' <=> pc'[w] \in Setting /\ d = job'[w].to
    BY DEF Sets
  <1>4. QED
    BY <1>1, <1>2, <1>3 DEF InSetting

\* A routine is queued.
LEMMA QueueUpViews ==
    ASSUME TypeOK, NEW j, tasks' = Append(tasks, j),
           \A w \in Workers : (pc'[w] = "run" <=> pc[w] = "run") /\ job'[w] = job[w]
    PROVE  /\ Pending' = Pending \cup ({j.from} \cap Contracts)
           /\ j.op # "Execute" => Executed' = Executed
           /\ j.op = "Execute" => Executed' = Executed \cup ({j.to} \cap Contracts)
  <1>1. /\ \A i \in DOMAIN tasks : i \in DOMAIN tasks' /\ tasks'[i] = tasks[i]
        /\ \A i \in DOMAIN tasks' : (i \in DOMAIN tasks /\ tasks'[i] = tasks[i]) \/ tasks'[i] = j
        /\ \E i \in DOMAIN tasks' : tasks'[i] = j
    BY QueueUp
  <1>2. QED
    BY <1>1 DEF Pending, Executed

LEMMA TakeViews ==
    ASSUME TypeOK, WorkInv, SetterInv, NEW w \in Workers, OthersWork(w),
           pc[w] = "idle", pc'[w] = "run", NEW i \in DOMAIN tasks,
           job'[w] = tasks[i], tasks' = RemoveAt(tasks, i)
    PROVE  Pending' = Pending /\ Executed' = Executed /\ InSetting' = InSetting
  <1>1. /\ \A k \in DOMAIN tasks' : \E l \in DOMAIN tasks : tasks'[k] = tasks[l]
        /\ \A k \in DOMAIN tasks : tasks[k] = job'[w] \/ \E l \in DOMAIN tasks' : tasks'[l] = tasks[k]
    BY QueueOff
  <1>2. Pending' = Pending
    BY <1>1 DEF Pending, OthersWork
  <1>3. Executed' = Executed
    BY <1>1 DEF Executed, OthersWork
  <1>4. InSetting' = InSetting
    BY SettingViews DEF Setting
  <1>5. QED
    BY <1>2, <1>3, <1>4

LEMMA DiscardViews ==
    ASSUME TypeOK, WorkInv, OnceInv, NEW i \in DOMAIN tasks, tasks' = RemoveAt(tasks, i),
           \A w \in Workers : pc[w] = "idle" /\ pc'[w] = "idle"
    PROVE  /\ Pending' = Pending \ {tasks[i].from} /\ InSetting' = InSetting
           /\ Executed' = IF tasks[i].op = "Execute" THEN Executed \ {tasks[i].to} ELSE Executed
           /\ tasks[i].op = "Execute" => tasks[i].to \in Executed
  <1>1. /\ \A k \in DOMAIN tasks' : \E l \in DOMAIN tasks \ {i} : tasks'[k] = tasks[l]
        /\ \A k \in DOMAIN tasks \ {i} : \E l \in DOMAIN tasks' : tasks'[l] = tasks[k]
    BY QueueOff
  <1>2. \A k \in DOMAIN tasks : tasks[k] \in Tasks /\ IsTask(tasks[k])
    BY ElementOfSeq, LenProperties DEF TypeOK, WorkInv
  <1>3. \A k \in DOMAIN tasks \ {i} : /\ tasks[i].from # Null => tasks[k].from # tasks[i].from
                                      /\ tasks[i].op = "Execute" /\ tasks[k].op = "Execute"
                                            => tasks[k].to # tasks[i].to
    BY <1>2, TaskFacts DEF OnceInv, SameWork
  <1>4. Pending' = Pending \ {tasks[i].from}
    BY <1>1, <1>3, Constants DEF Pending
  <1>5. Executed' = IF tasks[i].op = "Execute" THEN Executed \ {tasks[i].to} ELSE Executed
    BY <1>1, <1>3 DEF Executed
  <1>6. InSetting' = InSetting
    BY DEF InSetting, Sets, Setting
  <1>7. tasks[i].op = "Execute" => tasks[i].to \in Executed
    BY <1>2, TaskFacts DEF Executed
  <1>8. QED
    BY <1>4, <1>5, <1>6, <1>7

------------------------------------------------------------------------------
\* A sequence that holds nothing twice has as many elements as its range.
LEMMA InjectiveCardinality ==
    ASSUME NEW S, NEW s \in Seq(S)
    PROVE  /\ IsFiniteSet(Range(s))
           /\ IsInjective(s) => Cardinality(Range(s)) = Len(s)
  <1>1. /\ Len(s) \in Nat /\ DOMAIN s = 1..Len(s) /\ Range(s) = {s[i] : i \in 1..Len(s)}
        /\ IsInjective(s) <=> \A i, j \in 1..Len(s) : s[i] = s[j] => i = j
    BY LenProperties, RangeFacts
  <1>2. IsFiniteSet(1..Len(s)) /\ Cardinality(1..Len(s)) = Len(s)
    <2>1. /\ IsFiniteSet(1..Len(s))
          /\ Cardinality(1..Len(s)) = IF 1 > Len(s) THEN 0 ELSE Len(s) - 1 + 1
      BY <1>1, FS_Interval
    <2>2. \A n \in Nat : n = IF 1 > n THEN 0 ELSE n - 1 + 1
      OBVIOUS
    <2>3. QED
      BY <1>1, <2>1, <2>2
  <1> DEFINE f == [i \in 1..Len(s) |-> s[i]]
  <1>3. f \in Surjection(1..Len(s), Range(s))
    BY <1>1 DEF Surjection
  <1>4. IsFiniteSet(Range(s))
    BY <1>2, <1>3, FS_Surjection
  <1>5. ASSUME IsInjective(s) PROVE Cardinality(Range(s)) = Len(s)
    <2>1. f \in Injection(1..Len(s), Range(s))
      BY <1>1, <1>3, <1>5 DEF Surjection, Injection, IsInjective
    <2> HIDE DEF f
    <2>2. QED
      BY <1>2, <1>3, <2>1, FS_Surjection
  <1>6. QED
    BY <1>4, <1>5

LEMMA JobTypes ==
    ASSUME TypeOK, WorkInv
    PROVE  /\ \A i \in DOMAIN tasks : tasks[i] \in Tasks /\ IsTask(tasks[i])
           /\ \A w \in Workers : job[w] \in Tasks /\ (pc[w] # "idle" => IsTask(job[w]))
  BY ElementOfSeq, LenProperties DEF TypeOK, WorkInv

\* A routine that runs is an input that its group has not counted.
LEMMA RunFacts ==
    ASSUME Inv, NEW w \in Workers, pc[w] # "idle"
    PROVE  /\ Active
           /\ job[w].op # "Execute" /\ job[w].to # Null =>
                 /\ job[w].to \in Contracts /\ job[w].to \in Grouped /\ job[w].to \notin Unmade
                 /\ Made(job[w].to).op = job[w].op /\ job[w].from \in Inputs(job[w].to)
                 /\ pc[w] = "run" => job[w].from \in Uncounted(job[w].to)
           /\ job[w].op = "Execute" =>
                 /\ job[w].to \in Contracts /\ job[w].to \notin Grouped /\ job[w].to \notin Unmade
                 /\ pc[w] = "run" => job[w].to \in Executed
  <1>1. job[w] \in Tasks /\ IsTask(job[w]) /\ Active
    BY JobTypes DEF Inv, Active
  <1>2. ASSUME job[w].op # "Execute", job[w].to # Null
        PROVE  /\ job[w].to \in Contracts /\ job[w].to \in Grouped
               /\ Made(job[w].to).op = job[w].op /\ job[w].from \in Inputs(job[w].to)
               /\ job[w].from \in Contracts
    BY <1>1, <1>2, TaskFacts DEF Grouped
  <1>3. job[w].op # "Execute" /\ job[w].to # Null =>
           /\ job[w].to \notin Unmade
           /\ pc[w] = "run" => job[w].from \in Uncounted(job[w].to)
    BY <1>2 DEF Inv, GroupInv, Uncounted, Pending
  <1>4. job[w].op = "Execute" =>
           /\ job[w].to \in Contracts /\ job[w].to \notin Grouped /\ job[w].to \notin Unmade
           /\ pc[w] = "run" => job[w].to \in Executed
    BY <1>1, TaskFacts DEF Executed
  <1>5. QED
    BY <1>1, <1>2, <1>3, <1>4

\* Those who use a contract are its owners.
LEMMA LiveValues ==
    ASSUME Inv PROVE OnlyLiveValues
  <1>1. /\ \A c \in Contracts : owners_count[c] =
              (IF c \in Owned THEN 1 ELSE 0) + (IF c \in Promised THEN 1 ELSE 0)
        /\ \A c \in Contracts : c \in Owned \/ c \in Promised => owners_count[c] > 0
    BY DEF Inv, OwnersInv
  <1>2. ASSUME NEW t \in Clients, pc[t] # "idle", NEW c \in Range(rest[t])
        PROVE  owners_count[c] > 0
    <2>1. todo[t] # << >> /\ c \in Range(Call(t).at)
      BY <1>2 DEF Inv, ClientInv, ClientOK
    <2>2. c \in Contracts /\ c \notin Unmade
      BY <2>1, Used DEF Inv
    <2>3. Keeps(t, c)
      BY <1>2, <2>1, FirstCall DEF Inv
    <2>4. QED
      BY <1>1, <2>2, <2>3 DEF Owned
  <1>3. ASSUME NEW w \in Workers, pc[w] \in {"set", "exchange", "invoke", "notify", "drop"}
        PROVE  owners_count[job[w].to] > 0
    <2>1. job[w].to \in Contracts
      BY <1>3, JobTypes DEF Inv, WorkerInv, WorkerOK, Setting, Tasks
    <2>2. job[w].to \in InSetting
      BY <1>3, <2>1 DEF InSetting, Sets, Setting
    <2>3. QED
      BY <1>1, <2>1, <2>2 DEF Promised
  <1>4. ASSUME NEW w \in Workers, pc[w] = "run", job[w].op = "All"
        PROVE  ~group[job[w].to].deleted
    <2>1. Active /\ job[w].op # "Execute" /\ job[w].to # Null
      BY <1>4, JobTypes, TaskFacts, RunFacts DEF Inv
    <2>2. job[w].to \in Contracts /\ job[w].to \in Grouped /\ Uncounted(job[w].to) # {}
      BY <1>4, <2>1, RunFacts
    <2>3. QED
      BY <2>1, <2>2 DEF Inv, CountInv
  <1>5. QED
    BY <1>2, <1>3, <1>4 DEF OnlyLiveValues

\* A group that has not counted an input counts it.
LEMMA CountFacts ==
    ASSUME TypeOK, GroupInv, CountInv, Active, NEW d \in Contracts,
           Made(d).op \in {"All", "FirstOf"}
    PROVE  /\ IsFiniteSet(Inputs(d)) /\ IsFiniteSet(Uncounted(d)) /\ Uncounted(d) \subseteq Inputs(d)
           /\ Cardinality(Inputs(d)) = Len(Made(d).at) /\ Len(Made(d).at) \in Nat
           /\ group[d].count = Cardinality(Uncounted(d)) /\ group[d].count \in Nat
           /\ group[d].count <= Len(Made(d).at)
           /\ group[d].count = 0 <=> Uncounted(d) = {}
           /\ group[d].count = Len(Made(d).at) => Uncounted(d) = Inputs(d)
  <1>1. Made(d).at \in Seq(Contracts) /\ WellFormed(Made(d))
    BY DEF TypeOK, Calls, Made, GroupInv, Grouped
  <1>2. /\ IsFiniteSet(Inputs(d)) /\ Cardinality(Inputs(d)) = Len(Made(d).at)
        /\ Len(Made(d).at) \in Nat
    BY <1>1, InjectiveCardinality, LenProperties DEF Inputs, WellFormed
  <1>3. Uncounted(d) \in SUBSET Inputs(d)
    BY DEF Uncounted
  <1>4. /\ IsFiniteSet(Uncounted(d)) /\ Cardinality(Uncounted(d)) <= Cardinality(Inputs(d))
        /\ Cardinality(Inputs(d)) = Cardinality(Uncounted(d)) => Inputs(d) = Uncounted(d)
    BY <1>2, <1>3, FS_Subset
  <1>5. Cardinality(Uncounted(d)) \in Nat /\ (Cardinality(Uncounted(d)) = 0 <=> Uncounted(d) = {})
    BY <1>4, FS_CardinalityType, FS_EmptySet
  <1>6. group[d].count = Cardinality(Uncounted(d))
    BY DEF CountInv
  <1>7. QED
    BY <1>2, <1>3, <1>4, <1>5, <1>6

------------------------------------------------------------------------------
\* Every variable keeps its type.
LEMMA TypeStep ==
    ASSUME Inv, Next PROVE TypeOK'
  <1> USE DEF Inv
  <1> DEFINE Labels == {"idle", "subscribe", "submit", "drop", "wait", "asleep", "read", "run",
                        "compare", "set", "exchange", "invoke", "notify"}
  <1>1. ASSUME NEW t \in Clients, Execute(t) PROVE TypeOK'
    <2>1. todo[t] # << >> /\ Call(t).op = "Execute"
      BY <1>1 DEF Execute, Next_
    <2>2. Call(t).to \in Contracts
      BY <2>1, CallFacts DEF WellFormed
    <2>3. [NoTask EXCEPT !.to = Call(t).to] \in Tasks
      BY <2>2, Constants DEF NoTask, Tasks
    <2>4. tasks' \in Seq(Tasks)
      BY <1>1, <2>3, AppendFacts DEF Execute, TypeOK
    <2>5. Tail(todo[t]) \in Seq(Calls)
      BY <2>1, HeadTailFacts DEF TypeOK
    <2>6. todo' \in [Clients -> Seq(Calls)]
      BY <1>1, <2>5 DEF Execute, TypeOK
    <2>7. owners_count' \in [Contracts -> 0..2]
      BY <1>1 DEF Execute, Make, TypeOK
    <2>8. pc' = pc
      BY <1>1 DEF Execute, Goto, TypeOK
    <2>9. QED
      BY <1>1, <2>4, <2>6, <2>7, <2>8 DEF Execute, TypeOK, groups, worker
  <1>2. ASSUME NEW t \in Clients, Attach(t) PROVE TypeOK'
    <2>1. todo[t] # << >>
      BY <1>2 DEF Attach, Next_
    <2>2. Call(t) \in Calls /\ Call(t).at \in Seq(Contracts) /\ Len(Call(t).at) \in Nat
      BY <2>1, CallFacts, LenProperties
    <2>3. group' \in [Contracts -> [call : Calls, count : Nat, deleted : BOOLEAN]]
      BY <1>2, <2>2 DEF Attach, TypeOK
    <2>4. rest' \in [Clients -> Seq(Contracts)]
      BY <1>2, <2>2 DEF Attach, TypeOK
    <2>5. owners_count' \in [Contracts -> 0..2]
      BY <1>2 DEF Attach, Make, TypeOK
    <2>6. pc' \in [Actors -> Labels]
      BY <1>2 DEF Attach, Goto, TypeOK
    <2>7. QED
      BY <1>2, <2>3, <2>4, <2>5, <2>6 DEF Attach, TypeOK, executor, worker
  <1>3. ASSUME NEW t \in Clients, SetCallback(t) PROVE TypeOK'
    <2> DEFINE c == Head(rest[t])
               f == [op |-> Call(t).op, to |-> Call(t).to]
    <2>1. pc[t] = "subscribe" /\ pc[t] # "idle" /\ Call(t).op \in Attaching
      BY <1>3 DEF SetCallback, ClientInv, ClientOK
    <2>2. todo[t] # << >> /\ Tail(rest[t]) \in Seq(Contracts)
      BY <2>1, HeadFacts
    <2>3. f \in Callbacks /\ Call(t).at \in Seq(Contracts)
      BY <2>1, <2>2, CallFacts DEF Callbacks
    <2>4. \A d \in Contracts : callback'[d] = f \/ callback'[d] = callback[d]
      BY <1>3 DEF SetCallback
    <2>5. pc' \in [Actors -> Labels] /\ rest' \in [Clients -> Seq(Contracts)]
      BY <1>3, <2>2, <2>3 DEF SetCallback, Subscribed, TypeOK
    <2>6. \A d \in Contracts : callback'[d] \in {Null, kValueIsSet} \/ callback'[d] \in Callbacks
      BY <2>3, <2>4 DEF TypeOK
    <2>7. QED
      BY <1>3, <2>5, <2>6 DEF SetCallback, TypeOK, groups, executor, worker
  <1>4. ASSUME NEW t \in Clients, SubmitCallback(t) PROVE TypeOK'
    <2> DEFINE c == Head(rest[t])
               j == [op |-> Call(t).op, to |-> Call(t).to, from |-> c, result |-> value[c]]
    <2>1. pc[t] = "submit" /\ pc[t] # "idle" /\ Call(t).op \in Attaching
      BY <1>4 DEF SubmitCallback, ClientInv, ClientOK
    <2>2. todo[t] # << >> /\ Tail(rest[t]) \in Seq(Contracts) /\ c \in Contracts
      BY <2>1, HeadFacts
    <2>3. value[c] \in Results /\ Call(t).at \in Seq(Contracts) /\ Call(t).to \in Contracts \cup {Null}
      BY <2>1, <2>2, CallFacts DEF ContractInv, Submitting, Submits
    <2>4. j \in Tasks
      BY <2>1, <2>2, <2>3 DEF Tasks
    <2>5. tasks' = Append(tasks, j)
      BY <1>4 DEF SubmitCallback, Submit
    <2>6. tasks' \in Seq(Tasks)
      BY <2>4, <2>5, AppendFacts DEF TypeOK
    <2> HIDE DEF j, c
    <2>7. pc' \in [Actors -> Labels] /\ rest' \in [Clients -> Seq(Contracts)]
      BY <1>4, <2>2, <2>3 DEF SubmitCallback, Subscribed, TypeOK
    <2>8. /\ value' \in [Contracts -> Results \cup {Null, Moved}]
          /\ taken' \in [Contracts -> Results \cup {None}]
      BY <1>4, <2>3 DEF SubmitCallback, Submit, TypeOK, c
    <2>9. QED
      BY <1>4, <2>6, <2>7, <2>8 DEF SubmitCallback, TypeOK, groups, worker
  <1>5. ASSUME NEW t \in Clients, DropFuture(t) PROVE TypeOK'
    <2>1. pc[t] = "drop" /\ pc[t] # "idle"
      BY <1>5 DEF DropFuture, Goto
    <2>2. /\ todo[t] # << >> /\ Tail(rest[t]) \in Seq(Contracts)
          /\ Head(rest[t]) \in Contracts /\ Head(rest[t]) \in Range(rest[t])
      BY <2>1, HeadFacts
    <2>3. owners_count[Head(rest[t])] > 0
      BY <2>1, <2>2, LiveValues DEF OnlyLiveValues
    <2>4. owners_count' \in [Contracts -> 0..2]
      BY <1>5, <2>2, <2>3 DEF DropFuture, Destroy, TypeOK
    <2>5. Tail(todo[t]) \in Seq(Calls)
      BY <2>2, HeadTailFacts DEF TypeOK
    <2>6. todo' \in [Clients -> Seq(Calls)] /\ rest' \in [Clients -> Seq(Contracts)]
      BY <1>5, <2>2, <2>5 DEF DropFuture, TypeOK
    <2>7. pc' \in [Actors -> Labels]
      BY <1>5 DEF DropFuture, Goto, TypeOK
    <2>8. QED
      BY <1>5, <2>4, <2>6, <2>7 DEF DropFuture, TypeOK, groups, executor, worker
  <1>6. ASSUME NEW t \in Clients, GetResult(t) PROVE TypeOK'
    <2>1. Call(t).at \in Seq(Contracts)
      BY <1>6, CallFacts DEF GetResult, Next_
    <2>2. pc' \in [Actors -> Labels] /\ rest' \in [Clients -> Seq(Contracts)]
      BY <1>6, <2>1 DEF GetResult, Goto, TypeOK
    <2>3. QED
      BY <1>6, <2>2 DEF GetResult, TypeOK, contract, groups, executor, worker
  <1>7. ASSUME NEW t \in Clients, Wait(t) PROVE TypeOK'
    <2>1. pc' \in [Actors -> Labels]
      BY <1>7 DEF Wait, Goto, TypeOK
    <2>2. QED
      BY <1>7, <2>1 DEF Wait, TypeOK, contract, groups, executor, client, worker
  <1>8. ASSUME NEW t \in Clients, Read(t) PROVE TypeOK'
    <2> DEFINE c == Head(rest[t])
    <2>1. pc[t] = "read" /\ pc[t] # "idle"
      BY <1>8 DEF Read, Goto
    <2>2. c \in Contracts /\ callback[c] = kValueIsSet /\ c \in Unsubscribed
      BY <1>8, <2>1, HeadFacts, ReadViews DEF MeetInv
    <2>3. value[c] \in Results
      BY <2>2 DEF ContractInv, TypeOK
    <2> HIDE DEF c
    <2>4. /\ value' \in [Contracts -> Results \cup {Null, Moved}]
          /\ taken' \in [Contracts -> Results \cup {None}]
      BY <1>8, <2>3 DEF Read, TypeOK, c
    <2>5. pc' \in [Actors -> Labels]
      BY <1>8 DEF Read, Goto, TypeOK
    <2>6. QED
      BY <1>8, <2>4, <2>5 DEF Read, TypeOK, groups, executor, client, worker
  <1>9. ASSUME NEW w \in Workers, Take(w) PROVE TypeOK'
    <2>1. PICK i \in DOMAIN tasks : job' = [job EXCEPT ![w] = tasks[i]] /\ tasks' = RemoveAt(tasks, i)
      BY <1>9 DEF Take
    <2>2. tasks[i] \in Tasks /\ tasks' \in Seq(Tasks)
      BY <2>1, JobTypes, QueueOff
    <2>3. job' \in [Workers -> Tasks]
      BY <2>1, <2>2 DEF TypeOK
    <2>4. pc' \in [Actors -> Labels]
      BY <1>9 DEF Take, Goto, TypeOK
    <2>5. QED
      BY <1>9, <2>2, <2>3, <2>4 DEF Take, TypeOK, contract, groups, client
  <1>10. ASSUME NEW w \in Workers, Run(w) PROVE TypeOK'
    <2>1. PICK r \in Outcomes(job[w]) : job' = [job EXCEPT ![w].result = r]
      BY <1>10 DEF Run
    <2>2. r \in Results
      BY <2>1, Constants DEF Outcomes
    <2>3. job' \in [Workers -> Tasks]
      BY <2>1, <2>2 DEF TypeOK, Tasks
    <2>4. pc' \in [Actors -> Labels]
      BY <1>10 DEF Run, Goto, TypeOK
    <2>5. QED
      BY <1>10, <2>3, <2>4 DEF Run, TypeOK, contract, groups, executor, client
  <1>11. ASSUME NEW w \in Workers, RunSubscriber(w) PROVE TypeOK'
    <2>1. job' \in [Workers -> Tasks] /\ pc' \in [Actors -> Labels]
      BY <1>11, Constants DEF RunSubscriber, Goto, TypeOK
    <2>2. QED
      BY <1>11, <2>1 DEF RunSubscriber, TypeOK, contract, groups, executor, client
  <1>12. ASSUME NEW w \in Workers, RunAll(w) PROVE TypeOK'
    <2> DEFINE d == job[w].to
    <2>1. pc[w] = "run" /\ pc[w] # "idle" /\ job[w].op = "All" /\ job[w] \in Tasks /\ IsTask(job[w])
      BY <1>12, JobTypes DEF RunAll, Goto
    <2>2. /\ d \in Contracts /\ Made(d).op = "All" /\ Uncounted(d) # {} /\ Active
          /\ job[w].from \in Contracts
      BY <2>1, TaskFacts, RunFacts
    <2>3. group[d].count \in Nat /\ group[d].count # 0
      BY <2>2, CountFacts
    <2>4. group[d].count - 1 \in Nat
      BY <2>3
    <2>5. group' \in [Contracts -> [call : Calls, count : Nat, deleted : BOOLEAN]]
      BY <1>12, <2>4 DEF RunAll, TypeOK
    <2>6. job[w].result \in Results
      <3>1. job[w].from # Null /\ job[w].result = taken[job[w].from] /\ value[job[w].from] = Moved
        BY <2>1, TaskFacts DEF WorkInv
      <3>2. QED
        BY <2>2, <3>1 DEF ContractInv, TypeOK
    <2>7. slots' \in [Contracts -> Results \cup {Null}]
      BY <1>12, <2>6 DEF RunAll, TypeOK
    <2>8. \A r \in Results : [job[w] EXCEPT !.result = r] \in Tasks
      BY <2>1 DEF Tasks
    <2>9. job' \in [Workers -> Tasks]
      BY <1>12, <2>8, Constants DEF RunAll, TypeOK
    <2>10. pc' \in [Actors -> Labels]
      BY <1>12 DEF RunAll, Goto, TypeOK
    <2>11. QED
      BY <1>12, <2>5, <2>7, <2>9, <2>10 DEF RunAll, TypeOK, contract, executor, client
  <1>13. ASSUME NEW w \in Workers, RunFirstOf(w) PROVE TypeOK'
    <2> DEFINE d == job[w].to
    <2>1. pc[w] = "run" /\ pc[w] # "idle" /\ job[w].op = "FirstOf" /\ job[w] \in Tasks /\ IsTask(job[w])
      BY <1>13, JobTypes DEF RunFirstOf, Goto
    <2>2. d \in Contracts /\ Made(d).op = "FirstOf" /\ Uncounted(d) # {} /\ Active
      BY <2>1, TaskFacts, RunFacts
    <2>3. group[d].count \in Nat /\ group[d].count # 0
      BY <2>2, CountFacts
    <2>4. group[d].count - 1 \in Nat
      BY <2>3
    <2>5. group' \in [Contracts -> [call : Calls, count : Nat, deleted : BOOLEAN]]
      BY <1>13, <2>4 DEF RunFirstOf, TypeOK
    <2>6. old_count' \in [Workers -> Nat]
      BY <1>13, <2>3 DEF RunFirstOf, TypeOK
    <2>7. pc' \in [Actors -> Labels]
      BY <1>13 DEF RunFirstOf, Goto, TypeOK
    <2>8. QED
      BY <1>13, <2>5, <2>6, <2>7 DEF RunFirstOf, TypeOK, contract, executor, client
  <1>14. ASSUME NEW w \in Workers, Compare(w) PROVE TypeOK'
    <2>1. PICK first \in BOOLEAN :
             /\ pc' = [pc EXCEPT ![w] = IF first THEN "set" ELSE "idle"]
             /\ job' = IF first THEN job ELSE [job EXCEPT ![w] = NoTask]
             /\ group' = [group EXCEPT ![job[w].to].deleted = @ \/ (~first /\ old_count[w] = 1)]
      BY <1>14 DEF Compare
    <2>2. group' \in [Contracts -> [call : Calls, count : Nat, deleted : BOOLEAN]]
      <3>1. PICK b : group' = [group EXCEPT ![job[w].to].deleted = b] /\ b \in BOOLEAN
        BY <2>1 DEF TypeOK
      <3>2. QED
        BY <3>1 DEF TypeOK
    <2>3. job' \in [Workers -> Tasks]
      BY <2>1, Constants DEF TypeOK
    <2>4. pc' \in [Actors -> Labels]
      BY <2>1 DEF TypeOK
    <2>5. QED
      BY <1>14, <2>2, <2>3, <2>4 DEF Compare, TypeOK, contract, executor, client
  <1>15. ASSUME NEW w \in Workers, SetValue(w) PROVE TypeOK'
    <2>1. job[w].result \in Results
      BY <1>15 DEF SetValue, Goto, WorkerInv, WorkerOK
    <2>2. value' \in [Contracts -> Results \cup {Null, Moved}]
      BY <1>15, <2>1 DEF SetValue, TypeOK
    <2>3. pc' \in [Actors -> Labels]
      BY <1>15 DEF SetValue, Goto, TypeOK
    <2>4. QED
      BY <1>15, <2>2, <2>3 DEF SetValue, TypeOK, groups, executor, client, worker
  <1>16. ASSUME NEW w \in Workers, Exchange(w) PROVE TypeOK'
    <2>1. job[w].to \in Contracts
      BY <1>16, JobTypes DEF Exchange, Goto, WorkerInv, WorkerOK, Setting, Tasks
    <2>2. \A d \in Contracts : callback'[d] = kValueIsSet \/ callback'[d] = callback[d]
      BY <1>16 DEF Exchange
    <2>3. \A d \in Contracts : callback'[d] \in {Null, kValueIsSet} \/ callback'[d] \in Callbacks
      BY <2>2 DEF TypeOK
    <2>4. \A v \in Workers : old_callback'[v] = callback[job[w].to] \/ old_callback'[v] = old_callback[v]
      BY <1>16 DEF Exchange
    <2>5. \A v \in Workers : old_callback'[v] \in {Null, kValueIsSet} \/ old_callback'[v] \in Callbacks
      BY <2>1, <2>4 DEF TypeOK
    <2>6. pc' \in [Actors -> Labels]
      BY <1>16 DEF Exchange, Goto, TypeOK
    <2>7. QED
      BY <1>16, <2>3, <2>5, <2>6 DEF Exchange, TypeOK, groups, executor, client
  <1>17. ASSUME NEW w \in Workers, Invoke(w) PROVE TypeOK'
    <2> DEFINE d == job[w].to
               f == old_callback[w]
               j == [op |-> f.op, to |-> f.to, from |-> d, result |-> value[d]]
    <2>1. pc[w] = "invoke" /\ d \in Contracts /\ value[d] \in Results /\ f \in Callbacks
      BY <1>17, JobTypes DEF Invoke, Goto, WorkerInv, WorkerOK, Setting, Tasks, MeetInv
    <2>2. j \in Tasks
      BY <2>1 DEF Tasks, Callbacks
    <2>3. tasks' = Append(tasks, j)
      BY <1>17 DEF Invoke, Submit
    <2>4. tasks' \in Seq(Tasks)
      BY <2>2, <2>3, AppendFacts DEF TypeOK
    <2> HIDE DEF j
    <2>5. /\ value' \in [Contracts -> Results \cup {Null, Moved}]
          /\ taken' \in [Contracts -> Results \cup {None}]
      BY <1>17, <2>1 DEF Invoke, Submit, TypeOK
    <2>6. pc' \in [Actors -> Labels]
      BY <1>17 DEF Invoke, Goto, TypeOK
    <2>7. QED
      BY <1>17, <2>4, <2>5, <2>6 DEF Invoke, TypeOK, groups, client, worker
  <1>18. ASSUME NEW w \in Workers, Notify(w) PROVE TypeOK'
    <2>1. pc' \in [Actors -> Labels]
      BY <1>18 DEF Notify, TypeOK
    <2>2. QED
      BY <1>18, <2>1 DEF Notify, TypeOK, contract, groups, executor, client, worker
  <1>19. ASSUME NEW w \in Workers, DropPromise(w) PROVE TypeOK'
    <2>1. job[w].to \in Contracts /\ owners_count[job[w].to] > 0
      BY <1>19, JobTypes, LiveValues DEF DropPromise, Goto, WorkerInv, WorkerOK, Setting, Tasks, OnlyLiveValues
    <2>2. owners_count' \in [Contracts -> 0..2]
      BY <1>19, <2>1 DEF DropPromise, Destroy, TypeOK
    <2>3. group' \in [Contracts -> [call : Calls, count : Nat, deleted : BOOLEAN]]
      BY <1>19 DEF DropPromise, TypeOK
    <2>4. job' \in [Workers -> Tasks] /\ pc' \in [Actors -> Labels]
      BY <1>19, Constants DEF DropPromise, Goto, TypeOK
    <2>5. QED
      BY <1>19, <2>2, <2>3, <2>4 DEF DropPromise, TypeOK, executor, client
  <1>20. CASE Stop
    BY <1>20 DEF Stop, TypeOK, contract, groups, client, worker
  <1>21. CASE Discard
    <2>1. PICK i \in DOMAIN tasks :
             /\ tasks' = RemoveAt(tasks, i)
             /\ IF tasks[i].op = "Execute" THEN Destroy(tasks[i].to) ELSE UNCHANGED owners_count
      BY <1>21 DEF Discard
    <2>2. tasks[i] \in Tasks /\ IsTask(tasks[i]) /\ tasks' \in Seq(Tasks)
      BY <2>1, JobTypes, QueueOff
    <2>3. owners_count' \in [Contracts -> 0..2]
      <3>1. CASE tasks[i].op = "Execute"
        <4>1. tasks[i].to \in Contracts /\ tasks[i].to \in Promised
          BY <2>2, <3>1, TaskFacts DEF Promised, Executed
        <4>2. owners_count[tasks[i].to] > 0
          BY <4>1 DEF OwnersInv
        <4>3. owners_count' = [owners_count EXCEPT ![tasks[i].to] = @ - 1]
          BY <2>1, <3>1 DEF Destroy
        <4>4. QED
          BY <4>1, <4>2, <4>3 DEF TypeOK
      <3>2. CASE tasks[i].op # "Execute"
        BY <2>1, <3>2 DEF TypeOK
      <3>3. QED
        BY <3>1, <3>2
    <2>4. QED
      BY <1>21, <2>2, <2>3 DEF Discard, TypeOK, groups, client, worker
  <1>22. QED
    BY <1>1, <1>2, <1>3, <1>4, <1>5, <1>6, <1>7, <1>8, <1>9, <1>10, <1>11, <1>12, <1>13, <1>14,
       <1>15, <1>16, <1>17, <1>18, <1>19, <1>20, <1>21 DEF Next, ClientStep, WorkerStep

------------------------------------------------------------------------------
\* A program stays one in which each future is used once.
LEMMA TodoCases ==
    ASSUME TypeOK, ClientInv, Next
    PROVE  \/ todo' = todo
           \/ \E t \in Clients : Finishes(t) /\ \A u \in Clients \ {t} : todo'[u] = todo[u]
  <1>1. ASSUME NEW t \in Clients, ClientStep(t)
        PROVE  \/ todo' = todo
               \/ Finishes(t) /\ \A u \in Clients \ {t} : todo'[u] = todo[u]
    <2>1. CASE Execute(t)
      BY <2>1, Constants DEF Execute, Next_, Goto, Finishes, TypeOK
    <2>2. CASE DropFuture(t)
      <3>1. todo[t] # << >>
        BY <2>2, HeadFacts DEF DropFuture, Goto
      <3>2. QED
        BY <2>2, <3>1, Constants DEF DropFuture, Goto, Finishes, TypeOK
    <2>3. QED
      BY <1>1, <2>1, <2>2 DEF ClientStep, Attach, SetCallback, SubmitCallback, GetResult, Wait, Read,
                              client
  <1>2. QED
    BY <1>1
       DEF Next, WorkerStep, Take, Run, RunSubscriber, RunAll, RunFirstOf, Compare, SetValue,
           Exchange, Invoke, Notify, DropPromise, Stop, Discard, client

LEMMA ProgramStep ==
    ASSUME Inv, Next PROVE ProgramInv'
  <1> USE DEF Inv
  <1>1. CASE todo' = todo
    BY <1>1 DEF ProgramInv, Uses
  <1>2. ASSUME NEW t \in Clients, Finishes(t), \A u \in Clients \ {t} : todo'[u] = todo[u]
        PROVE  ProgramInv'
    <2> DEFINE at(u, i) == IF u = t THEN i + 1 ELSE i
    <2>1. /\ \A i \in DOMAIN todo'[t] : /\ i + 1 \in DOMAIN todo[t] \ {1} /\ i \in Nat
                                        /\ todo'[t][i] = todo[t][i + 1]
          /\ \A i \in DOMAIN todo[t] \ {1} : /\ i - 1 \in DOMAIN todo'[t] /\ i \in Nat
                                             /\ todo'[t][i - 1] = todo[t][i]
      BY <1>2, Advance
    <2>2. \A u \in Clients : \A i \in DOMAIN todo'[u] :
              at(u, i) \in DOMAIN todo[u] /\ todo'[u][i] = todo[u][at(u, i)]
      BY <1>2, <2>1
    <2>3. \A u, v \in Clients : \A i \in DOMAIN todo'[u], j \in DOMAIN todo'[v] :
              /\ u # v \/ i # j => u # v \/ at(u, i) # at(v, j)
              /\ u = v /\ at(v, j) < at(u, i) => j < i
      <3>1. \A u \in Clients : \A i \in DOMAIN todo'[u] : i \in Nat
        <4>1. \A u \in Clients : todo[u] \in Seq(Calls)
          BY DEF TypeOK
        <4>2. \A u \in Clients : \A i \in DOMAIN todo[u] : i \in Nat
          BY <4>1, LenProperties
        <4>3. QED
          BY <1>2, <2>1, <4>2
      <3>2. QED
        BY <3>1
    <2> HIDE DEF at
    <2>4. ASSUME NEW u \in Clients, NEW i \in DOMAIN todo'[u]
          PROVE  /\ WellFormed(todo'[u][i])
                 /\ todo'[u][i].to # Null =>
                       \E j \in DOMAIN todo'[u] : j > i /\ todo'[u][i].to \in Range(todo'[u][j].at)
      <3>1. WellFormed(todo[u][at(u, i)])
        BY <2>2 DEF ProgramInv
      <3>2. ASSUME todo'[u][i].to # Null
            PROVE  \E j \in DOMAIN todo'[u] : j > i /\ todo'[u][i].to \in Range(todo'[u][j].at)
        <4>1. PICK j \in DOMAIN todo[u] :
                 j > at(u, i) /\ todo'[u][i].to \in Range(todo[u][j].at)
          BY <2>2, <3>2 DEF ProgramInv, Uses
        <4>2. CASE u = t
          <5>1. j # 1 /\ j - 1 > i
            <6>1. i \in Nat /\ j > i + 1 /\ j \in Int
              <7>1. todo[u] \in Seq(Calls)
                BY DEF TypeOK
              <7>2. \A k \in DOMAIN todo[u] : k \in Int
                BY <7>1, LenProperties
              <7>3. QED
                BY <2>1, <4>1, <4>2, <7>2 DEF at
            <6>2. QED
              BY <6>1
          <5>2. QED
            BY <2>1, <4>1, <4>2, <5>1
        <4>3. CASE u # t
          BY <1>2, <4>1, <4>3 DEF at
        <4>4. QED
          BY <4>2, <4>3
      <3>3. QED
        BY <2>2, <3>1, <3>2
    <2>5. ASSUME NEW u \in Clients, NEW v \in Clients, NEW i \in DOMAIN todo'[u], NEW j \in DOMAIN todo'[v]
          PROVE  /\ u # v \/ i # j =>
                       /\ Range(todo'[u][i].at) \cap Range(todo'[v][j].at) = {}
                       /\ todo'[u][i].to = todo'[v][j].to => todo'[u][i].to = Null
                 /\ todo'[v][j].to \in Range(todo'[u][i].at) => u = v /\ j < i
      <3>1. /\ at(u, i) \in DOMAIN todo[u] /\ todo'[u][i] = todo[u][at(u, i)]
            /\ at(v, j) \in DOMAIN todo[v] /\ todo'[v][j] = todo[v][at(v, j)]
        BY <2>2
      <3>2. /\ u # v \/ at(u, i) # at(v, j) =>
                  /\ Range(todo[u][at(u, i)].at) \cap Range(todo[v][at(v, j)].at) = {}
                  /\ todo[u][at(u, i)].to = todo[v][at(v, j)].to => todo[u][at(u, i)].to = Null
            /\ todo[v][at(v, j)].to \in Range(todo[u][at(u, i)].at) => u = v /\ at(v, j) < at(u, i)
        BY <3>1 DEF ProgramInv
      <3>3. QED
        BY <2>3, <3>1, <3>2
    <2>6. QED
      BY <2>4, <2>5 DEF ProgramInv, Uses
  <1>3. QED
    BY <1>1, <1>2, TodoCases

\* A client that makes no progress, and whose group stays.
LEMMA SameClient ==
    ASSUME NEW t \in Clients, ClientOK(t), todo'[t] = todo[t], rest'[t] = rest[t],
           pc'[t] = pc[t] \/ {pc[t], pc'[t]} \subseteq {"wait", "asleep", "read"},
           pc[t] # "idle" /\ Call(t).to # Null => Made(Call(t).to)' = Made(Call(t).to)
    PROVE  ClientOK(t)'
  BY DEF ClientOK, Call

\* Only Attach makes a group.
LEMMA GroupCases ==
    ASSUME TypeOK, Next
    PROVE  \/ \E t \in Clients : Attach(t)
           \/ \A d \in Contracts : Made(d)' = Made(d)
  <1>1. ASSUME NEW t \in Clients, ClientStep(t), ~Attach(t)
        PROVE  group' = group
    BY <1>1 DEF ClientStep, Execute, SetCallback, SubmitCallback, DropFuture, GetResult, Wait, Read, groups
  <1>2. ASSUME NEW w \in Workers, WorkerStep(w)
        PROVE  \A d \in Contracts : Made(d)' = Made(d)
    <2>1. ASSUME RunAll(w) \/ RunFirstOf(w) \/ Compare(w) \/ DropPromise(w)
          PROVE  \E n, b : \/ group' = [group EXCEPT ![job[w].to].count = n]
                          \/ group' = [group EXCEPT ![job[w].to].deleted = b]
      BY <2>1 DEF RunAll, RunFirstOf, Compare, DropPromise
    <2>2. RunAll(w) \/ RunFirstOf(w) \/ Compare(w) \/ DropPromise(w) \/ group' = group
      BY <1>2 DEF WorkerStep, Take, Run, RunSubscriber, SetValue, Exchange, Invoke, Notify, groups
    <2>3. ASSUME NEW n, group' = [group EXCEPT ![job[w].to].count = n]
          PROVE  \A d \in Contracts : Made(d)' = Made(d)
      BY <2>3 DEF TypeOK, Made
    <2>4. ASSUME NEW b, group' = [group EXCEPT ![job[w].to].deleted = b]
          PROVE  \A d \in Contracts : Made(d)' = Made(d)
      BY <2>4 DEF TypeOK, Made
    <2>5. QED
      BY <2>1, <2>2, <2>3, <2>4 DEF Made
  <1>3. QED
    BY <1>1, <1>2 DEF Next, Stop, Discard, groups, Made

\* A step of a client leaves the others and the workers alone, and one of a worker
\* the clients, except that it may wake them.
LEMMA ClientFrame ==
    ASSUME TypeOK, NEW t \in Clients, ClientStep(t)
    PROVE  /\ OthersStay(t) /\ \A w \in Workers : pc'[w] = pc[w]
           /\ job' = job /\ old_callback' = old_callback /\ old_count' = old_count
           /\ stopped' = stopped /\ slots' = slots
  <1>1. OthersStay(t) /\ \A w \in Workers : pc'[w] = pc[w]
    <2>1. /\ \A a \in Actors \ {t} : pc'[a] = pc[a]
          /\ \A u \in Clients \ {t} : rest'[u] = rest[u] /\ todo'[u] = todo[u]
      BY DEF TypeOK, ClientStep, Execute, Attach, SetCallback, SubmitCallback, Subscribed, DropFuture,
             GetResult, Wait, Read, Goto, client
    <2>2. QED
      BY <2>1, Constants DEF OthersStay
  <1>2. QED
    BY <1>1 DEF ClientStep, Execute, Attach, SetCallback, SubmitCallback, DropFuture, GetResult, Wait,
                Read, worker, executor, groups

LEMMA WorkerFrame ==
    ASSUME TypeOK, WorkerInv, NEW w \in Workers, WorkerStep(w)
    PROVE  /\ ClientsStay /\ OthersWork(w) /\ stopped' = stopped
           /\ pc[w] = "notify" \/ \A t \in Clients : pc'[t] = pc[t]
  <1>1. CASE Notify(w)
    <2>1. pc[w] = "notify" /\ todo' = todo /\ rest' = rest /\ job' = job /\ stopped' = stopped
      BY <1>1 DEF Notify, client, executor, worker
    <2>2. \A a \in Actors \ {w} : pc'[a] = IF pc[a] = "asleep" /\ Head(rest[a]) = job[w].to
                                         THEN "wait" ELSE pc[a]
      BY <1>1 DEF Notify
    <2>3. \A t \in Clients : pc'[t] = pc[t] \/ (pc[t] = "asleep" /\ pc'[t] = "wait")
      BY <2>2, Constants
    <2>4. \A v \in Workers \ {w} : pc[v] # "asleep" => pc'[v] = pc[v]
      BY <2>2, Constants
    <2>5. QED
      BY <2>1, <2>3, <2>4 DEF ClientsStay, OthersWork, WorkerInv, WorkerOK, Setting
  <1>2. CASE ~Notify(w)
    <2>1. \A a \in Actors \ {w} : pc'[a] = pc[a]
      BY <1>2 DEF TypeOK, WorkerStep, Take, Run, RunSubscriber, RunAll, RunFirstOf, Compare, SetValue,
                  Exchange, Invoke, DropPromise, Goto
    <2>2. \A v \in Workers \ {w} : job'[v] = job[v]
      BY <1>2 DEF TypeOK, WorkerStep, Take, Run, RunSubscriber, RunAll, RunFirstOf, Compare, SetValue,
                  Exchange, Invoke, DropPromise, worker
    <2>3. todo' = todo /\ rest' = rest /\ stopped' = stopped
      BY <1>2 DEF WorkerStep, Take, Run, RunSubscriber, RunAll, RunFirstOf, Compare, SetValue, Exchange,
                  Invoke, DropPromise, client, executor
    <2>4. QED
      BY <2>1, <2>2, <2>3, Constants DEF ClientsStay, OthersWork
  <1>3. QED
    BY <1>1, <1>2

LEMMA ClientInvStep ==
    ASSUME Inv, Next PROVE ClientInv'
  <1> USE DEF Inv
  <1>1. ASSUME NEW t \in Clients, ClientStep(t) PROVE ClientInv'
    <2>1. ASSUME NEW u \in Clients \ {t} PROVE ClientOK(u)'
      <3>1. pc'[u] = pc[u] /\ rest'[u] = rest[u] /\ todo'[u] = todo[u]
        BY <1>1, ClientFrame DEF OthersStay
      <3>2. ASSUME pc[u] # "idle", Call(u).to # Null PROVE Made(Call(u).to)' = Made(Call(u).to)
        <4>1. /\ todo[u] # << >> /\ 1 \in DOMAIN todo[u] /\ Call(u) = todo[u][1]
              /\ Call(u).to \in Contracts /\ Call(u)' = Call(u)
          BY <3>1, <3>2, CallFacts DEF ClientInv, ClientOK, Call
        <4>2. CASE Attach(t)
          <5>1. todo[t] # << >> /\ 1 \in DOMAIN todo[t] /\ Call(t) = todo[t][1]
            BY <4>2, CallFacts DEF Attach, Next_
          <5>2. Call(u).to # Call(t).to
            BY <4>1, <5>1, OneCall, Constants
          <5>3. QED
            BY <4>1, <4>2, <5>2 DEF Attach, Made
        <4>3. CASE ~Attach(t)
          BY <1>1, <4>1, <4>3 DEF ClientStep, Execute, SetCallback, SubmitCallback, DropFuture, GetResult,
                                  Wait, Read, groups, Made
        <4>4. QED
          BY <4>2, <4>3
      <3>3. QED
        BY <3>1, <3>2, SameClient DEF ClientInv
    <2>2. ClientOK(t)'
      <3>1. CASE Execute(t)
        BY <3>1 DEF Execute, Goto, ClientOK, TypeOK
      <3>2. CASE Attach(t)
        <4>1. /\ todo[t] # << >> /\ Call(t).op \in Attaching
              /\ todo' = todo /\ pc'[t] = "subscribe" /\ rest'[t] = Call(t).at
          BY <3>2, Constants DEF Attach, Next_, Goto, TypeOK
        <4>2. Call(t).at # << >> /\ IsInjective(Call(t).at) /\ Call(t).to \in Contracts \cup {Null}
          BY <4>1, CallFacts DEF WellFormed, Attaching
        <4>3. Call(t).to # Null => group'[Call(t).to].call = Call(t)
          BY <3>2, <4>2 DEF Attach
        <4>4. Call(t)' = Call(t) /\ (Call(t).to # Null => Made(Call(t).to)' = Call(t))
          BY <4>1, <4>3 DEF Call, Made
        <4>5. QED
          BY <4>1, <4>2, <4>4 DEF ClientOK, Call, Attaching
      <3>3. CASE SetCallback(t) \/ SubmitCallback(t)
        <4>1. /\ pc[t] \in {"subscribe", "submit"} /\ todo' = todo /\ group' = group
              /\ \/ pc'[t] = "submit" /\ rest'[t] = rest[t]
                 \/ pc'[t] = "subscribe" /\ rest'[t] = Tail(rest[t]) /\ Len(rest[t]) > 1
                 \/ pc'[t] = "drop" /\ rest'[t] = Call(t).at
          BY <3>3, Constants DEF SetCallback, SubmitCallback, Subscribed, TypeOK, groups
        <4>2. /\ Call(t).op \in Attaching /\ todo[t] # << >> /\ IsInjective(Call(t).at)
              /\ Range(rest[t]) \subseteq Range(Call(t).at) /\ Call(t).at # << >>
              /\ IsInjective(rest[t]) /\ rest[t] # << >>
          BY <4>1, CallFacts DEF ClientInv, ClientOK, WellFormed
        <4>3. /\ IsInjective(Tail(rest[t])) /\ Range(Tail(rest[t])) \subseteq Range(rest[t])
              /\ Len(rest[t]) > 1 => Tail(rest[t]) # << >>
          BY <4>1, HeadFacts
        <4>4. Call(t)' = Call(t) /\ (Call(t).to # Null => Made(Call(t).to)' = Made(Call(t).to))
          BY <4>1 DEF Call, Made
        <4>5. Call(t).to # Null => Made(Call(t).to) = Call(t)
          BY <4>1 DEF ClientInv, ClientOK
        <4>6. QED
          BY <4>1, <4>2, <4>3, <4>4, <4>5 DEF ClientOK, Call, Attaching, Made
      <3>4. CASE DropFuture(t)
        <4>1. /\ pc[t] = "drop" /\ group' = group /\ rest'[t] = Tail(rest[t])
              /\ \/ pc'[t] = "idle"
                 \/ pc'[t] = "drop" /\ todo' = todo /\ Len(rest[t]) > 1
          BY <3>4, Constants DEF DropFuture, Goto, TypeOK, groups
        <4>2. /\ todo[t] # << >> /\ Range(rest[t]) \subseteq Range(Call(t).at)
              /\ Call(t).op # "Execute"
              /\ Call(t).to # Null => Made(Call(t).to) = Call(t)
          BY <4>1 DEF ClientInv, ClientOK
        <4>3. /\ IsInjective(Tail(rest[t])) /\ Range(Tail(rest[t])) \subseteq Range(rest[t])
              /\ Len(rest[t]) > 1 => Tail(rest[t]) # << >>
          BY <4>1, HeadFacts
        <4>4. QED
          BY <4>1, <4>2, <4>3 DEF ClientOK, Call, Made
      <3>5. CASE GetResult(t)
        <4>1. /\ todo[t] # << >> /\ Call(t).op \in {"GetResult", "Drop"}
              /\ todo' = todo /\ rest'[t] = Call(t).at
              /\ pc'[t] = IF Call(t).op = "Drop" THEN "drop" ELSE "wait"
          BY <3>5, Constants DEF GetResult, Next_, Goto, TypeOK
        <4>2. Call(t).at # << >> /\ IsInjective(Call(t).at) /\ Call(t).to = Null
          BY <4>1, CallFacts DEF WellFormed
        <4>3. QED
          BY <4>1, <4>2 DEF ClientOK, Call
      <3>6. CASE Wait(t) \/ Read(t)
        <4>1. /\ pc[t] \in {"wait", "read"} /\ pc'[t] \in {"asleep", "read", "drop"}
              /\ todo' = todo /\ rest' = rest /\ group' = group
          BY <3>6, Constants DEF Wait, Read, Goto, TypeOK, client, groups
        <4>2. QED
          BY <4>1 DEF ClientInv, ClientOK, Call, Made
      <3>7. QED
        BY <1>1, <3>1, <3>2, <3>3, <3>4, <3>5, <3>6 DEF ClientStep
    <2>3. QED
      BY <2>1, <2>2 DEF ClientInv
  <1>2. ASSUME \/ \E w \in Workers : WorkerStep(w)
               \/ Stop \/ Discard
        PROVE  ClientInv'
    <2>1. ClientsStay
      BY <1>2, WorkerFrame DEF Stop, Discard, ClientsStay, client
    <2>2. \A d \in Contracts : Made(d)' = Made(d)
      <3>1. CASE \E t \in Clients : Attach(t)
        <4>1. PICK t \in Clients : Attach(t)
          BY <3>1
        <4>2. pc[t] = "idle" /\ pc'[t] = "subscribe"
          BY <4>1, Constants DEF Attach, Goto, TypeOK
        <4>3. QED
          BY <2>1, <4>2 DEF ClientsStay
      <3>2. QED
        BY <3>1, GroupCases
    <2>3. ASSUME NEW t \in Clients PROVE ClientOK(t)'
      <3>1. pc[t] # "idle" /\ Call(t).to # Null => Call(t).to \in Contracts
        BY CallFacts DEF ClientInv, ClientOK
      <3>2. Call(t)' = Call(t) /\ todo'[t] = todo[t] /\ rest'[t] = rest[t]
            /\ (pc'[t] = pc[t] \/ {pc[t], pc'[t]} \subseteq {"wait", "asleep", "read"})
        BY <2>1 DEF ClientsStay, Call
      <3>3. pc[t] # "idle" /\ Call(t).to # Null => Made(Call(t).to)' = Made(Call(t).to)
        BY <2>2, <3>1, <3>2 DEF Made
      <3>4. QED
        BY <3>2, <3>3, SameClient DEF ClientInv
    <2>4. QED
      BY <2>3 DEF ClientInv
  <1>3. QED
    BY <1>1, <1>2 DEF Next

------------------------------------------------------------------------------
\* A comparison that is true, even if what it compares with has been deleted, is
\* that of the first callback.
LEMMA FirstFacts ==
    ASSUME Inv, NEW w \in Workers, Compare(w), pc'[w] = "set"
    PROVE  old_count[w] = Len(Made(job[w].to).at) /\ First(job[w].to)
  <1> USE DEF Inv
  <1> DEFINE d == job[w].to
  <1>1. pc[w] = "compare" /\ job[w].op = "FirstOf" /\ job[w] \in Tasks /\ IsTask(job[w])
    BY JobTypes DEF Compare, WorkerInv, WorkerOK
  <1>2. d \in Contracts /\ Made(d).op = "FirstOf" /\ d \in Grouped
    BY <1>1, TaskFacts, RunFacts
  <1>3. /\ old_count[w] \in 1..Len(Made(d).at) /\ (group[d].deleted => old_count[w] # 1)
    BY <1>1 DEF CompareInv
  <1>4. Len(Made(d).at) <= 2 /\ Len(Made(d).at) \in Nat
    <2>1. WellFormed(Made(d)) /\ Made(d).at \in Seq(Contracts)
      BY <1>2 DEF GroupInv, TypeOK, Made, Calls
    <2>2. QED
      BY <1>2, <2>1, LenProperties DEF WellFormed
  <1>5. old_count[w] = Len(Made(d).at)
    <2>1. CASE group[d].deleted
      BY <1>3, <1>4, <2>1
    <2>2. CASE ~group[d].deleted
      BY <2>2 DEF Compare, Made, TypeOK
    <2>3. QED
      BY <2>1, <2>2
  <1>6. QED
    BY <1>1, <1>2, <1>5 DEF First

\* What becomes of the routine that a worker runs.
LEMMA JobCases ==
    ASSUME Inv, NEW w \in Workers, WorkerStep(w)
    PROVE  /\ pc[w] \in {"idle", "run", "compare"} \cup Setting
           /\ pc'[w] \in {"idle", "run", "compare"} \cup Setting
           /\ pc'[w] = "run" <=> pc[w] = "idle"
           /\ pc[w] = "idle" => Take(w)
           /\ pc'[w] = "compare" => RunFirstOf(w)
           /\ pc[w] # "idle" /\ pc'[w] # "idle" =>
                 /\ job'[w].op = job[w].op /\ job'[w].to = job[w].to /\ job'[w].from = job[w].from
                 /\ pc'[w] # "set" => job'[w] = job[w]
           /\ pc[w] \notin Setting /\ pc'[w] \in Setting =>
                 /\ pc'[w] = "set"
                 /\ Run(w) \/ (RunAll(w) /\ group[job[w].to].count = 1) \/ Compare(w)
                 /\ job[w].to \in Contracts
  <1> USE DEF Inv
  <1>1. CASE Take(w)
    BY <1>1 DEF Take, Goto, TypeOK, Actors, Setting
  <1>2. CASE Run(w)
    <2>1. pc[w] = "run" /\ pc'[w] = "set" /\ job[w].op \in {"Execute", "Then", "Recover"}
      BY <1>2, Constants DEF Run, Goto, TypeOK
    <2>2. PICK r : job' = [job EXCEPT ![w].result = r]
      BY <1>2 DEF Run
    <2>3. job[w].to \in Contracts
      BY <2>1, JobTypes, TaskFacts DEF Tasks
    <2>4. job'[w].op = job[w].op /\ job'[w].to = job[w].to /\ job'[w].from = job[w].from
      BY <2>2 DEF TypeOK, Tasks
    <2>5. QED
      BY <1>2, <2>1, <2>3, <2>4 DEF Setting
  <1>3. CASE RunSubscriber(w)
    BY <1>3, Constants DEF RunSubscriber, Goto, TypeOK, Setting
  <1>4. CASE RunAll(w)
    <2>1. /\ pc[w] = "run" /\ job[w].op = "All"
          /\ pc'[w] = IF group[job[w].to].count = 1 THEN "set" ELSE "idle"
      BY <1>4, Constants DEF RunAll, Goto, TypeOK
    <2>2. pc'[w] = "set" => \E r : job' = [job EXCEPT ![w].result = r]
      BY <1>4, <2>1 DEF RunAll
    <2>3. job[w].to \in Contracts
      BY <2>1, JobTypes, TaskFacts DEF Tasks
    <2>4. pc'[w] = "set" =>
             job'[w].op = job[w].op /\ job'[w].to = job[w].to /\ job'[w].from = job[w].from
      BY <2>2 DEF TypeOK, Tasks
    <2>5. QED
      BY <1>4, <2>1, <2>3, <2>4 DEF Setting
  <1>5. CASE RunFirstOf(w)
    BY <1>5, Constants DEF RunFirstOf, Goto, TypeOK, Setting
  <1>6. CASE Compare(w)
    <2>1. pc[w] = "compare" /\ ((pc'[w] = "set" /\ job' = job) \/ pc'[w] = "idle")
      BY <1>6, Constants DEF Compare, TypeOK
    <2>2. job[w].to \in Contracts
      BY <2>1, JobTypes, TaskFacts DEF Tasks, WorkerInv, WorkerOK
    <2>3. QED
      BY <1>6, <2>1, <2>2 DEF Setting
  <1>7. CASE SetValue(w) \/ Exchange(w) \/ Invoke(w) \/ Notify(w) \/ DropPromise(w)
    <2>1. /\ pc[w] \in Setting /\ \/ pc'[w] \in Setting \ {"set"} /\ job' = job
                                  \/ pc'[w] = "idle"
      BY <1>7, Constants DEF SetValue, Exchange, Invoke, Notify, DropPromise, Goto, TypeOK, Setting, worker
    <2>2. QED
      BY <2>1 DEF Setting
  <1>8. QED
    BY <1>1, <1>2, <1>3, <1>4, <1>5, <1>6, <1>7 DEF WorkerStep

\* A worker that comes to set a promise is the only one that does.
LEMMA Entering ==
    ASSUME Inv, NEW w \in Workers, WorkerStep(w), pc[w] \notin Setting, pc'[w] \in Setting
    PROVE  Unset(job[w].to)
  <1> USE DEF Inv
  <1> DEFINE d == job[w].to
  <1>1. /\ Run(w) \/ (RunAll(w) /\ group[d].count = 1) \/ Compare(w)
        /\ d \in Contracts /\ pc'[w] = "set"
    BY JobCases
  <1>2. pc[w] # "idle" /\ Active /\ d # Null
    BY <1>1, Constants DEF Run, RunAll, Compare, Goto, Active
  <1>3. CASE Run(w)
    <2>1. pc[w] = "run" /\ job[w].op \in {"Execute", "Then", "Recover"}
      BY <1>3 DEF Run, Goto
    <2>2. d \in Executed \/ (Made(d).op \in {"Then", "Recover", "All"} /\ Uncounted(d) # {})
      BY <1>2, <2>1, RunFacts
    <2>3. QED
      BY <1>1, <1>2, <2>2 DEF UnsetInv, Leads
  <1>4. CASE RunAll(w)
    <2>1. pc[w] = "run" /\ job[w].op = "All"
      BY <1>4 DEF RunAll, Goto
    <2>2. Made(d).op \in {"Then", "Recover", "All"} /\ Uncounted(d) # {}
      BY <1>2, <2>1, RunFacts
    <2>3. QED
      BY <1>1, <1>2, <2>2 DEF UnsetInv, Leads
  <1>5. CASE Compare(w)
    BY <1>1, <1>2, <1>5, FirstFacts DEF UnsetInv, Leads
  <1>6. QED
    BY <1>1, <1>3, <1>4, <1>5

LEMMA SetterStep ==
    ASSUME Inv, Next PROVE SetterInv'
  <1> USE DEF Inv
  <1>1. ASSUME NEW w \in Workers, WorkerStep(w) PROVE SetterInv'
    <2>1. \A v \in Workers \ {w} : \A d : Sets(v, d)' <=> Sets(v, d)
      BY <1>1, WorkerFrame DEF OthersWork, Sets
    <2>2. CASE pc[w] \in Setting
      <3>1. \A d : Sets(w, d)' => Sets(w, d)
        BY <1>1, <2>2, JobCases DEF Sets, Setting
      <3>2. QED
        BY <2>1, <3>1 DEF SetterInv
    <2>3. CASE pc[w] \notin Setting /\ pc'[w] \in Setting
      <3>1. Unset(job[w].to) /\ job'[w].to = job[w].to /\ job[w].to \in Contracts
        BY <1>1, <2>3, Entering, JobCases DEF Setting
      <3>2. \A v \in Workers : ~Sets(v, job[w].to)
        BY <3>1 DEF Unset, InSetting
      <3>3. \A d : Sets(w, d)' => d = job[w].to
        BY <3>1 DEF Sets
      <3>4. QED
        BY <2>1, <3>2, <3>3 DEF SetterInv
    <2>4. CASE pc'[w] \notin Setting
      BY <2>1, <2>4 DEF SetterInv, Sets
    <2>5. QED
      BY <2>2, <2>3, <2>4
  <1>2. ASSUME (\E t \in Clients : ClientStep(t)) \/ Stop \/ Discard
        PROVE  SetterInv'
    <2>1. \A w \in Workers : pc'[w] = pc[w] /\ job'[w] = job[w]
      BY <1>2, ClientFrame DEF Stop, Discard, worker
    <2>2. QED
      BY <2>1 DEF SetterInv, Sets
  <1>3. QED
    BY <1>1, <1>2 DEF Next

LEMMA WorkerInvStep ==
    ASSUME Inv, Next PROVE WorkerInv'
  <1> USE DEF Inv
  <1>1. ASSUME NEW w \in Workers, WorkerStep(w) PROVE WorkerInv'
    <2>1. \A v \in Workers \ {w} : WorkerOK(v)'
      BY <1>1, WorkerFrame DEF OthersWork, WorkerInv, WorkerOK
    <2>2. /\ pc'[w] \in {"idle", "run", "compare"} \cup Setting
          /\ pc'[w] \in Setting => job'[w].to # Null
      BY <1>1, JobCases, Constants DEF WorkerInv, WorkerOK, Setting
    <2>3. pc'[w] = "compare" => job'[w].op = "FirstOf"
      BY <1>1, JobCases DEF RunFirstOf
    <2>4. ASSUME pc'[w] \in {"set", "exchange", "invoke"} PROVE job'[w].result \in Results
      <3>1. CASE pc'[w] # "set"
        <4>1. pc[w] \in {"set", "exchange"} /\ job'[w] = job[w]
          BY <1>1, <2>4, <3>1, Constants
             DEF WorkerStep, Take, Run, RunSubscriber, RunAll, RunFirstOf, Compare, SetValue, Exchange,
                 Invoke, Notify, DropPromise, Goto, TypeOK, worker
        <4>2. QED
          BY <4>1 DEF WorkerInv, WorkerOK
      <3>2. CASE pc'[w] = "set"
        <4>1. pc[w] \notin Setting
          BY <1>1, <3>2, JobCases, Constants
             DEF WorkerStep, Take, Run, RunSubscriber, RunAll, RunFirstOf, Compare, SetValue, Exchange,
                 Invoke, Notify, DropPromise, Goto, TypeOK, Setting
        <4>2. Run(w) \/ RunAll(w) \/ Compare(w)
          BY <1>1, <3>2, <4>1, JobCases DEF Setting
        <4>3. CASE Run(w)
          <5>1. PICK r \in Outcomes(job[w]) : job' = [job EXCEPT ![w].result = r]
            BY <4>3 DEF Run
          <5>2. r \in Results
            BY <5>1, Constants DEF Outcomes
          <5>3. QED
            BY <5>1, <5>2 DEF TypeOK, Tasks
        <4>4. CASE RunAll(w)
          <5>1. PICK r \in {Exception, Value} : job' = [job EXCEPT ![w] = [@ EXCEPT !.result = r]]
            BY <3>2, <4>4, Constants DEF RunAll, Goto, TypeOK
          <5>2. QED
            BY <5>1, Constants DEF TypeOK, Tasks
        <4>5. CASE Compare(w)
          <5>1. pc[w] = "compare" /\ job'[w] = job[w]
            BY <3>2, <4>5, Constants DEF Compare, TypeOK
          <5>2. /\ job[w].from # Null /\ job[w].from \in Contracts /\ job[w].result = taken[job[w].from]
                /\ value[job[w].from] = Moved
            BY <5>1, JobTypes, TaskFacts DEF WorkInv, WorkerInv, WorkerOK
          <5>3. QED
            BY <5>1, <5>2 DEF ContractInv, TypeOK
        <4>6. QED
          BY <4>2, <4>3, <4>4, <4>5
      <3>3. QED
        BY <3>1, <3>2
    <2>5. WorkerOK(w)'
      BY <2>2, <2>3, <2>4 DEF WorkerOK
    <2>6. QED
      BY <2>1, <2>5 DEF WorkerInv
  <1>2. ASSUME (\E t \in Clients : ClientStep(t)) \/ Stop \/ Discard
        PROVE  WorkerInv'
    <2>1. \A w \in Workers : pc'[w] = pc[w] /\ job'[w] = job[w]
      BY <1>2, ClientFrame DEF Stop, Discard, worker
    <2>2. QED
      BY <2>1 DEF WorkerInv, WorkerOK
  <1>3. QED
    BY <1>1, <1>2 DEF Next

------------------------------------------------------------------------------
\* What each step does, in terms of the sets above.
SameValues == callback' = callback /\ value' = value /\ taken' = taken
SameClients == /\ Unmade' = Unmade /\ Owned' = Owned
               /\ Unsubscribed' = Unsubscribed /\ Submitting' = Submitting
SameJobs == /\ \A w \in Workers : pc'[w] = pc[w] /\ job'[w] = job[w]
            /\ old_callback' = old_callback /\ old_count' = old_count
            /\ stopped' = stopped /\ slots' = slots /\ InSetting' = InSetting
SameRoutines == tasks' = tasks /\ Pending' = Pending /\ Executed' = Executed

LEMMA ClientJobs ==
    ASSUME Inv, NEW t \in Clients, ClientStep(t)
    PROVE  SameJobs /\ (tasks' = tasks => SameRoutines)
  <1>1. /\ \A w \in Workers : pc'[w] = pc[w] /\ job'[w] = job[w]
        /\ old_callback' = old_callback /\ old_count' = old_count
        /\ stopped' = stopped /\ slots' = slots
    BY ClientFrame DEF Inv
  <1>2. InSetting' = InSetting
    BY <1>1 DEF InSetting, Sets
  <1>3. tasks' = tasks => SameRoutines
    BY <1>1 DEF SameRoutines, Pending, Executed
  <1>4. QED
    BY <1>1, <1>2, <1>3 DEF SameJobs

LEMMA ExecuteEffects ==
    ASSUME Inv, NEW t \in Clients, Execute(t), NEW d, d = Call(t).to
    PROVE  /\ d \in Contracts /\ d \in Unmade /\ d \notin Grouped
           /\ Unmade' = Unmade \ {d} /\ Owned' = Owned \cup {d}
           /\ Unsubscribed' = Unsubscribed /\ Submitting' = Submitting
           /\ SameValues /\ SameJobs /\ group' = group
           /\ tasks' = Append(tasks, [NoTask EXCEPT !.to = d])
           /\ Pending' = Pending /\ Executed' = Executed \cup {d}
           /\ \A c \in Contracts : owners_count'[c] = IF c = d THEN 2 ELSE owners_count[c]
           /\ pc[t] = "idle" /\ Finishes(t)
  <1>1. /\ d \in Unmade /\ Unmade' = Unmade \ {d} /\ Owned' = Owned \cup {d}
        /\ Unsubscribed' = Unsubscribed /\ Submitting' = Submitting
    BY ExecuteViews DEF Inv
  <1>2. /\ SameValues /\ group' = group /\ tasks' = Append(tasks, [NoTask EXCEPT !.to = d])
        /\ \A c \in Contracts : owners_count'[c] = IF c = d THEN 2 ELSE owners_count[c]
    BY DEF Execute, SameValues, groups, Make
  <1>3. SameJobs
    BY ClientJobs DEF ClientStep
  <1>4. d \in Contracts /\ d \notin Grouped
    BY <1>1 DEF Unmade, Inv, GroupInv
  <1> DEFINE j == [NoTask EXCEPT !.to = d]
  <1>5. j.from = Null /\ j.op = "Execute" /\ j.to = d
    BY DEF NoTask
  <1>6. Pending' = Pending /\ Executed' = Executed \cup {d}
    <2>1. tasks' = Append(tasks, j)
      BY <1>2
    <2> HIDE DEF j
    <2>2. /\ Pending' = Pending \cup ({j.from} \cap Contracts)
          /\ Executed' = Executed \cup ({j.to} \cap Contracts)
      BY <2>1, <1>3, <1>5, QueueUpViews DEF SameJobs, Inv
    <2>3. QED
      BY <2>2, <1>4, <1>5, Constants
  <1>7. pc[t] = "idle" /\ Finishes(t)
    BY Constants DEF Execute, Finishes, Goto, Next_, Inv, TypeOK
  <1>8. QED
    BY <1>1, <1>2, <1>3, <1>4, <1>6, <1>7

LEMMA AttachEffects ==
    ASSUME Inv, NEW t \in Clients, Attach(t), NEW d, d = Call(t).to
    PROVE  /\ d \in Contracts \cup {Null} /\ (d # Null => d \in Unmade /\ d \in Contracts)
           /\ Unmade' = Unmade \ {d} /\ Owned' = Owned \cup ({d} \cap Contracts)
           /\ Unsubscribed' = Unsubscribed /\ Submitting' = Submitting
           /\ SameValues /\ SameJobs /\ SameRoutines
           /\ \A c \in Contracts : owners_count'[c] = IF c = d THEN 2 ELSE owners_count[c]
           /\ \A c \in Contracts : c # d => group'[c] = group[c]
           /\ d # Null => /\ Made(d)' = Call(t) /\ group'[d].count = Len(Call(t).at)
                          /\ ~group'[d].deleted
           /\ pc[t] = "idle" /\ pc'[t] = "subscribe" /\ todo' = todo /\ todo[t] # << >>
           /\ Call(t).op \in Attaching
           /\ \A c \in Range(Call(t).at) : /\ c \in Unsubscribed /\ c \in Owned
                                           /\ \A e \in Contracts : c \notin Inputs(e)
  <1>1. /\ pc[t] = "idle" /\ pc'[t] = "subscribe" /\ todo' = todo /\ todo[t] # << >>
        /\ Call(t).op \in Attaching /\ d \in Contracts \cup {Null}
    BY CallFacts, Constants DEF Attach, Next_, Goto, Inv, TypeOK
  <1>2. /\ d # Null => d \in Unmade
        /\ Unmade' = Unmade \ {d} /\ Owned' = Owned \cup ({d} \cap Contracts)
        /\ Unsubscribed' = Unsubscribed /\ Submitting' = Submitting
    BY AttachViews DEF Inv
  <1>3. /\ SameValues /\ tasks' = tasks
        /\ \A c \in Contracts : owners_count'[c] = IF c = d THEN 2 ELSE owners_count[c]
        /\ \A c \in Contracts : c # d => group'[c] = group[c]
    BY DEF Attach, SameValues, Make, executor
  <1>4. d # Null => /\ Made(d)' = Call(t) /\ group'[d].count = Len(Call(t).at)
                    /\ ~group'[d].deleted
    BY <1>1 DEF Attach, Made
  <1>5. SameJobs /\ SameRoutines
    BY <1>3, ClientJobs DEF ClientStep
  <1>6. ASSUME NEW c \in Range(Call(t).at)
        PROVE  c \in Unsubscribed /\ c \in Owned /\ \A e \in Contracts : c \notin Inputs(e)
    <2>1. c \in Contracts /\ c \notin Unmade /\ Uses(t, 1, c)
      BY <1>1, Used DEF Inv
    <2>2. Keeps(t, c) /\ Awaits(t, c)
      BY <1>1, FirstCall, UnmetCases DEF Inv
    <2>3. ~Begun(t, 1) /\ 1 \in DOMAIN todo[t]
      BY <1>1, <2>1 DEF Begun, Uses
    <2>4. QED
      BY <2>1, <2>2, <2>3 DEF Unsubscribed, Owned, Inv, GroupInv
  <1>7. QED
    BY <1>1, <1>2, <1>3, <1>4, <1>5, <1>6

\* The future that a call with a contract to make uses is an input of the group.
LEMMA AtFacts ==
    ASSUME Inv, NEW t \in Clients, pc[t] # "idle", NEW c, c = Head(rest[t])
    PROVE  /\ c \in Contracts /\ c \notin Unmade /\ todo[t] # << >>
           /\ \A e \in Contracts : c \in Inputs(e) => Call(t).to = e
           /\ Call(t).op \in Attaching =>
                 /\ Links([op |-> Call(t).op, to |-> Call(t).to], c)
                 /\ [op |-> Call(t).op, to |-> Call(t).to] \in Callbacks
           /\ Call(t).op \in {"GetResult", "Drop"} => \A e \in Contracts : c \notin Inputs(e)
           /\ \A u \in Clients \ {t} : pc[u] # "idle" => Head(rest[u]) # c
  <1> USE DEF Inv
  <1>1. /\ todo[t] # << >> /\ c \in Range(Call(t).at)
        /\ Call(t).to # Null => Made(Call(t).to) = Call(t)
    BY HeadFacts DEF ClientInv, ClientOK
  <1>2. c \in Contracts /\ c \notin Unmade /\ Uses(t, 1, c)
    BY <1>1, Used
  <1>3. ASSUME NEW e \in Contracts, c \in Inputs(e) PROVE Call(t).to = e
    <2>1. 1 \in DOMAIN todo[t]
      BY <1>2 DEF Uses
    <2>2. QED
      BY <1>2, <1>3, <2>1 DEF GroupInv
  <1>4. WellFormed(Call(t)) /\ Call(t).to \in Contracts \cup {Null}
    BY <1>1, CallFacts
  <1> DEFINE f == [op |-> Call(t).op, to |-> Call(t).to]
  <1>5. ASSUME Call(t).op \in Attaching PROVE Links(f, c) /\ f \in Callbacks
    <2>1. f.op = Call(t).op /\ f.to = Call(t).to /\ f \in Callbacks
      BY <1>4, <1>5 DEF Callbacks
    <2>2. CASE Call(t).to = Null
      <3>1. Call(t).op = "Subscribe"
        BY <1>4, <1>5, <2>2 DEF WellFormed, Attaching
      <3>2. \A e \in Contracts : c \notin Inputs(e)
        BY <1>3, <2>2, Constants
      <3>3. QED
        BY <1>5, <2>1, <2>2, <3>1, <3>2 DEF Links
    <2>3. CASE Call(t).to # Null
      BY <1>1, <1>5, <2>1, <2>3 DEF Links, Inputs
    <2>4. QED
      BY <2>1, <2>2, <2>3
  <1>6. Call(t).op \in {"GetResult", "Drop"} => \A e \in Contracts : c \notin Inputs(e)
    BY <1>3, <1>4, Constants DEF WellFormed
  <1>7. ASSUME NEW u \in Clients \ {t}, pc[u] # "idle" PROVE Head(rest[u]) # c
    <2>1. todo[u] # << >> /\ Head(rest[u]) \in Range(Call(u).at)
      BY <1>7, HeadFacts
    <2>2. Uses(u, 1, Head(rest[u]))
      BY <2>1, Used
    <2>3. QED
      BY <1>2, <2>2, OneCall, Constants DEF Uses
  <1>8. QED
    BY <1>1, <1>2, <1>3, <1>5, <1>6, <1>7

LEMMA SetCallbackEffects ==
    ASSUME Inv, NEW t \in Clients, SetCallback(t), NEW c, c = Head(rest[t])
    PROVE  /\ c \in Unsubscribed /\ c \in Contracts /\ Unmade' = Unmade /\ Owned' = Owned
           /\ Unsubscribed' = Unsubscribed \ {c}
           /\ Submitting' = IF callback[c] = kValueIsSet THEN Submitting \cup {c} ELSE Submitting
           /\ value' = value /\ taken' = taken /\ owners_count' = owners_count /\ group' = group
           /\ SameJobs /\ SameRoutines
           /\ \A e \in Contracts : e # c => callback'[e] = callback[e]
           /\ Links(callback'[c], c) /\ callback'[c] \in Callbacks
  <1>1. /\ c \in Unsubscribed /\ Unmade' = Unmade /\ Owned' = Owned
        /\ Unsubscribed' = Unsubscribed \ {c}
        /\ Submitting' = IF callback[c] = kValueIsSet THEN Submitting \cup {c} ELSE Submitting
    BY SetCallbackViews DEF Inv
  <1>2. /\ value' = value /\ taken' = taken /\ owners_count' = owners_count /\ group' = group
        /\ tasks' = tasks
    BY DEF SetCallback, groups, executor
  <1>3. SameJobs /\ SameRoutines
    BY <1>2, ClientJobs DEF ClientStep
  <1>4. pc[t] # "idle" /\ Call(t).op \in Attaching
    BY DEF SetCallback, Inv, ClientInv, ClientOK
  <1>5. c \in Contracts /\ \E f \in Callbacks : Links(f, c) /\ callback' = [callback EXCEPT ![c] = f]
    BY <1>4, AtFacts DEF SetCallback
  <1>6. PICK f \in Callbacks : Links(f, c) /\ callback' = [callback EXCEPT ![c] = f]
    BY <1>5
  <1>7. /\ \A e \in Contracts : e # c => callback'[e] = callback[e]
        /\ callback'[c] = f
    BY <1>5, <1>6 DEF Inv, TypeOK
  <1>8. QED
    BY <1>1, <1>2, <1>3, <1>5, <1>6, <1>7

LEMMA SubmitEffects ==
    ASSUME Inv, NEW f, NEW c \in Contracts, Submit(f, c), Links(f, c), SameJobs
    PROVE  /\ \A e \in Contracts : e # c => value'[e] = value[e] /\ taken'[e] = taken[e]
           /\ value'[c] = Moved /\ taken'[c] = value[c]
           /\ tasks' = Append(tasks, [op |-> f.op, to |-> f.to, from |-> c, result |-> value[c]])
           /\ Pending' = Pending \cup {c} /\ Executed' = Executed
  <1> DEFINE j == [op |-> f.op, to |-> f.to, from |-> c, result |-> value[c]]
  <1>1. /\ \A e \in Contracts : e # c => value'[e] = value[e] /\ taken'[e] = taken[e]
        /\ value'[c] = Moved /\ taken'[c] = value[c] /\ tasks' = Append(tasks, j)
    BY DEF Submit, Inv, TypeOK
  <1>2. j.op # "Execute" /\ j.from = c
    BY DEF Links, Attaching
  <1> HIDE DEF j
  <1>3. Pending' = Pending \cup ({j.from} \cap Contracts) /\ Executed' = Executed
    BY <1>1, <1>2, QueueUpViews DEF SameJobs, Inv
  <1>4. QED
    BY <1>1, <1>2, <1>3 DEF j

LEMMA SubmitCallbackEffects ==
    ASSUME Inv, NEW t \in Clients, SubmitCallback(t), NEW c, c = Head(rest[t]),
           NEW f, f = [op |-> Call(t).op, to |-> Call(t).to]
    PROVE  /\ c \in Submitting /\ c \in Contracts /\ Links(f, c)
           /\ Unmade' = Unmade /\ Owned' = Owned /\ Unsubscribed' = Unsubscribed
           /\ Submitting' = Submitting \ {c}
           /\ callback' = callback /\ owners_count' = owners_count /\ group' = group /\ SameJobs
           /\ \A e \in Contracts : e # c => value'[e] = value[e] /\ taken'[e] = taken[e]
           /\ value[c] \in Results /\ value'[c] = Moved /\ taken'[c] = value[c]
           /\ tasks' = Append(tasks, [op |-> f.op, to |-> f.to, from |-> c, result |-> value[c]])
           /\ Pending' = Pending \cup {c} /\ Executed' = Executed
  <1>1. /\ c \in Submitting
        /\ Unmade' = Unmade /\ Owned' = Owned /\ Unsubscribed' = Unsubscribed
        /\ Submitting' = Submitting \ {c}
    BY SubmitCallbackViews DEF Inv
  <1>2. pc[t] # "idle" /\ Call(t).op \in Attaching /\ c \in Contracts /\ value[c] \in Results
    BY <1>1 DEF SubmitCallback, Inv, ClientInv, ClientOK, ContractInv, Submitting
  <1>3. Links(f, c) /\ SameJobs
    BY <1>2, AtFacts, ClientJobs DEF ClientStep
  <1>4. Submit(f, c)
    BY DEF SubmitCallback, Submit
  <1>5. /\ \A e \in Contracts : e # c => value'[e] = value[e] /\ taken'[e] = taken[e]
        /\ value'[c] = Moved /\ taken'[c] = value[c]
        /\ tasks' = Append(tasks, [op |-> f.op, to |-> f.to, from |-> c, result |-> value[c]])
        /\ Pending' = Pending \cup {c} /\ Executed' = Executed
    BY <1>2, <1>3, <1>4, SubmitEffects
  <1>6. callback' = callback /\ owners_count' = owners_count /\ group' = group
    BY DEF SubmitCallback, groups
  <1>7. QED
    BY <1>1, <1>2, <1>3, <1>5, <1>6

LEMMA DropFutureEffects ==
    ASSUME Inv, NEW t \in Clients, DropFuture(t), NEW c, c = Head(rest[t])
    PROVE  /\ c \in Owned /\ c \in Contracts
           /\ Unmade' = Unmade /\ Owned' = Owned \ {c}
           /\ Unsubscribed' = Unsubscribed /\ Submitting' = Submitting
           /\ SameValues /\ SameJobs /\ SameRoutines /\ group' = group
           /\ \A e \in Contracts :
                 owners_count'[e] = IF e = c THEN owners_count[c] - 1 ELSE owners_count[e]
           /\ pc[t] # "idle"
           /\ Finishes(t) \/ (todo' = todo /\ pc'[t] # "idle")
  <1>1. /\ c \in Owned /\ Unmade' = Unmade /\ Owned' = Owned \ {c}
        /\ Unsubscribed' = Unsubscribed /\ Submitting' = Submitting
    BY DropFutureViews DEF Inv
  <1>2. c \in Contracts
    BY <1>1 DEF Owned
  <1>3. SameValues /\ tasks' = tasks /\ group' = group
        /\ \A e \in Contracts :
              owners_count'[e] = IF e = c THEN owners_count[c] - 1 ELSE owners_count[e]
    BY DEF DropFuture, SameValues, executor, groups, Destroy, Inv, TypeOK
  <1>4. SameJobs /\ SameRoutines
    BY <1>3, ClientJobs DEF ClientStep
  <1>5. pc[t] # "idle" /\ pc'[t] = IF Len(rest[t]) > 1 THEN "drop" ELSE "idle"
    BY Constants DEF DropFuture, Goto, Inv, TypeOK
  <1>6. Finishes(t) \/ (todo' = todo /\ pc'[t] # "idle")
    BY <1>5, HeadFacts DEF DropFuture, Finishes, Inv
  <1>7. QED
    BY <1>1, <1>2, <1>3, <1>4, <1>5, <1>6

LEMMA GetResultEffects ==
    ASSUME Inv, NEW t \in Clients, GetResult(t)
    PROVE  /\ Unmade' = Unmade /\ Owned' = Owned /\ Submitting' = Submitting
           /\ Unsubscribed' \subseteq Unsubscribed
           /\ \A c \in Unsubscribed : c \in Unsubscribed' \/ \A d \in Contracts : c \notin Inputs(d)
           /\ SameValues /\ SameJobs /\ SameRoutines /\ group' = group
           /\ owners_count' = owners_count /\ pc[t] = "idle" /\ pc'[t] # "idle" /\ todo' = todo
           /\ pc'[t] # "read"
  <1>1. /\ Unmade' = Unmade /\ Owned' = Owned /\ Submitting' = Submitting
        /\ Unsubscribed' = IF Call(t).op = "Drop" THEN Unsubscribed \ Range(Call(t).at)
                                                  ELSE Unsubscribed
    BY GetResultViews DEF Inv
  <1>2. /\ SameValues /\ tasks' = tasks /\ group' = group /\ owners_count' = owners_count
    BY DEF GetResult, SameValues, executor, groups, contract
  <1>3. SameJobs /\ SameRoutines
    BY <1>2, ClientJobs DEF ClientStep
  <1>4. pc[t] = "idle" /\ pc'[t] # "idle" /\ todo' = todo /\ todo[t] # << >> /\ pc'[t] # "read"
    BY Constants DEF GetResult, Goto, Next_, Inv, TypeOK
  <1>5. ASSUME NEW c \in Range(Call(t).at) PROVE \A d \in Contracts : c \notin Inputs(d)
    <2>1. Uses(t, 1, c) /\ ~Begun(t, 1) /\ 1 \in DOMAIN todo[t] /\ c \in Contracts
      BY <1>4, Used DEF Begun, Inv
    <2>2. QED
      BY <2>1 DEF Inv, GroupInv
  <1>6. QED
    BY <1>1, <1>2, <1>3, <1>4, <1>5

LEMMA WaitEffects ==
    ASSUME Inv, NEW t \in Clients, Wait(t)
    PROVE  /\ SameClients /\ SameValues /\ SameJobs /\ SameRoutines /\ group' = group
           /\ owners_count' = owners_count /\ pc[t] = "wait" /\ pc'[t] # "idle"
           /\ todo' = todo /\ rest' = rest
           /\ pc'[t] = "read" => callback[Head(rest[t])] # Null
  <1>1. /\ pc[t] = "wait" /\ pc'[t] \in {"asleep", "read"}
        /\ pc'[t] = "read" => callback[Head(rest[t])] # Null
    BY Constants DEF Wait, Goto, Inv, TypeOK
  <1>2. SameValues /\ group' = group /\ owners_count' = owners_count /\ todo' = todo /\ rest' = rest
        /\ tasks' = tasks
    BY DEF Wait, SameValues, executor, groups, contract, client
  <1>3. SameJobs /\ SameRoutines
    BY <1>2, ClientJobs DEF ClientStep
  <1>4. ClientsStay
    BY <1>1, <1>2, ClientFrame DEF ClientStep, OthersStay, ClientsStay, Inv
  <1>5. SameClients
    BY <1>4, ClientViews DEF SameClients
  <1>6. QED
    BY <1>1, <1>2, <1>3, <1>5

LEMMA ReadEffects ==
    ASSUME Inv, NEW t \in Clients, Read(t), NEW c, c = Head(rest[t])
    PROVE  /\ c \in Unsubscribed /\ c \in Contracts
           /\ Unmade' = Unmade /\ Owned' = Owned /\ Submitting' = Submitting
           /\ Unsubscribed' = Unsubscribed \ {c}
           /\ callback' = callback /\ owners_count' = owners_count /\ group' = group
           /\ SameJobs /\ SameRoutines
           /\ \A e \in Contracts : e # c => value'[e] = value[e] /\ taken'[e] = taken[e]
           /\ value[c] \in Results /\ value'[c] = Moved /\ taken'[c] = value[c]
           /\ callback[c] = kValueIsSet
           /\ \A d \in Contracts : c \notin Inputs(d)
           /\ pc[t] = "read" /\ pc'[t] = "drop" /\ todo' = todo /\ rest' = rest
  <1>1. /\ c \in Unsubscribed /\ Unsubscribed' = Unsubscribed \ {c}
        /\ Unmade' = Unmade /\ Owned' = Owned /\ Submitting' = Submitting
    BY ReadViews DEF Inv
  <1>2. pc[t] = "read" /\ pc'[t] = "drop" /\ todo' = todo /\ rest' = rest
    BY Constants DEF Read, Goto, Inv, TypeOK, client
  <1>3. c \in Contracts /\ \A d \in Contracts : c \notin Inputs(d)
    BY <1>2, AtFacts DEF Inv, ClientInv, ClientOK
  <1>4. /\ callback' = callback /\ owners_count' = owners_count /\ group' = group /\ tasks' = tasks
        /\ \A e \in Contracts : e # c => value'[e] = value[e] /\ taken'[e] = taken[e]
        /\ value'[c] = Moved /\ taken'[c] = value[c]
    BY <1>3 DEF Read, groups, executor, Inv, TypeOK
  <1>5. callback[c] = kValueIsSet
    BY <1>2 DEF Inv, MeetInv
  <1>6. value[c] \in Results
    BY <1>1, <1>3, <1>5 DEF Inv, ContractInv, TypeOK
  <1>7. SameJobs /\ SameRoutines
    BY <1>4, ClientJobs DEF ClientStep
  <1>8. QED
    BY <1>1, <1>2, <1>3, <1>4, <1>5, <1>6, <1>7

\* A worker leaves the clients, and what they have of contracts, alone.
LEMMA WorkerSame ==
    ASSUME Inv, NEW w \in Workers, WorkerStep(w)
    PROVE  /\ SameClients /\ OthersWork(w) /\ stopped' = stopped /\ todo' = todo /\ rest' = rest
           /\ \A t \in Clients : (pc'[t] = "idle" <=> pc[t] = "idle") /\ (pc'[t] = "read" <=> pc[t] = "read")
           /\ \A d \in Contracts : Made(d)' = Made(d)
  <1>1. ClientsStay /\ OthersWork(w) /\ stopped' = stopped
        /\ (pc[w] = "notify" \/ \A t \in Clients : pc'[t] = pc[t])
    BY WorkerFrame DEF Inv
  <1>2. SameClients
    BY <1>1, ClientViews DEF SameClients
  <1>3. \A t \in Clients : (pc'[t] = "idle" <=> pc[t] = "idle") /\ (pc'[t] = "read" <=> pc[t] = "read")
    <2>1. CASE Notify(w)
      <3>1. \A t \in Clients : pc'[t] = pc[t] \/ (pc[t] = "asleep" /\ pc'[t] = "wait")
        BY <2>1, Constants DEF Notify
      <3>2. QED
        BY <3>1
    <2>2. CASE ~Notify(w)
      <3>1. pc[w] # "notify"
        BY <2>2, Constants
           DEF WorkerStep, Take, Run, RunSubscriber, RunAll, RunFirstOf, Compare, SetValue, Exchange,
               Invoke, DropPromise, Goto
      <3>2. QED
        BY <1>1, <3>1
    <2>3. QED
      BY <2>1, <2>2
  <1>4. ASSUME NEW t \in Clients, Attach(t) PROVE FALSE
    <2>1. pc[t] = "idle" /\ pc'[t] = "subscribe"
      BY <1>4, Constants DEF Attach, Goto, Inv, TypeOK
    <2>2. QED
      BY <1>3, <2>1
  <1>5. \A d \in Contracts : Made(d)' = Made(d)
    BY <1>4, GroupCases DEF Next, Inv
  <1>6. QED
    BY <1>1, <1>2, <1>3, <1>5 DEF ClientsStay

SameTasks == tasks' = tasks /\ Pending' = Pending /\ Executed' = Executed
SameGroups == group' = group /\ slots' = slots
SameLocals == old_callback' = old_callback /\ old_count' = old_count

LEMMA TakeEffects ==
    ASSUME Inv, NEW w \in Workers, Take(w)
    PROVE  /\ SameValues /\ SameGroups /\ SameLocals /\ owners_count' = owners_count
           /\ Pending' = Pending /\ Executed' = Executed /\ InSetting' = InSetting
           /\ pc[w] = "idle" /\ pc'[w] = "run" /\ ~stopped
           /\ \E i \in DOMAIN tasks : job'[w] = tasks[i] /\ tasks' = RemoveAt(tasks, i)
  <1>1. /\ pc[w] = "idle" /\ pc'[w] = "run" /\ ~stopped
        /\ SameValues /\ SameGroups /\ SameLocals /\ owners_count' = owners_count
    BY Constants DEF Take, Goto, SameValues, SameGroups, SameLocals, contract, groups, Inv, TypeOK
  <1>2. PICK i \in DOMAIN tasks : job'[w] = tasks[i] /\ tasks' = RemoveAt(tasks, i)
    BY DEF Take, Inv, TypeOK
  <1>3. OthersWork(w)
    BY WorkerFrame DEF WorkerStep, Inv
  <1>4. Pending' = Pending /\ Executed' = Executed /\ InSetting' = InSetting
    BY <1>1, <1>2, <1>3, TakeViews DEF Inv
  <1>5. QED
    BY <1>1, <1>2, <1>4

\* A worker that has run a routine goes on to set the Promise, or is done.
LEMMA RunEffects ==
    ASSUME Inv, NEW w \in Workers, Run(w) \/ RunSubscriber(w) \/ RunAll(w) \/ RunFirstOf(w)
    PROVE  /\ SameValues /\ owners_count' = owners_count /\ old_callback' = old_callback
           /\ pc[w] = "run" /\ pc'[w] # "run" /\ tasks' = tasks
           /\ Pending' = Pending \ {job[w].from}
           /\ Executed' = IF job[w].op = "Execute" THEN Executed \ {job[w].to} ELSE Executed
           /\ pc'[w] \notin Setting => InSetting' = InSetting
           /\ pc'[w] \in Setting => /\ InSetting' = InSetting \cup {job[w].to} /\ Unset(job[w].to)
                                    /\ job[w].to \in Contracts /\ job'[w].to = job[w].to
                                    /\ pc'[w] = "set"
           /\ ~RunFirstOf(w) => pc'[w] # "compare" /\ old_count' = old_count
           /\ ~RunAll(w) /\ ~RunFirstOf(w) => group' = group
           /\ ~RunAll(w) => slots' = slots
  <1> USE DEF Inv
  <1>1. WorkerStep(w)
    BY DEF WorkerStep
  <1>2. /\ pc[w] = "run" /\ pc'[w] # "run" /\ tasks' = tasks
        /\ SameValues /\ owners_count' = owners_count /\ old_callback' = old_callback
    BY Constants DEF Run, RunSubscriber, RunAll, RunFirstOf, Goto, TypeOK, SameValues, contract, executor
  <1>3. /\ ~RunFirstOf(w) => pc'[w] # "compare" /\ old_count' = old_count
        /\ ~RunAll(w) /\ ~RunFirstOf(w) => group' = group
        /\ ~RunAll(w) => slots' = slots
    BY Constants DEF Run, RunSubscriber, RunAll, RunFirstOf, Goto, TypeOK, groups
  <1>4. OthersWork(w)
    BY <1>1, WorkerFrame
  <1>5. /\ Pending' = Pending \ {job[w].from}
        /\ Executed' = IF job[w].op = "Execute" THEN Executed \ {job[w].to} ELSE Executed
    BY <1>2, <1>4, LeavesRun
  <1>6. pc[w] \notin Setting
    BY <1>2 DEF Setting
  <1>7. pc'[w] \notin Setting => InSetting' = InSetting
    BY <1>4, <1>6, SettingViews
  <1>8. ASSUME pc'[w] \in Setting
        PROVE  /\ InSetting' = InSetting \cup {job[w].to} /\ Unset(job[w].to)
               /\ job[w].to \in Contracts /\ job'[w].to = job[w].to /\ pc'[w] = "set"
    <2>1. job[w].to \in Contracts /\ job'[w].to = job[w].to /\ pc'[w] = "set"
      BY <1>1, <1>2, <1>6, <1>8, JobCases DEF Setting
    <2>2. QED
      BY <1>1, <1>4, <1>6, <1>8, <2>1, SettingViews, Entering
  <1>9. QED
    BY <1>2, <1>3, <1>5, <1>7, <1>8

LEMMA CompareEffects ==
    ASSUME Inv, NEW w \in Workers, Compare(w), NEW d, d = job[w].to
    PROVE  /\ SameValues /\ SameLocals /\ SameTasks /\ slots' = slots /\ owners_count' = owners_count
           /\ pc[w] = "compare" /\ pc'[w] \in {"set", "idle"}
           /\ d \in Contracts /\ Made(d).op = "FirstOf" /\ d \in Grouped
           /\ \A e \in Contracts : /\ group'[e].count = group[e].count
                                   /\ group'[e].deleted => \/ group[e].deleted
                                                           \/ e = d /\ old_count[w] = 1
           /\ pc'[w] = "idle" => InSetting' = InSetting
           /\ pc'[w] = "set" => /\ InSetting' = InSetting \cup {d} /\ Unset(d) /\ job'[w] = job[w]
                                /\ old_count[w] = Len(Made(d).at)
  <1> USE DEF Inv
  <1>1. WorkerStep(w)
    BY DEF WorkerStep
  <1>2. pc[w] = "compare" /\ pc'[w] \in {"set", "idle"} /\ tasks' = tasks
        /\ SameValues /\ SameLocals /\ slots' = slots /\ owners_count' = owners_count
    BY Constants DEF Compare, TypeOK, SameValues, SameLocals, contract, executor
  <1>3. d \in Contracts /\ Made(d).op = "FirstOf" /\ d \in Grouped
    BY <1>2, JobTypes, TaskFacts, RunFacts DEF WorkerInv, WorkerOK
  <1>4. \A e \in Contracts : /\ group'[e].count = group[e].count
                             /\ group'[e].deleted => \/ group[e].deleted
                                                     \/ e = d /\ old_count[w] = 1
    <2>1. PICK b \in BOOLEAN : group' = [group EXCEPT ![d].deleted = @ \/ (b /\ old_count[w] = 1)]
      BY DEF Compare
    <2>2. \A e \in Contracts : /\ e # d => group'[e] = group[e]
                               /\ group'[d].count = group[d].count
                               /\ group'[d].deleted = (group[d].deleted \/ (b /\ old_count[w] = 1))
      BY <1>3, <2>1 DEF TypeOK
    <2>3. QED
      BY <2>2
  <1>5. OthersWork(w)
    BY <1>1, WorkerFrame
  <1>6. SameTasks
    BY <1>2, <1>5, NotRunning DEF SameTasks
  <1>7. pc'[w] = "idle" => InSetting' = InSetting
    BY <1>2, <1>5, SettingViews DEF Setting
  <1>8. ASSUME pc'[w] = "set"
        PROVE  /\ InSetting' = InSetting \cup {d} /\ Unset(d) /\ job'[w] = job[w]
               /\ old_count[w] = Len(Made(d).at)
    <2>1. pc[w] \notin Setting /\ pc'[w] \in Setting
      BY <1>2, <1>8 DEF Setting
    <2>2. job'[w] = job[w]
      BY <1>8, Constants DEF Compare, TypeOK
    <2>3. QED
      BY <1>1, <1>3, <1>5, <1>8, <2>1, <2>2, SettingViews, Entering, FirstFacts
  <1>9. QED
    BY <1>2, <1>3, <1>4, <1>6, <1>7, <1>8

\* The routine of a worker that sets a Promise.
LEMMA SetsFacts ==
    ASSUME Inv, NEW w \in Workers, pc[w] \in Setting, NEW d, d = job[w].to
    PROVE  /\ d \in Contracts /\ d \in InSetting /\ d \notin Unmade /\ Active
           /\ \A v \in Workers \ {w} : pc[v] \in Setting => job[v].to # d
  <1> USE DEF Inv
  <1>1. d \in Contracts /\ Sets(w, d)
    BY JobTypes DEF WorkerInv, WorkerOK, Tasks, Sets
  <1>2. d \in InSetting
    BY <1>1 DEF InSetting
  <1>3. d \notin Unmade
    BY <1>1, <1>2 DEF ContractInv
  <1>4. \A v \in Workers \ {w} : pc[v] \in Setting => job[v].to # d
    BY <1>1 DEF SetterInv, Sets
  <1>5. Active
    BY DEF Active, Setting
  <1>6. QED
    BY <1>1, <1>2, <1>3, <1>4, <1>5

LEMMA SetValueEffects ==
    ASSUME Inv, NEW w \in Workers, SetValue(w), NEW d, d = job[w].to
    PROVE  /\ callback' = callback /\ taken' = taken /\ SameGroups /\ SameLocals /\ SameTasks
           /\ owners_count' = owners_count /\ InSetting' = InSetting /\ job' = job
           /\ pc[w] = "set" /\ pc'[w] = "exchange"
           /\ d \in Contracts /\ d \in InSetting /\ d \notin Unmade
           /\ value[d] = Null /\ value'[d] = job[w].result /\ job[w].result \in Results
           /\ \A e \in Contracts : e # d => value'[e] = value[e]
  <1> USE DEF Inv
  <1>1. pc[w] = "set" /\ pc'[w] = "exchange" /\ job' = job /\ tasks' = tasks
        /\ callback' = callback /\ taken' = taken /\ SameGroups /\ SameLocals
        /\ owners_count' = owners_count
    BY Constants DEF SetValue, Goto, TypeOK, SameGroups, SameLocals, executor, groups, worker
  <1>2. d \in Contracts /\ d \in InSetting /\ d \notin Unmade /\ value[d] = Null /\ job[w].result \in Results
    BY <1>1, SetsFacts DEF Setting, MeetInv, WorkerInv, WorkerOK
  <1>3. value'[d] = job[w].result /\ \A e \in Contracts : e # d => value'[e] = value[e]
    BY <1>2 DEF SetValue, TypeOK
  <1>4. OthersWork(w)
    BY WorkerFrame DEF WorkerStep
  <1>5. SameTasks
    BY <1>1, <1>4, NotRunning DEF SameTasks
  <1>6. InSetting' = InSetting
    BY <1>1, <1>4, SettingViews DEF Setting
  <1>7. QED
    BY <1>1, <1>2, <1>3, <1>5, <1>6

LEMMA ExchangeEffects ==
    ASSUME Inv, NEW w \in Workers, Exchange(w), NEW d, d = job[w].to
    PROVE  /\ value' = value /\ taken' = taken /\ SameGroups /\ old_count' = old_count /\ SameTasks
           /\ owners_count' = owners_count /\ InSetting' = InSetting /\ job' = job
           /\ pc[w] = "exchange" /\ d \in Contracts /\ d \in InSetting /\ d \notin Submitting
           /\ pc'[w] = IF callback[d] = Null THEN "notify" ELSE "invoke"
           /\ callback'[d] = kValueIsSet /\ old_callback'[w] = callback[d]
           /\ value[d] \in Results /\ callback[d] # kValueIsSet
           /\ \A e \in Contracts : e # d => callback'[e] = callback[e]
           /\ \A v \in Workers : v # w => old_callback'[v] = old_callback[v]
  <1> USE DEF Inv
  <1>1. pc[w] = "exchange" /\ pc'[w] = (IF callback[d] = Null THEN "notify" ELSE "invoke")
        /\ job' = job /\ tasks' = tasks
        /\ value' = value /\ taken' = taken /\ SameGroups /\ old_count' = old_count
        /\ owners_count' = owners_count
    BY Constants DEF Exchange, Goto, TypeOK, SameGroups, executor, groups, worker
  <1>2. /\ d \in Contracts /\ d \in InSetting /\ d \notin Submitting
        /\ value[d] \in Results /\ callback[d] # kValueIsSet
    BY <1>1, SetsFacts DEF Setting, MeetInv
  <1>3. /\ callback'[d] = kValueIsSet /\ old_callback'[w] = callback[d]
        /\ \A e \in Contracts : e # d => callback'[e] = callback[e]
        /\ \A v \in Workers : v # w => old_callback'[v] = old_callback[v]
    BY <1>2 DEF Exchange, TypeOK
  <1>4. OthersWork(w)
    BY WorkerFrame DEF WorkerStep
  <1>5. SameTasks
    BY <1>1, <1>4, NotRunning DEF SameTasks
  <1>6. InSetting' = InSetting
    BY <1>1, <1>4, SettingViews DEF Setting
  <1>7. QED
    BY <1>1, <1>2, <1>3, <1>5, <1>6

LEMMA InvokeEffects ==
    ASSUME Inv, NEW w \in Workers, Invoke(w), NEW d, d = job[w].to,
           NEW f, f = old_callback[w]
    PROVE  /\ callback' = callback /\ SameGroups /\ SameLocals /\ InSetting' = InSetting
           /\ owners_count' = owners_count /\ job' = job
           /\ pc[w] = "invoke" /\ pc'[w] = "drop"
           /\ d \in Contracts /\ d \in InSetting /\ d \notin Submitting /\ d \notin Unsubscribed
           /\ Links(f, d) /\ callback[d] = kValueIsSet
           /\ \A e \in Contracts : e # d => value'[e] = value[e] /\ taken'[e] = taken[e]
           /\ value[d] \in Results /\ value'[d] = Moved /\ taken'[d] = value[d]
           /\ tasks' = Append(tasks, [op |-> f.op, to |-> f.to, from |-> d, result |-> value[d]])
           /\ Pending' = Pending \cup {d} /\ Executed' = Executed
  <1> USE DEF Inv
  <1>1. /\ pc[w] = "invoke" /\ pc'[w] = "drop" /\ job' = job /\ stopped' = stopped
        /\ callback' = callback /\ SameGroups /\ SameLocals /\ owners_count' = owners_count
        /\ Submit(f, d)
    BY Constants DEF Invoke, Goto, TypeOK, SameGroups, SameLocals, groups, worker
  <1>2. /\ d \in Contracts /\ d \in InSetting /\ d \notin Submitting /\ d \notin Unsubscribed
        /\ Links(f, d) /\ callback[d] = kValueIsSet /\ value[d] \in Results
    BY <1>1, SetsFacts DEF Setting, MeetInv
  <1>3. OthersWork(w)
    BY WorkerFrame DEF WorkerStep
  <1>4. InSetting' = InSetting
    BY <1>1, <1>3, SettingViews DEF Setting
  <1> DEFINE j == [op |-> f.op, to |-> f.to, from |-> d, result |-> value[d]]
  <1>5. /\ \A e \in Contracts : e # d => value'[e] = value[e] /\ taken'[e] = taken[e]
        /\ value'[d] = Moved /\ taken'[d] = value[d] /\ tasks' = Append(tasks, j)
    BY <1>1, <1>2 DEF Submit, TypeOK
  <1>6. j.op # "Execute" /\ j.from = d
    BY <1>2 DEF Links, Attaching
  <1>7. \A v \in Workers : (pc'[v] = "run" <=> pc[v] = "run") /\ job'[v] = job[v]
    BY <1>1, <1>3 DEF OthersWork
  <1> HIDE DEF j
  <1>8. Pending' = Pending \cup ({j.from} \cap Contracts) /\ Executed' = Executed
    BY <1>5, <1>6, <1>7, QueueUpViews
  <1>9. QED
    BY <1>1, <1>2, <1>4, <1>5, <1>6, <1>8 DEF j

LEMMA NotifyEffects ==
    ASSUME Inv, NEW w \in Workers, Notify(w)
    PROVE  /\ SameValues /\ SameGroups /\ SameLocals /\ SameTasks
           /\ owners_count' = owners_count /\ InSetting' = InSetting /\ job' = job
           /\ pc[w] = "notify" /\ pc'[w] = "drop"
  <1>1. /\ pc[w] = "notify" /\ pc'[w] = "drop" /\ job' = job /\ tasks' = tasks
        /\ SameValues /\ SameGroups /\ SameLocals /\ owners_count' = owners_count
    BY Constants DEF Notify, SameGroups, SameLocals, SameValues, contract, executor, groups, worker
  <1>2. OthersWork(w)
    BY WorkerFrame DEF WorkerStep, Inv
  <1>3. SameTasks
    BY <1>1, <1>2, NotRunning DEF SameTasks
  <1>4. InSetting' = InSetting
    BY <1>1, <1>2, SettingViews DEF Setting, Inv
  <1>5. QED
    BY <1>1, <1>3, <1>4

LEMMA DropPromiseEffects ==
    ASSUME Inv, NEW w \in Workers, DropPromise(w), NEW d, d = job[w].to
    PROVE  /\ SameValues /\ slots' = slots /\ SameLocals /\ SameTasks
           /\ pc[w] = "drop" /\ pc'[w] = "idle"
           /\ d \in Contracts /\ d \in InSetting /\ InSetting' = InSetting \ {d} /\ value[d] # Null
           /\ \A e \in Contracts :
                 owners_count'[e] = IF e = d THEN owners_count[d] - 1 ELSE owners_count[e]
           /\ \A e \in Contracts : /\ group'[e].count = group[e].count
                                   /\ group'[e].deleted => \/ group[e].deleted
                                                           \/ e = d /\ job[w].op = "All"
  <1> USE DEF Inv
  <1>1. /\ pc[w] = "drop" /\ pc'[w] = "idle" /\ tasks' = tasks
        /\ SameValues /\ slots' = slots /\ SameLocals
    BY Constants DEF DropPromise, Goto, TypeOK, SameLocals, SameValues, executor
  <1>2. d \in Contracts /\ d \in InSetting /\ value[d] # Null
    BY <1>1, SetsFacts DEF Setting, MeetInv
  <1>3. /\ \A e \in Contracts :
              owners_count'[e] = IF e = d THEN owners_count[d] - 1 ELSE owners_count[e]
        /\ \A e \in Contracts : /\ group'[e].count = group[e].count
                                /\ group'[e].deleted => \/ group[e].deleted
                                                        \/ e = d /\ job[w].op = "All"
    <2>1. group' = [group EXCEPT ![d].deleted = @ \/ job[w].op = "All"]
      BY DEF DropPromise
    <2>2. /\ \A e \in Contracts : e # d => group'[e] = group[e]
          /\ group'[d].count = group[d].count
          /\ group'[d].deleted = (group[d].deleted \/ job[w].op = "All")
      BY <1>2, <2>1 DEF TypeOK
    <2>3. QED
      BY <1>2, <2>2 DEF DropPromise, Destroy, TypeOK
  <1>4. OthersWork(w)
    BY WorkerFrame DEF WorkerStep
  <1>5. SameTasks
    BY <1>1, <1>4, NotRunning DEF SameTasks
  <1>6. InSetting' = InSetting \ {d}
    BY <1>1, <1>4, SettingViews DEF Setting
  <1>7. QED
    BY <1>1, <1>2, <1>3, <1>5, <1>6

LEMMA StopEffects ==
    ASSUME Inv, Stop
    PROVE  /\ SameClients /\ SameValues /\ SameGroups /\ SameLocals /\ SameTasks
           /\ owners_count' = owners_count /\ InSetting' = InSetting /\ pc' = pc /\ job' = job
           /\ ~stopped /\ stopped' /\ todo' = todo /\ rest' = rest
  <1>1. /\ SameValues /\ SameGroups /\ SameLocals /\ tasks' = tasks
        /\ owners_count' = owners_count /\ pc' = pc /\ job' = job
        /\ ~stopped /\ stopped' /\ todo' = todo /\ rest' = rest
    BY DEF Stop, SameValues, SameGroups, SameLocals, contract, groups, client, worker
  <1>2. ClientsStay /\ WorkersStay
    BY <1>1 DEF ClientsStay, WorkersStay
  <1>3. QED
    BY <1>1, <1>2, ClientViews, WorkerViews DEF SameClients, SameTasks

LEMMA DiscardEffects ==
    ASSUME Inv, Discard
    PROVE  /\ SameClients /\ SameValues /\ SameGroups /\ SameLocals
           /\ InSetting' = InSetting /\ InSetting = {} /\ pc' = pc /\ job' = job
           /\ ~Active /\ ~Active' /\ todo' = todo /\ rest' = rest
           /\ Pending' \subseteq Pending
           /\ \E i \in DOMAIN tasks :
                 /\ tasks' = RemoveAt(tasks, i)
                 /\ tasks[i].op = "Execute" =>
                      /\ Executed' = Executed \ {tasks[i].to} /\ tasks[i].to \in Executed
                      /\ tasks[i].to \in Contracts /\ tasks[i].to \notin Grouped
                      /\ \A e \in Contracts :
                            owners_count'[e] = IF e = tasks[i].to THEN owners_count[e] - 1
                                               ELSE owners_count[e]
                 /\ tasks[i].op # "Execute" => Executed' = Executed /\ owners_count' = owners_count
  <1> USE DEF Inv
  <1>1. /\ SameValues /\ SameGroups /\ SameLocals
        /\ pc' = pc /\ job' = job /\ todo' = todo /\ rest' = rest
        /\ stopped /\ stopped' = stopped /\ \A w \in Workers : pc[w] = "idle"
    BY DEF Discard, SameValues, SameGroups, SameLocals, groups, client, worker
  <1>2. PICK i \in DOMAIN tasks :
           /\ tasks' = RemoveAt(tasks, i)
           /\ IF tasks[i].op = "Execute" THEN Destroy(tasks[i].to) ELSE UNCHANGED owners_count
    BY DEF Discard
  <1>3. /\ Pending' = Pending \ {tasks[i].from} /\ InSetting' = InSetting
        /\ Executed' = IF tasks[i].op = "Execute" THEN Executed \ {tasks[i].to} ELSE Executed
        /\ tasks[i].op = "Execute" => tasks[i].to \in Executed
    BY <1>1, <1>2, DiscardViews
  <1>4. InSetting = {}
    BY <1>1 DEF InSetting, Sets, Setting
  <1>5. ClientsStay
    BY <1>1 DEF ClientsStay
  <1>6. SameClients
    BY <1>5, ClientViews DEF SameClients
  <1>7. ~Active /\ ~Active'
    BY <1>1 DEF Active
  <1>8. tasks[i].op = "Execute" =>
           /\ tasks[i].to \in Contracts /\ tasks[i].to \notin Grouped
           /\ \A e \in Contracts :
                 owners_count'[e] = IF e = tasks[i].to THEN owners_count[e] - 1 ELSE owners_count[e]
    BY <1>2, JobTypes, TaskFacts DEF Destroy, TypeOK
  <1>9. QED
    BY <1>1, <1>2, <1>3, <1>4, <1>6, <1>7, <1>8

------------------------------------------------------------------------------
\* What holds in every step.  A result is set where there was none, and then moved
\* away once.
Sending(c, r) == /\ value[c] = Null /\ c \in InSetting /\ r \in Results /\ taken' = taken
                 /\ value'[c] = r /\ \A e \in Contracts : e # c => value'[e] = value[e]
Taking(c) == /\ value[c] \in Results /\ value'[c] = Moved /\ taken'[c] = value[c]
             /\ \A e \in Contracts : e # c => value'[e] = value[e] /\ taken'[e] = taken[e]
LEMMA ValueCases ==
    ASSUME Inv, Next
    PROVE  \/ value' = value /\ taken' = taken
           \/ \E c \in Contracts, r \in Results : Sending(c, r)
           \/ \E c \in Contracts : Taking(c)
  <1> DEFINE P == \/ value' = value /\ taken' = taken
                  \/ \E c \in Contracts, r \in Results : Sending(c, r)
                  \/ \E c \in Contracts : Taking(c)
  <1>1. ASSUME NEW t \in Clients, ClientStep(t) PROVE P
    <2>1. CASE SubmitCallback(t)
      BY <2>1, SubmitCallbackEffects DEF Taking
    <2>2. CASE Read(t)
      BY <2>2, ReadEffects DEF Taking
    <2>3. CASE ~SubmitCallback(t) /\ ~Read(t)
      BY <1>1, <2>3 DEF ClientStep, Execute, Attach, SetCallback, DropFuture, GetResult, Wait, contract
    <2>4. QED
      BY <2>1, <2>2, <2>3
  <1>2. ASSUME NEW w \in Workers, WorkerStep(w) PROVE P
    <2>1. CASE SetValue(w)
      BY <2>1, SetValueEffects DEF Sending
    <2>2. CASE Invoke(w)
      BY <2>2, InvokeEffects DEF Taking
    <2>3. CASE ~SetValue(w) /\ ~Invoke(w)
      BY <1>2, <2>3
         DEF WorkerStep, Take, Run, RunSubscriber, RunAll, RunFirstOf, Compare, Exchange, Notify,
             DropPromise, contract
    <2>4. QED
      BY <2>1, <2>2, <2>3
  <1>3. QED
    BY <1>1, <1>2 DEF Next, Stop, Discard, contract

LEMMA ValuesStay ==
    ASSUME Inv, Next, NEW c \in Contracts
    PROVE  /\ value[c] = Moved => value'[c] = Moved /\ taken'[c] = taken[c]
           /\ value[c] # Null => value'[c] # Null
           /\ taken[c] # None => taken'[c] = taken[c]
           /\ taken'[c] # None <=> value'[c] = Moved
           /\ value'[c] \in Results => value'[c] = value[c] \/ (value[c] = Null /\ c \in InSetting)
  <1>1. /\ taken[c] # None <=> value[c] = Moved
        /\ Null \notin Results /\ Moved \notin Results /\ None \notin Results /\ Null # Moved
    BY Constants DEF Inv, ContractInv
  <1>2. CASE value' = value /\ taken' = taken
    BY <1>1, <1>2
  <1>3. ASSUME NEW d \in Contracts, NEW r \in Results, Sending(d, r)
        PROVE  /\ value[c] = Moved => value'[c] = Moved /\ taken'[c] = taken[c]
               /\ value[c] # Null => value'[c] # Null
               /\ taken[c] # None => taken'[c] = taken[c]
               /\ taken'[c] # None <=> value'[c] = Moved
               /\ value'[c] \in Results => value'[c] = value[c] \/ (value[c] = Null /\ c \in InSetting)
    BY <1>1, <1>3 DEF Sending
  <1>4. ASSUME NEW d \in Contracts, Taking(d)
        PROVE  /\ value[c] = Moved => value'[c] = Moved /\ taken'[c] = taken[c]
               /\ value[c] # Null => value'[c] # Null
               /\ taken[c] # None => taken'[c] = taken[c]
               /\ taken'[c] # None <=> value'[c] = Moved
               /\ value'[c] \in Results => value'[c] = value[c] \/ (value[c] = Null /\ c \in InSetting)
    BY <1>1, <1>4 DEF Taking
  <1>5. QED
    BY <1>2, <1>3, <1>4, ValueCases

\* The contracts that are to be made, and those that await their promise, get fewer.
LEMMA Shrinks ==
    ASSUME Inv, Next
    PROVE  Unmade' \subseteq Unmade /\ Unsubscribed' \subseteq Unsubscribed
  <1>1. ASSUME NEW t \in Clients, ClientStep(t)
        PROVE  Unmade' \subseteq Unmade /\ Unsubscribed' \subseteq Unsubscribed
    <2>1. CASE Execute(t)
      BY <2>1, ExecuteEffects
    <2>2. CASE Attach(t)
      BY <2>2, AttachEffects
    <2>3. CASE SetCallback(t)
      BY <2>3, SetCallbackEffects
    <2>4. CASE SubmitCallback(t)
      BY <2>4, SubmitCallbackEffects
    <2>5. CASE DropFuture(t)
      BY <2>5, DropFutureEffects
    <2>6. CASE GetResult(t)
      BY <2>6, GetResultEffects
    <2>7. CASE Wait(t)
      BY <2>7, WaitEffects DEF SameClients
    <2>8. CASE Read(t)
      BY <2>8, ReadEffects
    <2>9. QED
      BY <1>1, <2>1, <2>2, <2>3, <2>4, <2>5, <2>6, <2>7, <2>8 DEF ClientStep
  <1>2. QED
    BY <1>1, WorkerSame, StopEffects, DiscardEffects DEF Next, SameClients

\* A group that there is does not change.
LEMMA MadeStays ==
    ASSUME Inv, Next, NEW d \in Contracts, d \notin Unmade
    PROVE  Made(d)' = Made(d) /\ d \notin Unmade'
  <1>1. CASE \E t \in Clients : Attach(t)
    <2>1. PICK t \in Clients : Attach(t)
      BY <1>1
    <2>2. d # Call(t).to
      BY <2>1, AttachEffects, Constants
    <2>3. QED
      BY <2>1, <2>2, AttachEffects, Shrinks DEF Made
  <1>2. CASE \A e \in Contracts : Made(e)' = Made(e)
    BY <1>2, Shrinks
  <1>3. QED
    BY <1>1, <1>2, GroupCases DEF Inv

LEMMA GroupOf ==
    ASSUME TypeOK, GroupInv, NEW d \in Contracts, NEW c \in Inputs(d)
    PROVE  d \in Grouped /\ d \notin Unmade /\ c \notin Unmade /\ c \in Contracts
  <1>1. Inputs(d) # {}
    OBVIOUS
  <1>2. Made(d) # NoCall
    <2>1. NoCall.at = << >>
      BY DEF NoCall
    <2>2. Range(NoCall.at) = {}
      BY <2>1, SmallSequences
    <2>3. QED
      BY <1>1, <2>2 DEF Inputs
  <1>3. Made(d).at \in Seq(Contracts)
    BY DEF TypeOK, Calls, Made
  <1>4. c \in Contracts
    BY <1>3, RangeFacts DEF Inputs
  <1>5. QED
    BY <1>2, <1>4 DEF GroupInv

\* An input of a group after a step was one before, or its future was unused.
LEMMA InputCases ==
    ASSUME Inv, Next, NEW d \in Contracts, NEW c, c \in Inputs(d)'
    PROVE  \/ c \in Inputs(d) /\ Made(d)' = Made(d) /\ d \notin Unmade
           \/ /\ \E t \in Clients : Attach(t) /\ Call(t).to = d /\ Made(d)' = Call(t)
              /\ c \in Unsubscribed /\ c \in Owned /\ d \in Unmade
              /\ c \in Unsubscribed' /\ \A e \in Contracts : c \notin Inputs(e)
  <1>1. CASE \E t \in Clients : Attach(t)
    <2>1. PICK t \in Clients : Attach(t)
      BY <1>1
    <2>2. CASE d = Call(t).to
      <3>1. Made(d)' = Call(t) /\ d \in Unmade /\ Unsubscribed' = Unsubscribed
        BY <2>1, <2>2, AttachEffects, Constants
      <3>2. c \in Range(Call(t).at)
        BY <3>1 DEF Inputs
      <3>3. QED
        BY <2>1, <2>2, <3>1, <3>2, AttachEffects
    <2>3. CASE d # Call(t).to
      <3>1. Made(d)' = Made(d)
        BY <2>1, <2>3, AttachEffects DEF Made
      <3>2. c \in Inputs(d)
        BY <3>1 DEF Inputs
      <3>3. d \notin Unmade
        BY <3>2, GroupOf DEF Inv
      <3>4. QED
        BY <3>1, <3>2, <3>3
    <2>4. QED
      BY <2>2, <2>3
  <1>2. CASE \A e \in Contracts : Made(e)' = Made(e)
    <2>1. Made(d)' = Made(d) /\ c \in Inputs(d)
      BY <1>2 DEF Inputs
    <2>2. d \notin Unmade
      BY <2>1, GroupOf DEF Inv
    <2>3. QED
      BY <2>1, <2>2
  <1>3. QED
    BY <1>1, <1>2, GroupCases DEF Inv

\* A callback keeps its group, and a routine what it is.
LEMMA LinksStay ==
    ASSUME Inv, Next, NEW f, NEW c \in Contracts, f.to \in Contracts \cup {Null},
           Links(f, c), c \notin Unsubscribed
    PROVE  Links(f, c)'
  <1>1. CASE f.to = Null
    <2>1. \A d \in Contracts : c \notin Inputs(d)'
      BY <1>1, InputCases DEF Links
    <2>2. QED
      BY <1>1, <2>1 DEF Links
  <1>2. CASE f.to # Null
    <2>1. f.to \in Contracts /\ Made(f.to).op = f.op /\ c \in Inputs(f.to) /\ f.op \in Attaching
      BY <1>2 DEF Links
    <2>2. f.to \notin Unmade
      BY <2>1 DEF Inv, GroupInv, Grouped, Attaching
    <2>3. PICK d \in Contracts : d = f.to
      BY <2>1
    <2>4. Made(d)' = Made(d)
      BY <2>2, <2>3, MadeStays
    <2>5. QED
      BY <1>2, <2>1, <2>3, <2>4 DEF Links, Inputs, Made
  <1>3. QED
    BY <1>1, <1>2

LEMMA TaskStays ==
    ASSUME Inv, Next, NEW j \in Tasks, IsTask(j)
    PROVE  /\ IsTask(j)'
           /\ j.from # Null => j.from \in Contracts /\ taken'[j.from] = taken[j.from]
  <1>1. CASE j.from = Null
    <2>1. PICK d \in Contracts : d = j.to
      BY <1>1, TaskFacts
    <2>2. j.op = "Execute" /\ d \notin Unmade /\ d \notin Grouped
      BY <1>1, <2>1, TaskFacts
    <2>3. Made(d)' = Made(d) /\ d \notin Unmade'
      BY <2>2, MadeStays
    <2>4. d \notin Grouped'
      BY <2>2, <2>3 DEF Grouped
    <2>5. QED
      BY <1>1, <2>1, <2>2, <2>3, <2>4 DEF IsTask
  <1>2. CASE j.from # Null
    <2>1. PICK c \in Contracts : c = j.from
      BY <1>2, TaskFacts
    <2>2. value[c] = Moved /\ Links(j, c) /\ j.to \in Contracts \cup {Null}
      BY <1>2, <2>1, TaskFacts DEF Tasks
    <2>3. value'[c] = Moved /\ taken'[c] = taken[c]
      BY <2>2, ValuesStay
    <2>4. c \notin Unsubscribed
      BY <2>2 DEF Inv, ContractInv
    <2>5. Links(j, c)'
      BY <2>2, <2>4, LinksStay
    <2>6. QED
      BY <1>2, <2>1, <2>3, <2>5 DEF IsTask
  <1>3. QED
    BY <1>1, <1>2

------------------------------------------------------------------------------
\* A new routine is like none that there is: its contract has just been made, or
\* has had its result until now.
LEMMA QueueCases ==
    ASSUME Inv, Next
    PROVE  \/ tasks' = tasks
           \/ \E j : /\ tasks' = Append(tasks, j) /\ IsTask(j)'
                     /\ j.from # Null => j.result = taken'[j.from]
                     /\ \A k \in Tasks : IsTask(k) => ~SameWork(k, j) /\ ~SameWork(j, k)
                     /\ \A w \in Workers : (pc'[w] = "idle" <=> pc[w] = "idle") /\ job'[w] = job[w]
           \/ Discard \/ \E w \in Workers : Take(w)
  <1> USE DEF Inv
  <1> DEFINE P(j) == /\ tasks' = Append(tasks, j) /\ IsTask(j)'
                     /\ j.from # Null => j.result = taken'[j.from]
                     /\ \A k \in Tasks : IsTask(k) => ~SameWork(k, j) /\ ~SameWork(j, k)
  <1>1. ASSUME NEW t \in Clients, Execute(t) PROVE \E j : P(j)
    <2> DEFINE d == Call(t).to
               j == [NoTask EXCEPT !.to = d]
    <2>1. d \in Contracts /\ d \in Unmade /\ d \notin Grouped /\ Unmade' = Unmade \ {d} /\ group' = group
          /\ tasks' = Append(tasks, j)
      BY <1>1, ExecuteEffects
    <2>2. j.from = Null /\ j.op = "Execute" /\ j.to = d
      BY DEF NoTask
    <2> HIDE DEF d, j
    <2>3. PICK k : k = j
      OBVIOUS
    <2>4. Grouped' = Grouped
      BY <2>1 DEF Grouped, Made
    <2>5. IsTask(k)'
      BY <2>1, <2>2, <2>3, <2>4 DEF IsTask
    <2>6. \A l \in Tasks : IsTask(l) => ~SameWork(l, k) /\ ~SameWork(k, l)
      BY <2>1, <2>2, <2>3, TaskFacts DEF SameWork
    <2>7. P(k)
      BY <2>1, <2>2, <2>3, <2>5, <2>6
    <2>8. QED
      BY <2>7
  <1>2. ASSUME NEW f, NEW c \in Contracts, Links(f, c), f.to \in Contracts \cup {Null},
               c \notin Unsubscribed, value[c] \in Results, value'[c] = Moved, taken'[c] = value[c],
               tasks' = Append(tasks, [op |-> f.op, to |-> f.to, from |-> c, result |-> value[c]])
        PROVE  \E j : P(j)
    <2>1. PICK k : k = [op |-> f.op, to |-> f.to, from |-> c, result |-> value[c]]
      OBVIOUS
    <2>2. k.op = f.op /\ k.to = f.to /\ k.from = c /\ k.result = value[c] /\ c # Null
      BY <2>1, Constants
    <2>3. Links(f, c)'
      BY <1>2, LinksStay
    <2>4. IsTask(k)'
      BY <1>2, <2>2, <2>3 DEF IsTask, Links
    <2>5. \A l \in Tasks : IsTask(l) => ~SameWork(l, k) /\ ~SameWork(k, l)
      BY <1>2, <2>2, TaskFacts, Constants DEF SameWork
    <2>6. P(k)
      BY <1>2, <2>1, <2>2, <2>4, <2>5
    <2>7. QED
      BY <2>6
  <1>3. ASSUME NEW t \in Clients, SubmitCallback(t) PROVE \E j : P(j)
    <2>1. PICK c \in Contracts : c = Head(rest[t])
      BY <1>3, SubmitCallbackEffects
    <2>2. PICK f : f = [op |-> Call(t).op, to |-> Call(t).to]
      OBVIOUS
    <2>3. f.to \in Contracts \cup {Null}
      BY <1>3, <2>2, HeadFacts, CallFacts DEF SubmitCallback
    <2>4. c \in Submitting => c \notin Unsubscribed
      BY <2>1 DEF ContractInv
    <2>5. QED
      BY <1>2, <1>3, <2>1, <2>2, <2>3, <2>4, SubmitCallbackEffects
  <1>4. ASSUME NEW w \in Workers, Invoke(w) PROVE \E j : P(j)
    <2>1. PICK d \in Contracts : d = job[w].to
      BY <1>4, InvokeEffects
    <2>2. PICK f : f = old_callback[w]
      OBVIOUS
    <2>3. f.to \in Contracts \cup {Null}
      BY <1>4, <2>1, <2>2, InvokeEffects DEF MeetInv, Callbacks
    <2>4. /\ Links(f, d) /\ d \notin Unsubscribed
          /\ value[d] \in Results /\ value'[d] = Moved /\ taken'[d] = value[d]
          /\ tasks' = Append(tasks, [op |-> f.op, to |-> f.to, from |-> d, result |-> value[d]])
      BY <1>4, <2>1, <2>2, InvokeEffects
    <2>5. QED
      BY <1>2, <2>3, <2>4
  <1>5. ASSUME NEW t \in Clients, ClientStep(t), ~Execute(t), ~SubmitCallback(t) PROVE tasks' = tasks
    BY <1>5 DEF ClientStep, Attach, SetCallback, DropFuture, GetResult, Wait, Read, executor
  <1>6. ASSUME NEW w \in Workers, WorkerStep(w), ~Take(w), ~Invoke(w) PROVE tasks' = tasks
    BY <1>6 DEF WorkerStep, Run, RunSubscriber, RunAll, RunFirstOf, Compare, SetValue, Exchange, Notify,
                DropPromise, executor
  <1>7. ASSUME NEW t \in Clients, ClientStep(t), NEW w \in Workers
        PROVE  (pc'[w] = "idle" <=> pc[w] = "idle") /\ job'[w] = job[w]
    BY <1>7, ClientJobs DEF SameJobs
  <1>8. ASSUME NEW v \in Workers, Invoke(v), NEW w \in Workers
        PROVE  (pc'[w] = "idle" <=> pc[w] = "idle") /\ job'[w] = job[w]
    BY <1>8, InvokeEffects, WorkerSame DEF WorkerStep, OthersWork
  <1>9. Stop => tasks' = tasks
    BY DEF Stop
  <1>10. QED
    BY <1>1, <1>3, <1>4, <1>5, <1>6, <1>7, <1>8, <1>9 DEF Next, ClientStep, WorkerStep

\* The routines that a step leaves were there, unless they are new.
LEMMA TaskCases ==
    ASSUME Inv, Next, NEW i \in DOMAIN tasks'
    PROVE  \/ \E k \in DOMAIN tasks : tasks'[i] = tasks[k]
           \/ IsTask(tasks[i])' /\ (tasks'[i].from # Null => tasks'[i].result = taken'[tasks'[i].from])
  <1> USE DEF Inv
  <1>1. CASE tasks' = tasks
    BY <1>1
  <1>2. ASSUME NEW j, tasks' = Append(tasks, j), IsTask(j)',
               j.from # Null => j.result = taken'[j.from]
        PROVE  \/ \E k \in DOMAIN tasks : tasks'[i] = tasks[k]
               \/ IsTask(tasks[i])' /\ (tasks'[i].from # Null => tasks'[i].result = taken'[tasks'[i].from])
    <2>1. (i \in DOMAIN tasks /\ tasks'[i] = tasks[i]) \/ tasks'[i] = j
      BY <1>2, QueueUp
    <2>2. tasks'[i] = j => IsTask(tasks[i])'
      BY <1>2 DEF IsTask
    <2>3. QED
      BY <1>2, <2>1, <2>2
  <1>3. ASSUME NEW k \in DOMAIN tasks, tasks' = RemoveAt(tasks, k)
        PROVE  \E l \in DOMAIN tasks : tasks'[i] = tasks[l]
    BY <1>3, QueueOff
  <1>4. Discard => \E k \in DOMAIN tasks : tasks' = RemoveAt(tasks, k)
    BY DEF Discard
  <1>5. \A w \in Workers : Take(w) => \E k \in DOMAIN tasks : tasks' = RemoveAt(tasks, k)
    BY DEF Take
  <1>6. QED
    BY <1>1, <1>2, <1>3, <1>4, <1>5, QueueCases

\* What a worker runs was in the queue, or it ran it.
LEMMA RunCases ==
    ASSUME Inv, Next, NEW w \in Workers, pc'[w] # "idle"
    PROVE  \/ /\ pc[w] = "idle" /\ pc'[w] = "run" /\ Take(w)
              /\ \E i \in DOMAIN tasks : job'[w] = tasks[i] /\ tasks' = RemoveAt(tasks, i)
           \/ /\ pc[w] # "idle"
              /\ job'[w].op = job[w].op /\ job'[w].to = job[w].to /\ job'[w].from = job[w].from
              /\ pc'[w] \in {"run", "compare"} => pc[w] \in {"run", "compare"} /\ job'[w] = job[w]
  <1> DEFINE P == \/ /\ pc[w] = "idle" /\ pc'[w] = "run" /\ Take(w)
                     /\ \E i \in DOMAIN tasks : job'[w] = tasks[i] /\ tasks' = RemoveAt(tasks, i)
                  \/ /\ pc[w] # "idle"
                     /\ job'[w].op = job[w].op /\ job'[w].to = job[w].to /\ job'[w].from = job[w].from
                     /\ pc'[w] \in {"run", "compare"} => pc[w] \in {"run", "compare"} /\ job'[w] = job[w]
  <1>1. CASE WorkerStep(w)
    <2>1. CASE pc[w] = "idle"
      <3>1. Take(w)
        BY <1>1, <2>1, JobCases
      <3>2. QED
        BY <3>1, TakeEffects
    <2>2. CASE pc[w] # "idle"
      <3>1. pc'[w] = "compare" => pc[w] = "run"
        BY <1>1, JobCases DEF RunFirstOf, Goto
      <3>2. QED
        BY <1>1, <2>2, <3>1, JobCases
    <2>3. QED
      BY <2>1, <2>2
  <1>2. CASE ~WorkerStep(w)
    <2>1. pc'[w] = pc[w] /\ job'[w] = job[w]
      <3>1. ASSUME NEW v \in Workers, WorkerStep(v) PROVE pc'[w] = pc[w] /\ job'[w] = job[w]
        BY <1>2, <3>1, WorkerSame DEF OthersWork
      <3>2. ASSUME NEW t \in Clients, ClientStep(t) PROVE pc'[w] = pc[w] /\ job'[w] = job[w]
        BY <3>2, ClientJobs DEF SameJobs
      <3>3. QED
        BY <3>1, <3>2, StopEffects, DiscardEffects DEF Next
    <2>2. QED
      BY <2>1
  <1>3. QED
    BY <1>1, <1>2

LEMMA WorkInvStep ==
    ASSUME Inv, Next PROVE WorkInv'
  <1> USE DEF Inv
  <1>1. ASSUME NEW i \in DOMAIN tasks'
        PROVE  IsTask(tasks[i])' /\ (tasks'[i].from # Null => tasks'[i].result = taken'[tasks'[i].from])
    <2>1. ASSUME NEW k \in DOMAIN tasks, tasks'[i] = tasks[k]
          PROVE  IsTask(tasks[i])' /\ (tasks'[i].from # Null => tasks'[i].result = taken'[tasks'[i].from])
      <3>1. PICK j \in Tasks : j = tasks[k] /\ IsTask(j)
        BY JobTypes
      <3>2. IsTask(j)' /\ (j.from # Null => taken'[j.from] = taken[j.from])
        BY <3>1, TaskStays
      <3>3. IsTask(tasks[i])'
        BY <2>1, <3>1, <3>2 DEF IsTask
      <3>4. QED
        BY <2>1, <3>1, <3>2, <3>3 DEF WorkInv
    <2>2. QED
      BY <2>1, TaskCases
  <1>2. ASSUME NEW w \in Workers, pc'[w] # "idle"
        PROVE  /\ IsTask(job[w])'
               /\ pc'[w] \in {"run", "compare"} /\ job'[w].from # Null
                     => job'[w].result = taken'[job'[w].from]
    <2>1. CASE \E i \in DOMAIN tasks : pc'[w] = "run" /\ job'[w] = tasks[i]
      <3>1. PICK i \in DOMAIN tasks : job'[w] = tasks[i]
        BY <2>1
      <3>2. PICK j \in Tasks : j = tasks[i] /\ IsTask(j)
        BY JobTypes
      <3>3. IsTask(j)' /\ (j.from # Null => taken'[j.from] = taken[j.from])
        BY <3>2, TaskStays
      <3>4. IsTask(job[w])'
        BY <3>1, <3>2, <3>3 DEF IsTask
      <3>5. QED
        BY <3>1, <3>2, <3>3, <3>4 DEF WorkInv
    <2>2. CASE /\ pc[w] # "idle"
               /\ job'[w].op = job[w].op /\ job'[w].to = job[w].to /\ job'[w].from = job[w].from
               /\ pc'[w] \in {"run", "compare"} => pc[w] \in {"run", "compare"} /\ job'[w] = job[w]
      <3>1. PICK j \in Tasks : j = job[w] /\ IsTask(j)
        BY <2>2, JobTypes
      <3>2. IsTask(j)' /\ (j.from # Null => taken'[j.from] = taken[j.from])
        BY <3>1, TaskStays
      <3>3. PICK k : k = job'[w]
        OBVIOUS
      <3>4. k.op = j.op /\ k.to = j.to /\ k.from = j.from
        BY <2>2, <3>1, <3>3
      <3>5. IsTask(k)'
        BY <3>2, <3>4 DEF IsTask, Links
      <3>6. IsTask(job[w])'
        BY <3>3, <3>5 DEF IsTask
      <3>7. QED
        BY <2>2, <3>1, <3>2, <3>6 DEF WorkInv
    <2>3. QED
      BY <1>2, <2>1, <2>2, RunCases
  <1>3. QED
    BY <1>1, <1>2 DEF WorkInv

LEMMA OnceStep ==
    ASSUME Inv, Next PROVE OnceInv'
  <1> USE DEF Inv
  <1>1. ASSUME NEW i \in DOMAIN tasks', NEW j \in DOMAIN tasks', SameWork(tasks'[i], tasks'[j])
        PROVE  i = j
    <2>1. CASE tasks' = tasks
      BY <1>1, <2>1 DEF OnceInv
    <2>2. ASSUME NEW k, tasks' = Append(tasks, k),
                 \A l \in Tasks : IsTask(l) => ~SameWork(l, k) /\ ~SameWork(k, l)
          PROVE  i = j
      <3> DEFINE n == Len(tasks) + 1
      <3>1. /\ \A l \in DOMAIN tasks : tasks[l] \in Tasks /\ IsTask(tasks[l])
            /\ \A l \in DOMAIN tasks' : (l \in DOMAIN tasks /\ tasks'[l] = tasks[l]) \/ l = n
            /\ tasks'[n] = k
        BY <2>2, QueueUp, JobTypes
      <3> HIDE DEF n
      <3>2. QED
        BY <1>1, <2>2, <3>1 DEF OnceInv
    <2>3. ASSUME NEW k \in DOMAIN tasks, tasks' = RemoveAt(tasks, k)
          PROVE  i = j
      BY <1>1, <2>3, QueueOff DEF OnceInv
    <2>4. QED
      BY <2>1, <2>2, <2>3, QueueCases DEF Discard, Take
  <1>2. ASSUME NEW w \in Workers, pc'[w] # "idle", NEW i \in DOMAIN tasks'
        PROVE  ~SameWork(tasks'[i], job'[w])
    <2>1. CASE Take(w)
      <3>1. PICK k \in DOMAIN tasks : job'[w] = tasks[k] /\ tasks' = RemoveAt(tasks, k)
        BY <2>1, TakeEffects
      <3>2. \E l \in DOMAIN tasks \ {k} : tasks'[i] = tasks[l]
        BY <3>1, QueueOff
      <3>3. QED
        BY <3>1, <3>2 DEF OnceInv
    <2>2. CASE ~Take(w)
      <3>1. pc[w] # "idle" /\ job'[w].to = job[w].to /\ job'[w].from = job[w].from
        BY <1>2, <2>2, RunCases
      <3>2. \A l \in DOMAIN tasks : ~SameWork(tasks[l], job'[w])
        BY <3>1 DEF OnceInv, SameWork
      <3>3. job[w] \in Tasks /\ IsTask(job[w])
        BY <3>1, JobTypes
      <3>4. ASSUME NEW k, tasks' = Append(tasks, k),
                   \A l \in Tasks : IsTask(l) => ~SameWork(l, k) /\ ~SameWork(k, l)
            PROVE  ~SameWork(tasks'[i], job'[w])
        <4>1. (i \in DOMAIN tasks /\ tasks'[i] = tasks[i]) \/ tasks'[i] = k
          BY <3>4, QueueUp
        <4>2. ~SameWork(k, job'[w])
          BY <3>1, <3>3, <3>4 DEF SameWork
        <4>3. QED
          BY <3>2, <4>1, <4>2
      <3>5. ASSUME NEW k \in DOMAIN tasks, tasks' = RemoveAt(tasks, k)
            PROVE  ~SameWork(tasks'[i], job'[w])
        BY <3>2, <3>5, QueueOff
      <3>6. QED
        BY <3>2, <3>4, <3>5, QueueCases DEF Discard, Take
    <2>3. QED
      BY <2>1, <2>2
  <1>3. ASSUME NEW w \in Workers, NEW v \in Workers, pc'[w] # "idle", pc'[v] # "idle",
               SameWork(job'[w], job'[v])
        PROVE  w = v
    <2>1. ASSUME NEW a \in Workers, NEW b \in Workers, Take(a), a # b, pc'[b] # "idle"
          PROVE  ~SameWork(job'[a], job'[b]) /\ ~SameWork(job'[b], job'[a])
      <3>1. PICK k \in DOMAIN tasks : job'[a] = tasks[k]
        BY <2>1, TakeEffects
      <3>2. pc[b] # "idle" /\ job'[b] = job[b]
        BY <2>1, WorkerSame DEF WorkerStep, OthersWork
      <3>3. QED
        BY <3>1, <3>2 DEF OnceInv, SameWork
    <2>2. CASE ~Take(w) /\ ~Take(v)
      <3>1. /\ pc[w] # "idle" /\ job'[w].to = job[w].to /\ job'[w].from = job[w].from
            /\ pc[v] # "idle" /\ job'[v].to = job[v].to /\ job'[v].from = job[v].from
        BY <1>3, <2>2, RunCases
      <3>2. QED
        BY <1>3, <3>1 DEF OnceInv, SameWork
    <2>3. QED
      BY <1>3, <2>1, <2>2
  <1>4. QED
    BY <1>1, <1>2, <1>3 DEF OnceInv, SameWork

\* A client either is done with its call or goes on with it.
LEMMA CallCases ==
    ASSUME Inv, Next
    PROVE  \/ todo' = todo /\ \A u \in Clients : pc[u] # "idle" => pc'[u] # "idle"
           \/ \E t \in Clients : Finishes(t) /\ OthersStay(t)
  <1> USE DEF Inv
  <1>1. ASSUME NEW t \in Clients, ClientStep(t)
        PROVE  \/ todo' = todo /\ \A u \in Clients : pc[u] # "idle" => pc'[u] # "idle"
               \/ Finishes(t) /\ OthersStay(t)
    <2>1. OthersStay(t)
      BY <1>1, ClientFrame
    <2>2. \/ Finishes(t)
          \/ todo' = todo /\ (pc[t] # "idle" => pc'[t] # "idle")
      <3>1. CASE Execute(t)
        BY <3>1, ExecuteEffects
      <3>2. CASE DropFuture(t)
        BY <3>2, DropFutureEffects
      <3>3. CASE ~Execute(t) /\ ~DropFuture(t)
        BY <1>1, <3>3, Constants
           DEF ClientStep, Attach, SetCallback, SubmitCallback, Subscribed, GetResult, Wait, Read, Goto,
               client, TypeOK
      <3>4. QED
        BY <3>1, <3>2, <3>3
    <2>3. QED
      BY <2>1, <2>2 DEF OthersStay
  <1>2. QED
    BY <1>1, WorkerSame, StopEffects, DiscardEffects DEF Next

LEMMA GroupStep ==
    ASSUME Inv, Next PROVE GroupInv'
  <1> USE DEF Inv
  <1>1. ASSUME NEW d \in Contracts
        PROVE  /\ d \notin Grouped' => Made(d)' = NoCall
               /\ d \in Grouped' => /\ Made(d)'.op \in Attaching /\ Made(d)'.to = d
                                    /\ WellFormed(Made(d)') /\ d \notin Unmade'
    <2>1. CASE \E t \in Clients : Attach(t) /\ Call(t).to = d
      <3>1. PICK t \in Clients : Attach(t) /\ Call(t).to = d
        BY <2>1
      <3>2. /\ Made(d)' = Call(t) /\ Call(t).op \in Attaching /\ Unmade' = Unmade \ {d}
            /\ todo[t] # << >>
        BY <3>1, AttachEffects, Constants
      <3>3. WellFormed(Call(t))
        BY <3>2, CallFacts
      <3>4. d \in Grouped'
        BY <3>2 DEF Grouped, Attaching
      <3>5. QED
        BY <3>1, <3>2, <3>3, <3>4
    <2>2. CASE Made(d)' = Made(d)
      <3>1. d \in Grouped' <=> d \in Grouped
        BY <2>2 DEF Grouped
      <3>2. QED
        BY <2>2, <3>1, Shrinks DEF GroupInv
    <2>3. QED
      BY <2>1, <2>2, GroupCases, AttachEffects DEF Made
  <1>2. ASSUME NEW d \in Contracts, NEW c \in Inputs(d)'
        PROVE  /\ c \notin Unmade' /\ c \in Contracts
               /\ \A e \in Contracts : c \in Inputs(e)' => e = d
    <2>1. CASE c \in Inputs(d) /\ Made(d)' = Made(d) /\ d \notin Unmade
      <3>1. c \in Contracts /\ c \notin Unmade'
        BY <2>1, GroupOf, Shrinks
      <3>2. ASSUME NEW e \in Contracts, c \in Inputs(e)' PROVE e = d
        BY <2>1, <3>2, InputCases DEF GroupInv
      <3>3. QED
        BY <3>1, <3>2
    <2>2. CASE /\ \E t \in Clients : Attach(t) /\ Call(t).to = d /\ Made(d)' = Call(t)
               /\ c \in Unsubscribed /\ c \in Owned /\ d \in Unmade
               /\ c \in Unsubscribed' /\ \A e \in Contracts : c \notin Inputs(e)
      <3>1. PICK t \in Clients : Attach(t) /\ Call(t).to = d /\ Made(d)' = Call(t)
        BY <2>2
      <3>2. c \in Contracts /\ c \notin Unmade'
        BY <2>2, Shrinks DEF Owned
      <3>3. ASSUME NEW e \in Contracts, c \in Inputs(e)' PROVE e = d
        <4>1. e # d => Made(e)' = Made(e)
          BY <3>1, AttachEffects DEF Made
        <4>2. e # d => c \in Inputs(e)
          BY <3>3, <4>1 DEF Inputs
        <4>3. QED
          BY <2>2, <4>2
      <3>4. QED
        BY <3>2, <3>3
    <2>3. QED
      BY <2>1, <2>2, InputCases
  <1>3. ASSUME NEW d \in Contracts, NEW c \in Inputs(d)', NEW u \in Clients,
               NEW i \in DOMAIN todo'[u], Uses(u, i, c)'
        PROVE  Begun(u, i)' /\ Call(u)'.to = d
    <2>1. CASE c \in Inputs(d)
      <3>1. \A k \in DOMAIN todo[u] : Uses(u, k, c) => Begun(u, k) /\ Call(u).to = d
        BY <2>1 DEF GroupInv
      <3>2. CASE todo' = todo /\ \A t \in Clients : pc[t] # "idle" => pc'[t] # "idle"
        <4>1. Uses(u, i, c) /\ i \in DOMAIN todo[u] /\ Call(u)' = Call(u)
          BY <1>3, <3>2 DEF Uses, Call
        <4>2. Begun(u, i) => Begun(u, i)'
          BY <3>2 DEF Begun
        <4>3. QED
          BY <3>1, <4>1, <4>2
      <3>3. ASSUME NEW t \in Clients, Finishes(t), OthersStay(t)
            PROVE  Begun(u, i)' /\ Call(u)'.to = d
        <4>1. CASE u = t
          <5>1. /\ i + 1 \in DOMAIN todo[u] \ {1} /\ todo'[u][i] = todo[u][i + 1]
            BY <3>3, <4>1, Advance
          <5>2. Uses(u, i + 1, c) /\ ~Begun(u, i + 1)
            BY <1>3, <5>1 DEF Uses, Begun
          <5>3. QED
            BY <3>1, <5>1, <5>2
        <4>2. CASE u # t
          <5>1. Uses(u, i, c) /\ i \in DOMAIN todo[u] /\ Call(u)' = Call(u)
            BY <1>3, <3>3, <4>2 DEF Uses, Call, OthersStay
          <5>2. Begun(u, i) => Begun(u, i)'
            BY <3>3, <4>2 DEF Begun, OthersStay
          <5>3. QED
            BY <3>1, <5>1, <5>2
        <4>3. QED
          BY <4>1, <4>2
      <3>4. QED
        BY <3>2, <3>3, CallCases
    <2>2. CASE c \notin Inputs(d)
      <3>1. PICK t \in Clients : Attach(t) /\ Call(t).to = d /\ Made(d)' = Call(t)
        BY <2>2, InputCases
      <3>2. todo' = todo /\ pc'[t] = "subscribe" /\ todo[t] # << >>
        BY <3>1, AttachEffects
      <3>3. c \in Range(Call(t).at)
        BY <3>1 DEF Inputs
      <3>4. Uses(t, 1, c) /\ c \in Contracts
        BY <3>2, <3>3, Used
      <3>5. u = t /\ i = 1
        BY <1>3, <3>2, <3>4, OneCall, Constants DEF Uses
      <3>6. QED
        BY <3>1, <3>2, <3>5 DEF Begun, Call
    <2>3. QED
      BY <2>1, <2>2
  <1>4. QED
    BY <1>1, <1>2, <1>3 DEF GroupInv

------------------------------------------------------------------------------
\* Who writes the callback word: the owner of the Future and that of the Promise.
LEMMA CallbackCases ==
    ASSUME Inv, Next
    PROVE  \/ callback' = callback
           \/ \E t \in Clients : SetCallback(t)
           \/ \E w \in Workers : Exchange(w)
  <1>1. ASSUME NEW t \in Clients, ClientStep(t), ~SetCallback(t) PROVE callback' = callback
    BY <1>1 DEF ClientStep, Execute, Attach, SubmitCallback, DropFuture, GetResult, Wait, Read, contract
  <1>2. ASSUME NEW w \in Workers, WorkerStep(w), ~Exchange(w) PROVE callback' = callback
    BY <1>2 DEF WorkerStep, Take, Run, RunSubscriber, RunAll, RunFirstOf, Compare, SetValue, Invoke, Notify,
                DropPromise, contract
  <1>3. QED
    BY <1>1, <1>2 DEF Next, Stop, Discard, contract

\* Those who submit the callback of a contract have found its value.
LEMMA SubmittingCases ==
    ASSUME Inv, Next, NEW c \in Contracts, c \in Submitting', c \notin Submitting
    PROVE  \E t \in Clients : SetCallback(t) /\ c = Head(rest[t]) /\ callback[c] = kValueIsSet
  <1>1. ASSUME NEW t \in Clients, ClientStep(t), ~SetCallback(t) PROVE Submitting' \subseteq Submitting
    <2>1. CASE Execute(t)
      BY <2>1, ExecuteEffects
    <2>2. CASE Attach(t)
      BY <2>2, AttachEffects
    <2>3. CASE SubmitCallback(t)
      BY <2>3, SubmitCallbackEffects
    <2>4. CASE DropFuture(t)
      BY <2>4, DropFutureEffects
    <2>5. CASE GetResult(t)
      BY <2>5, GetResultEffects
    <2>6. CASE Wait(t)
      BY <2>6, WaitEffects DEF SameClients
    <2>7. CASE Read(t)
      BY <2>7, ReadEffects
    <2>8. QED
      BY <1>1, <2>1, <2>2, <2>3, <2>4, <2>5, <2>6, <2>7 DEF ClientStep
  <1>2. QED
    BY <1>1, WorkerSame, StopEffects, DiscardEffects, SetCallbackEffects DEF Next, SameClients

\* Who comes to set the promise of a contract.
LEMMA InSettingCases ==
    ASSUME Inv, Next
    PROVE  \/ InSetting' \subseteq InSetting
           \/ \E w \in Workers : /\ WorkerStep(w) /\ pc[w] \notin Setting /\ pc'[w] = "set"
                                 /\ job[w].to \in Contracts /\ Unset(job[w].to) /\ job'[w].to = job[w].to
                                 /\ InSetting' = InSetting \cup {job[w].to}
  <1> USE DEF Inv
  <1>1. ASSUME NEW t \in Clients, ClientStep(t) PROVE InSetting' = InSetting
    BY <1>1, ClientJobs DEF SameJobs
  <1>2. ASSUME NEW w \in Workers, WorkerStep(w), pc[w] \notin Setting, pc'[w] \in Setting
        PROVE  /\ pc'[w] = "set" /\ job'[w].to = job[w].to
               /\ job[w].to \in Contracts /\ Unset(job[w].to)
               /\ InSetting' = InSetting \cup {job[w].to}
    <2>1. pc'[w] = "set" /\ job[w].to \in Contracts /\ Unset(job[w].to) /\ job'[w].to = job[w].to
      BY <1>2, JobCases, Entering DEF Setting
    <2>2. QED
      BY <1>2, <2>1, WorkerSame, SettingViews
  <1>3. ASSUME NEW w \in Workers, WorkerStep(w), pc[w] \in Setting \/ pc'[w] \notin Setting
        PROVE  InSetting' \subseteq InSetting
    <2>1. pc[w] \in Setting /\ pc'[w] \in Setting => job'[w].to = job[w].to
      BY <1>3, JobCases DEF Setting
    <2>2. QED
      BY <1>3, <2>1, WorkerSame, SettingViews
  <1>4. QED
    BY <1>1, <1>2, <1>3, StopEffects, DiscardEffects DEF Next

LEMMA ContractStep ==
    ASSUME Inv, Next PROVE ContractInv'
  <1> USE DEF Inv
  <1>1. SUFFICES ASSUME NEW c \in Contracts
                 PROVE  /\ taken'[c] # None <=> value'[c] = Moved
                        /\ callback'[c] = kValueIsSet => value'[c] # Null
                        /\ callback'[c] \notin {Null, kValueIsSet} => Links(callback[c], c)'
                        /\ c \in Unsubscribed' => callback'[c] \in {Null, kValueIsSet} /\ value'[c] # Moved
                        /\ c \in Submitting' => /\ value'[c] \in Results
                                                /\ callback'[c] \notin {Null, kValueIsSet}
                        /\ c \in Unmade' => value'[c] = Null /\ c \notin InSetting'
    BY DEF ContractInv
  <1>3. taken'[c] # None <=> value'[c] = Moved
    BY ValuesStay
  <1>4. callback'[c] = kValueIsSet => value'[c] # Null
    <2>1. CASE callback'[c] = callback[c]
      BY <2>1, ValuesStay DEF ContractInv
    <2>2. ASSUME NEW w \in Workers, Exchange(w)
          PROVE  callback'[c] = callback[c] \/ value'[c] # Null
      BY <2>2, ExchangeEffects, Constants
    <2>3. ASSUME NEW t \in Clients, SetCallback(t)
          PROVE  callback'[c] = callback[c] \/ callback'[c] # kValueIsSet
      BY <2>3, SetCallbackEffects, Constants
    <2>4. QED
      BY <2>1, <2>2, <2>3, CallbackCases
  <1>5. ASSUME callback'[c] \notin {Null, kValueIsSet} PROVE Links(callback[c], c)'
    <2>1. CASE callback'[c] = callback[c]
      <3>1. PICK f : f = callback[c]
        OBVIOUS
      <3>2. Links(f, c) /\ f \in Callbacks /\ c \notin Unsubscribed
        BY <1>5, <2>1, <3>1 DEF ContractInv, TypeOK
      <3>3. Links(f, c)'
        BY <3>2, LinksStay DEF Callbacks
      <3>4. QED
        BY <2>1, <3>1, <3>3 DEF Links
    <2>2. ASSUME NEW t \in Clients, SetCallback(t), c = Head(rest[t])
          PROVE  Links(callback[c], c)'
      <3>1. PICK f \in Callbacks : f = callback'[c] /\ Links(f, c)
        BY <2>2, SetCallbackEffects
      <3>2. group' = group
        BY <2>2, SetCallbackEffects
      <3>3. QED
        BY <3>1, <3>2 DEF Links, Inputs, Made
    <2>3. ASSUME NEW t \in Clients, SetCallback(t) PROVE callback'[c] = callback[c] \/ c = Head(rest[t])
      BY <2>3, SetCallbackEffects
    <2>4. ASSUME NEW w \in Workers, Exchange(w) PROVE callback'[c] = callback[c]
      BY <1>5, <2>4, ExchangeEffects
    <2>5. QED
      BY <2>1, <2>2, <2>3, <2>4, CallbackCases
  <1>6. ASSUME c \in Unsubscribed'
        PROVE  callback'[c] \in {Null, kValueIsSet} /\ value'[c] # Moved
    <2>1. c \in Unsubscribed /\ callback[c] \in {Null, kValueIsSet} /\ value[c] # Moved /\ c \notin Submitting
      BY <1>6, Shrinks DEF ContractInv
    <2>2. callback'[c] \in {Null, kValueIsSet}
      <3>1. ASSUME NEW t \in Clients, SetCallback(t) PROVE callback'[c] = callback[c]
        BY <1>6, <3>1, SetCallbackEffects
      <3>2. ASSUME NEW w \in Workers, Exchange(w) PROVE callback'[c] \in {callback[c], kValueIsSet}
        BY <3>2, ExchangeEffects
      <3>3. QED
        BY <2>1, <3>1, <3>2, CallbackCases
    <2>3. value'[c] # Moved
      <3>1. ASSUME NEW t \in Clients, SubmitCallback(t) PROVE value'[c] = value[c]
        BY <2>1, <3>1, SubmitCallbackEffects
      <3>2. ASSUME NEW t \in Clients, Read(t) PROVE value'[c] = value[c]
        BY <1>6, <3>2, ReadEffects
      <3>3. ASSUME NEW w \in Workers, SetValue(w) PROVE value'[c] # Moved
        BY <2>1, <3>3, SetValueEffects, Constants
      <3>4. ASSUME NEW w \in Workers, Invoke(w) PROVE value'[c] = value[c]
        BY <2>1, <3>4, InvokeEffects
      <3>5. ASSUME NEW t \in Clients, ClientStep(t), ~SubmitCallback(t), ~Read(t) PROVE value' = value
        BY <3>5 DEF ClientStep, Execute, Attach, SetCallback, DropFuture, GetResult, Wait, contract
      <3>6. ASSUME NEW w \in Workers, WorkerStep(w), ~SetValue(w), ~Invoke(w) PROVE value' = value
        BY <3>6 DEF WorkerStep, Take, Run, RunSubscriber, RunAll, RunFirstOf, Compare, Exchange, Notify,
                    DropPromise, contract
      <3>7. QED
        BY <2>1, <3>1, <3>2, <3>3, <3>4, <3>5, <3>6 DEF Next, Stop, Discard, contract
    <2>4. QED
      BY <2>2, <2>3
  <1>7. ASSUME c \in Submitting'
        PROVE  value'[c] \in Results /\ callback'[c] \notin {Null, kValueIsSet}
    <2>1. CASE c \notin Submitting
      <3>1. PICK t \in Clients : SetCallback(t) /\ c = Head(rest[t]) /\ callback[c] = kValueIsSet
        BY <1>7, <2>1, SubmittingCases
      <3>2. c \in Unsubscribed /\ value' = value /\ callback'[c] \in Callbacks
        BY <3>1, SetCallbackEffects
      <3>3. value[c] # Null /\ value[c] # Moved
        BY <3>1, <3>2 DEF ContractInv
      <3>4. QED
        BY <3>2, <3>3, Constants DEF TypeOK
    <2>2. CASE c \in Submitting
      <3>1. /\ value[c] \in Results /\ callback[c] \notin {Null, kValueIsSet} /\ c \notin Unsubscribed
            /\ callback[c] # kValueIsSet
        BY <2>2 DEF ContractInv
      <3>2. callback'[c] = callback[c]
        BY <2>2, <3>1, CallbackCases, SetCallbackEffects, ExchangeEffects
      <3>3. value'[c] \in Results
        <4>1. ASSUME NEW t \in Clients, SubmitCallback(t) PROVE value'[c] = value[c]
          BY <1>7, <4>1, SubmitCallbackEffects
        <4>2. ASSUME NEW t \in Clients, Read(t) PROVE value'[c] = value[c]
          BY <3>1, <4>2, ReadEffects
        <4>3. ASSUME NEW w \in Workers, SetValue(w) PROVE value'[c] \in Results
          BY <3>1, <4>3, SetValueEffects
        <4>4. ASSUME NEW w \in Workers, Invoke(w) PROVE value'[c] = value[c]
          BY <2>2, <4>4, InvokeEffects
        <4>5. ASSUME NEW t \in Clients, ClientStep(t), ~SubmitCallback(t), ~Read(t) PROVE value' = value
          BY <4>5 DEF ClientStep, Execute, Attach, SetCallback, DropFuture, GetResult, Wait, contract
        <4>6. ASSUME NEW w \in Workers, WorkerStep(w), ~SetValue(w), ~Invoke(w) PROVE value' = value
          BY <4>6 DEF WorkerStep, Take, Run, RunSubscriber, RunAll, RunFirstOf, Compare, Exchange, Notify,
                      DropPromise, contract
        <4>7. QED
          BY <3>1, <4>1, <4>2, <4>3, <4>4, <4>5, <4>6 DEF Next, Stop, Discard, contract
      <3>4. QED
        BY <3>1, <3>2, <3>3
    <2>3. QED
      BY <2>1, <2>2
  <1>8. ASSUME c \in Unmade' PROVE value'[c] = Null /\ c \notin InSetting'
    <2>1. c \in Unmade /\ value[c] = Null /\ c \notin InSetting
      BY <1>8, Shrinks DEF ContractInv
    <2>2. c \notin InSetting'
      <3>1. ASSUME NEW w \in Workers, WorkerStep(w), pc[w] \notin Setting, pc'[w] = "set",
                   job[w].to \in Contracts
            PROVE  job[w].to # c
        <4>1. pc[w] # "idle"
          BY <3>1, JobCases DEF Setting
        <4>2. job[w].to # Null
          BY <3>1, Constants
        <4>3. QED
          BY <2>1, <4>1, <4>2, RunFacts
      <3>2. QED
        BY <2>1, <3>1, InSettingCases
    <2>3. value'[c] = Null
      BY <2>1, ValueCases, Constants DEF Sending, Taking
    <2>4. QED
      BY <2>2, <2>3
  <1>9. QED
    BY <1>3, <1>4, <1>5, <1>6, <1>7, <1>8

\* A worker that sets a promise has just come, goes on, or is left alone.
LEMMA SetterCases ==
    ASSUME Inv, Next, NEW v \in Workers, pc'[v] \in Setting
    PROVE  \/ /\ pc'[v] = pc[v] /\ job'[v] = job[v] /\ old_callback'[v] = old_callback[v]
              /\ ~WorkerStep(v)
           \/ /\ WorkerStep(v) /\ pc[v] \notin Setting /\ pc'[v] = "set" /\ Unset(job[v].to)
              /\ job'[v].to = job[v].to /\ job[v].to \in Contracts
           \/ SetValue(v) \/ Exchange(v) \/ Invoke(v) \/ Notify(v)
  <1> USE DEF Inv
  <1>1. CASE WorkerStep(v)
    <2>1. CASE pc[v] \in Setting
      <3>1. ASSUME DropPromise(v) PROVE FALSE
        BY <3>1, DropPromiseEffects DEF Setting
      <3>2. QED
        BY <1>1, <2>1, <3>1, Constants
           DEF WorkerStep, Take, Run, RunSubscriber, RunAll, RunFirstOf, Compare, Goto, Setting
    <2>2. CASE pc[v] \notin Setting
      BY <1>1, <2>2, JobCases, Entering DEF Setting
    <2>3. QED
      BY <2>1, <2>2
  <1>2. CASE ~WorkerStep(v)
    <2>1. ASSUME NEW t \in Clients, ClientStep(t)
          PROVE  pc'[v] = pc[v] /\ job'[v] = job[v] /\ old_callback'[v] = old_callback[v]
      BY <2>1, ClientJobs DEF SameJobs
    <2>2. ASSUME NEW w \in Workers, WorkerStep(w)
          PROVE  pc'[v] = pc[v] /\ job'[v] = job[v] /\ old_callback'[v] = old_callback[v]
      <3>1. pc'[v] = pc[v] /\ job'[v] = job[v]
        BY <1>2, <2>2, WorkerSame DEF OthersWork
      <3>2. old_callback'[v] = old_callback[v]
        <4>1. CASE Exchange(w)
          BY <1>2, <2>2, <4>1, ExchangeEffects
        <4>2. CASE ~Exchange(w)
          BY <2>2, <4>2
             DEF WorkerStep, Take, Run, RunSubscriber, RunAll, RunFirstOf, Compare, SetValue, Invoke, Notify,
                 DropPromise, worker
        <4>3. QED
          BY <4>1, <4>2
      <3>3. QED
        BY <3>1, <3>2
    <2>3. QED
      BY <1>2, <2>1, <2>2, StopEffects, DiscardEffects DEF Next, SameLocals
  <1>3. QED
    BY <1>1, <1>2

\* Meanwhile nobody else disturbs the contract.
LEMMA Undisturbed ==
    ASSUME Inv, Next, NEW v \in Workers, pc[v] \in Setting, ~WorkerStep(v), NEW d, d = job[v].to
    PROVE  /\ value[d] = Null => value'[d] = Null
           /\ pc[v] \in {"exchange", "invoke"} => value'[d] = value[d]
           /\ pc[v] = "exchange" => callback'[d] # kValueIsSet
           /\ pc[v] = "invoke" => callback'[d] = kValueIsSet
           /\ pc[v] \in {"set", "exchange", "invoke"} => d \notin Submitting'
  <1> USE DEF Inv
  <1>1. /\ d \in Contracts /\ \A w \in Workers \ {v} : pc[w] \in Setting => job[w].to # d
    BY SetsFacts
  <1>2. /\ pc[v] = "set" => value[d] = Null
        /\ pc[v] = "exchange" => value[d] \in Results /\ callback[d] # kValueIsSet
        /\ pc[v] = "invoke" => value[d] \in Results /\ callback[d] = kValueIsSet /\ d \notin Unsubscribed
        /\ pc[v] \in {"set", "exchange", "invoke"} => d \notin Submitting
    BY <1>1 DEF MeetInv
  <1>3. ASSUME NEW w \in Workers, SetValue(w) \/ Exchange(w) \/ Invoke(w)
        PROVE  job[w].to # d
    <2>1. w # v /\ pc[w] \in Setting
      BY <1>3 DEF WorkerStep, SetValue, Exchange, Invoke, Goto, Setting
    <2>2. QED
      BY <1>1, <2>1
  <1>10. ASSUME NEW w \in Workers, SetValue(w) \/ Invoke(w) PROVE value'[d] = value[d]
    <2>1. CASE SetValue(w)
      BY <1>1, <1>3, <2>1, SetValueEffects
    <2>2. CASE Invoke(w)
      <3>1. job[w].to # d /\ value' = [value EXCEPT ![job[w].to] = Moved]
        BY <1>3, <2>2 DEF Invoke, Submit
      <3>2. QED
        BY <1>1, <3>1 DEF TypeOK
    <2>3. QED
      BY <1>10, <2>1, <2>2
  <1>4. value[d] = Null => value'[d] = Null
    <2>1. ASSUME NEW t \in Clients, SubmitCallback(t) \/ Read(t)
          PROVE  value[d] = Null => value'[d] = Null
      BY <1>1, <2>1, SubmitCallbackEffects, ReadEffects, Constants
    <2>2. ASSUME NEW w \in Workers, SetValue(w) \/ Invoke(w) PROVE value'[d] = value[d]
      BY <1>10, <2>2
    <2>3. ASSUME NEW t \in Clients, ClientStep(t), ~SubmitCallback(t), ~Read(t) PROVE value' = value
      BY <2>3 DEF ClientStep, Execute, Attach, SetCallback, DropFuture, GetResult, Wait, contract
    <2>4. ASSUME NEW w \in Workers, WorkerStep(w), ~SetValue(w), ~Invoke(w) PROVE value' = value
      BY <2>4 DEF WorkerStep, Take, Run, RunSubscriber, RunAll, RunFirstOf, Compare, Exchange, Notify,
                  DropPromise, contract
    <2>5. QED
      BY <2>1, <2>2, <2>3, <2>4 DEF Next, Stop, Discard, contract
  <1>5. ASSUME pc[v] \in {"exchange", "invoke"} PROVE value'[d] = value[d]
    <2>1. ASSUME NEW t \in Clients, SubmitCallback(t) PROVE value'[d] = value[d]
      BY <1>1, <1>2, <1>5, <2>1, SubmitCallbackEffects
    <2>2. ASSUME NEW t \in Clients, Read(t) PROVE value'[d] = value[d]
      BY <1>1, <1>2, <1>5, <2>2, ReadEffects
    <2>3. ASSUME NEW w \in Workers, SetValue(w) \/ Invoke(w) PROVE value'[d] = value[d]
      BY <1>10, <2>3
    <2>4. ASSUME NEW t \in Clients, ClientStep(t), ~SubmitCallback(t), ~Read(t) PROVE value' = value
      BY <2>4 DEF ClientStep, Execute, Attach, SetCallback, DropFuture, GetResult, Wait, contract
    <2>5. ASSUME NEW w \in Workers, WorkerStep(w), ~SetValue(w), ~Invoke(w) PROVE value' = value
      BY <2>5 DEF WorkerStep, Take, Run, RunSubscriber, RunAll, RunFirstOf, Compare, Exchange, Notify,
                  DropPromise, contract
    <2>6. QED
      BY <2>1, <2>2, <2>3, <2>4, <2>5 DEF Next, Stop, Discard, contract
  <1>6. pc[v] = "exchange" => callback'[d] # kValueIsSet
    <2>1. ASSUME NEW t \in Clients, SetCallback(t) PROVE callback'[d] = callback[d] \/ callback'[d] # kValueIsSet
      BY <1>1, <2>1, SetCallbackEffects, Constants
    <2>2. ASSUME NEW w \in Workers, Exchange(w) PROVE callback'[d] = callback[d]
      BY <1>1, <1>3, <2>2, ExchangeEffects
    <2>3. QED
      BY <1>2, <2>1, <2>2, CallbackCases
  <1>7. pc[v] = "invoke" => callback'[d] = kValueIsSet
    <2>1. ASSUME pc[v] = "invoke", NEW t \in Clients, SetCallback(t) PROVE callback'[d] = callback[d]
      BY <1>1, <1>2, <2>1, SetCallbackEffects
    <2>2. ASSUME NEW w \in Workers, Exchange(w) PROVE callback'[d] = callback[d]
      BY <1>1, <1>3, <2>2, ExchangeEffects
    <2>3. QED
      BY <1>2, <2>1, <2>2, CallbackCases
  <1>8. ASSUME pc[v] \in {"set", "exchange", "invoke"}, d \in Submitting' PROVE FALSE
    <2>1. PICK t \in Clients : SetCallback(t) /\ d = Head(rest[t]) /\ callback[d] = kValueIsSet
      BY <1>1, <1>2, <1>8, SubmittingCases
    <2>2. d \in Unsubscribed
      BY <2>1, SetCallbackEffects
    <2>3. value[d] # Null
      BY <1>1, <2>1 DEF ContractInv
    <2>4. QED
      BY <1>2, <1>8, <2>1, <2>2, <2>3
  <1>9. QED
    BY <1>4, <1>5, <1>6, <1>7, <1>8

LEMMA MeetStep ==
    ASSUME Inv, Next PROVE MeetInv'
  <1> USE DEF Inv
  <1>1. ASSUME NEW t \in Clients, pc'[t] = "read" PROVE callback'[Head(rest'[t])] = kValueIsSet
    <2>1. CASE pc[t] = "read"
      <3>1. /\ rest'[t] = rest[t] /\ ~SetCallback(t)
        <4>1. ASSUME NEW u \in Clients, ClientStep(u), u # t PROVE rest'[t] = rest[t]
          BY <4>1, ClientFrame DEF OthersStay
        <4>2. ~ClientStep(t)
          BY <1>1, <2>1, Constants
             DEF ClientStep, Execute, Attach, SetCallback, SubmitCallback, DropFuture, GetResult, Wait, Read,
                 Goto, TypeOK
        <4>3. QED
          BY <4>1, <4>2, WorkerSame, StopEffects, DiscardEffects DEF Next, ClientStep
      <3>2. PICK c \in Contracts : c = Head(rest[t])
        BY <2>1, HeadFacts
      <3>3. callback[c] = kValueIsSet
        BY <2>1, <3>2 DEF MeetInv
      <3>4. ASSUME NEW u \in Clients, SetCallback(u) PROVE callback'[c] = callback[c]
        <4>1. u # t /\ pc[u] # "idle"
          BY <3>1, <3>4 DEF SetCallback
        <4>2. Head(rest[u]) # c
          BY <2>1, <3>2, <4>1, AtFacts
        <4>3. QED
          BY <3>4, <4>2, SetCallbackEffects
      <3>5. ASSUME NEW w \in Workers, Exchange(w) PROVE callback'[c] \in {callback[c], kValueIsSet}
        BY <3>5, ExchangeEffects
      <3>6. QED
        BY <3>1, <3>2, <3>3, <3>4, <3>5, CallbackCases
    <2>2. CASE pc[t] # "read"
      <3>1. Wait(t)
        <4>1. ASSUME NEW u \in Clients, ClientStep(u) PROVE u = t
          BY <1>1, <2>2, <4>1, ClientFrame DEF OthersStay
        <4>2. ASSUME ClientStep(t) PROVE Wait(t)
          BY <1>1, <2>2, <4>2, Constants
             DEF ClientStep, Execute, Attach, SetCallback, SubmitCallback, Subscribed, DropFuture, GetResult,
                 Wait, Read, Goto, TypeOK
        <4>3. QED
          BY <1>1, <2>2, <4>1, <4>2, WorkerSame, StopEffects, DiscardEffects DEF Next
      <3>2. /\ pc[t] = "wait" /\ callback' = callback /\ rest' = rest
            /\ callback[Head(rest[t])] # Null
        BY <1>1, <3>1, WaitEffects DEF SameValues
      <3>3. PICK c \in Contracts : c = Head(rest[t])
        BY <3>2, HeadFacts
      <3>4. c \in Unsubscribed
        <4>1. todo[t] # << >> /\ c \in Range(Call(t).at)
          BY <3>2, <3>3, HeadFacts
        <4>2. Awaits(t, c)
          BY <3>2, <4>1, FirstCall, UnmetCases
        <4>3. QED
          BY <4>2 DEF Unsubscribed
      <3>5. QED
        BY <3>2, <3>3, <3>4 DEF ContractInv
    <2>3. QED
      BY <2>1, <2>2
  <1>2. ASSUME NEW v \in Workers, NEW d, d = job'[v].to, pc'[v] \in Setting
        PROVE  /\ pc'[v] = "set" => value'[d] = Null
               /\ pc'[v] = "exchange" => value'[d] \in Results /\ callback'[d] # kValueIsSet
               /\ pc'[v] = "invoke" => /\ value'[d] \in Results /\ callback'[d] = kValueIsSet
                                       /\ d \notin Unsubscribed'
                                       /\ old_callback'[v] \in Callbacks /\ Links(old_callback[v], d)'
               /\ pc'[v] \in {"notify", "drop"} => value'[d] # Null
               /\ pc'[v] \in {"set", "exchange", "invoke"} => d \notin Submitting'
    <2>1. CASE /\ pc'[v] = pc[v] /\ job'[v] = job[v] /\ old_callback'[v] = old_callback[v]
               /\ ~WorkerStep(v)
      <3>1. pc[v] \in Setting /\ d = job[v].to /\ d \in Contracts
        BY <1>2, <2>1, SetsFacts
      <3>2. /\ value[d] = Null => value'[d] = Null
            /\ pc[v] \in {"exchange", "invoke"} => value'[d] = value[d]
            /\ pc[v] = "exchange" => callback'[d] # kValueIsSet
            /\ pc[v] = "invoke" => callback'[d] = kValueIsSet
            /\ pc[v] \in {"set", "exchange", "invoke"} => d \notin Submitting'
            /\ value[d] # Null => value'[d] # Null
        BY <2>1, <3>1, Undisturbed, ValuesStay
      <3>3. ASSUME pc[v] = "invoke"
            PROVE  /\ d \notin Unsubscribed' /\ old_callback'[v] \in Callbacks
                   /\ Links(old_callback[v], d)'
        <4>1. PICK f \in Callbacks : f = old_callback[v] /\ Links(f, d) /\ d \notin Unsubscribed
          BY <3>1, <3>3 DEF MeetInv
        <4>2. Links(f, d)'
          BY <3>1, <4>1, LinksStay DEF Callbacks
        <4>3. QED
          BY <2>1, <4>1, <4>2, Shrinks DEF Links
      <3>4. QED
        BY <2>1, <3>1, <3>2, <3>3 DEF MeetInv
    <2>2. CASE /\ WorkerStep(v) /\ pc[v] \notin Setting /\ pc'[v] = "set" /\ Unset(job[v].to)
               /\ job'[v].to = job[v].to /\ job[v].to \in Contracts
      <3>1. d \in Contracts /\ value[d] = Null /\ d \notin InSetting
        BY <1>2, <2>2 DEF Unset
      <3>2. d \notin Submitting
        BY <3>1, Constants DEF ContractInv
      <3>3. SameClients
        BY <2>2, WorkerSame
      <3>4. value'[d] = Null
        BY <3>1, ValueCases, Constants DEF Sending, Taking
      <3>5. QED
        BY <2>2, <3>2, <3>3, <3>4 DEF SameClients
    <2>3. CASE SetValue(v)
      <3>1. /\ pc'[v] = "exchange" /\ d = job[v].to /\ d \in Contracts /\ value[d] = Null
            /\ value'[d] \in Results /\ callback' = callback /\ pc[v] = "set"
        BY <1>2, <2>3, SetValueEffects
      <3>2. callback[d] # kValueIsSet /\ d \notin Submitting
        BY <3>1, Constants DEF ContractInv
      <3>3. SameClients
        BY <2>3, WorkerSame DEF WorkerStep
      <3>4. QED
        BY <3>1, <3>2, <3>3 DEF SameClients
    <2>4. CASE Exchange(v)
      <3>1. /\ d = job[v].to /\ d \in Contracts /\ d \notin Submitting /\ value' = value
            /\ pc'[v] = IF callback[d] = Null THEN "notify" ELSE "invoke"
            /\ callback'[d] = kValueIsSet /\ old_callback'[v] = callback[d]
            /\ value[d] \in Results /\ callback[d] # kValueIsSet /\ SameGroups
        BY <1>2, <2>4, ExchangeEffects
      <3>2. SameClients
        BY <2>4, WorkerSame DEF WorkerStep
      <3>3. callback[d] # Null => /\ d \notin Unsubscribed /\ Links(callback[d], d)
                                  /\ callback[d] \in Callbacks
        BY <3>1 DEF ContractInv, TypeOK
      <3>4. callback[d] # Null => Links(old_callback[v], d)'
        <4>1. PICK f : f = callback[d]
          OBVIOUS
        <4>2. f # Null => Links(f, d)'
          BY <3>1, <3>3, <4>1 DEF Links, Inputs, Made, SameGroups
        <4>3. QED
          BY <3>1, <4>1, <4>2 DEF Links
      <3>5. QED
        BY <3>1, <3>2, <3>3, <3>4, Constants DEF SameClients
    <2>5. CASE Invoke(v)
      <3>1. pc'[v] = "drop" /\ d = job[v].to /\ d \in Contracts /\ value'[d] = Moved
        BY <1>2, <2>5, InvokeEffects
      <3>2. QED
        BY <3>1, Constants
    <2>6. CASE Notify(v)
      <3>1. pc'[v] = "drop" /\ d = job[v].to /\ pc[v] = "notify" /\ value' = value
        BY <1>2, <2>6, NotifyEffects DEF SameValues
      <3>2. QED
        BY <3>1 DEF MeetInv
    <2>7. QED
      BY <1>2, <2>1, <2>2, <2>3, <2>4, <2>5, <2>6, SetterCases
  <1>3. ASSUME NEW w \in Workers
        PROVE  (LET d == job[w].to
                IN  /\ pc[w] = "set" => value[d] = Null
                    /\ pc[w] = "exchange" => value[d] \in Results /\ callback[d] # kValueIsSet
                    /\ pc[w] = "invoke" => /\ value[d] \in Results /\ callback[d] = kValueIsSet
                                           /\ d \notin Unsubscribed
                                           /\ old_callback[w] \in Callbacks /\ Links(old_callback[w], d)
                    /\ pc[w] \in {"notify", "drop"} => value[d] # Null
                    /\ pc[w] \in {"set", "exchange", "invoke"} => d \notin Submitting)'
    <2>1. PICK d : d = job'[w].to
      OBVIOUS
    <2>2. Links(old_callback[w], job[w].to)' <=> Links(old_callback[w], d)'
      BY <2>1 DEF Links
    <2>3. QED
      BY <1>2, <2>1, <2>2 DEF Setting
  <1>4. QED
    BY <1>1, <1>3 DEF MeetInv

------------------------------------------------------------------------------
\* The owner of the Promise: a routine, one that sets it, or the group.
LEMMA PromisedStays ==
    ASSUME Inv, Next, NEW c \in Contracts, Made(c)' = Made(c),
           value[c] = Null <=> value'[c] = Null,
           \/ /\ c \in InSetting' <=> c \in InSetting
              /\ c \in Executed' <=> c \in Executed
           \/ c \in InSetting' /\ c \in Promised
    PROVE  c \in Promised' <=> c \in Promised
  BY DEF Promised, Grouped

LEMMA OwnersStep ==
    ASSUME Inv, Next PROVE OwnersInv'
  <1>1. SUFFICES ASSUME NEW c \in Contracts
                 PROVE  owners_count'[c] = (IF c \in Owned' THEN 1 ELSE 0)
                                           + (IF c \in Promised' THEN 1 ELSE 0)
    BY DEF OwnersInv
  <1>2. owners_count[c] = (IF c \in Owned THEN 1 ELSE 0) + (IF c \in Promised THEN 1 ELSE 0)
    BY DEF OwnersInv, Inv
  <1> DEFINE Same == /\ owners_count'[c] = owners_count[c]
                     /\ c \in Owned' <=> c \in Owned
                     /\ c \in Promised' <=> c \in Promised
             Holds == owners_count'[c] = (IF c \in Owned' THEN 1 ELSE 0)
                                         + (IF c \in Promised' THEN 1 ELSE 0)
  <1>3. Same => Holds
    BY <1>2
  <1>4. ASSUME NEW t \in Clients, ClientStep(t) PROVE Holds
    <2>1. CASE Execute(t)
      <3>1. PICK d : d = Call(t).to
        OBVIOUS
      <3>6. d \in Contracts
        BY <2>1, <3>1, ExecuteEffects
      <3>7. Owned' = Owned \cup {d} /\ Executed' = Executed \cup {d}
        BY <2>1, <3>1, ExecuteEffects
      <3>8. \A e \in Contracts : owners_count'[e] = IF e = d THEN 2 ELSE owners_count[e]
        BY <2>1, <3>1 DEF Execute, Make
      <3>9. SameValues /\ SameJobs /\ group' = group
        BY <2>1, <3>1, ExecuteEffects
      <3>2. /\ d \in Contracts /\ Owned' = Owned \cup {d} /\ Executed' = Executed \cup {d}
            /\ owners_count'[c] = IF c = d THEN 2 ELSE owners_count[c]
            /\ value' = value /\ group' = group /\ InSetting' = InSetting
        BY <3>6, <3>7, <3>8, <3>9 DEF SameValues, SameJobs
      <3>3. CASE c = d
        BY <3>2, <3>3 DEF Promised
      <3>4. CASE c # d
        <4>1. c \in Promised' <=> c \in Promised
          BY <3>2, <3>4, PromisedStays DEF Made
        <4>2. QED
          BY <1>3, <3>2, <3>4, <4>1
      <3>5. QED
        BY <3>3, <3>4
    <2>2. CASE Attach(t)
      <3>1. PICK d : d = Call(t).to
        OBVIOUS
      <3>2. /\ d # Null => d \in Unmade
            /\ Owned' = Owned \cup ({d} \cap Contracts)
            /\ owners_count'[c] = IF c = d THEN 2 ELSE owners_count[c]
            /\ value' = value /\ InSetting' = InSetting /\ Executed' = Executed
            /\ c # d => group'[c] = group[c]
            /\ d # Null => Made(d)' = Call(t) /\ Call(t).op \in Attaching
        BY <2>2, <3>1, AttachEffects DEF SameValues, SameJobs, SameRoutines
      <3>3. CASE c = d
        <4>1. c # Null
          BY Constants
        <4>2. Made(c)' = Call(t) /\ Call(t).op \in Attaching /\ value'[c] = Null
          BY <3>2, <3>3, <4>1 DEF ContractInv, Inv
        <4>3. c \in Grouped'
          BY <4>2 DEF Grouped, Attaching
        <4>4. QED
          BY <3>2, <3>3, <4>2, <4>3 DEF Promised
      <3>4. CASE c # d
        <4>1. c \in Promised' <=> c \in Promised
          BY <3>2, <3>4, PromisedStays DEF Made
        <4>2. QED
          BY <1>3, <3>2, <3>4, <4>1
      <3>5. QED
        BY <3>3, <3>4
    <2>3. CASE SetCallback(t)
      <3>1. /\ Owned' = Owned /\ owners_count' = owners_count /\ value' = value /\ group' = group
            /\ InSetting' = InSetting /\ Executed' = Executed
        BY <2>3, SetCallbackEffects DEF SameJobs, SameRoutines
      <3>2. QED
        BY <1>3, <3>1, PromisedStays DEF Made
    <2>4. CASE SubmitCallback(t)
      <3>1. PICK e : e = Head(rest[t])
        OBVIOUS
      <3>2. PICK f : f = [op |-> Call(t).op, to |-> Call(t).to]
        OBVIOUS
      <3>3. /\ Owned' = Owned /\ owners_count' = owners_count /\ group' = group
            /\ InSetting' = InSetting /\ Executed' = Executed
            /\ c # e => value'[c] = value[c]
            /\ value[e] \in Results /\ value'[e] = Moved
        BY <2>4, <3>1, <3>2, SubmitCallbackEffects DEF SameJobs
      <3>4. QED
        BY <1>3, <3>3, PromisedStays, Constants DEF Made
    <2>5. CASE DropFuture(t)
      <3>1. PICK e : e = Head(rest[t])
        OBVIOUS
      <3>2. /\ e \in Owned /\ Owned' = Owned \ {e} /\ value' = value /\ group' = group
            /\ InSetting' = InSetting /\ Executed' = Executed
            /\ owners_count'[c] = IF c = e THEN owners_count[e] - 1 ELSE owners_count[c]
        BY <2>5, <3>1, DropFutureEffects DEF SameJobs, SameRoutines, SameValues
      <3>3. c \in Promised' <=> c \in Promised
        BY <3>2, PromisedStays DEF Made
      <3>4. QED
        BY <1>2, <3>2, <3>3
    <2>6. CASE GetResult(t)
      <3>1. /\ Owned' = Owned /\ owners_count' = owners_count /\ value' = value /\ group' = group
            /\ InSetting' = InSetting /\ Executed' = Executed
        BY <2>6, GetResultEffects DEF SameJobs, SameRoutines, SameValues
      <3>2. QED
        BY <1>3, <3>1, PromisedStays DEF Made
    <2>7. CASE Wait(t)
      <3>1. /\ Owned' = Owned /\ owners_count' = owners_count /\ value' = value /\ group' = group
            /\ InSetting' = InSetting /\ Executed' = Executed
        BY <2>7, WaitEffects DEF SameJobs, SameRoutines, SameValues, SameClients
      <3>2. QED
        BY <1>3, <3>1, PromisedStays DEF Made
    <2>8. CASE Read(t)
      <3>1. PICK e : e = Head(rest[t])
        OBVIOUS
      <3>2. /\ Owned' = Owned /\ owners_count' = owners_count /\ group' = group
            /\ InSetting' = InSetting /\ Executed' = Executed
            /\ c # e => value'[c] = value[c]
            /\ value[e] \in Results /\ value'[e] = Moved
        BY <2>8, <3>1, ReadEffects DEF SameJobs, SameRoutines
      <3>3. QED
        BY <1>3, <3>2, PromisedStays, Constants DEF Made
    <2>9. QED
      BY <1>4, <2>1, <2>2, <2>3, <2>4, <2>5, <2>6, <2>7, <2>8 DEF ClientStep
  <1>5. ASSUME NEW w \in Workers, WorkerStep(w) PROVE Holds
    <2>1. Owned' = Owned /\ Made(c)' = Made(c)
      BY <1>5, WorkerSame DEF SameClients
    <2>2. CASE Take(w)
      BY <1>3, <2>1, <2>2, TakeEffects, PromisedStays DEF SameValues
    <2>3. CASE Run(w) \/ RunSubscriber(w) \/ RunAll(w) \/ RunFirstOf(w)
      <3>1. PICK d : d = job[w].to
        OBVIOUS
      <3>2. /\ value' = value /\ owners_count' = owners_count /\ pc[w] = "run"
            /\ Executed' = IF job[w].op = "Execute" THEN Executed \ {d} ELSE Executed
            /\ pc'[w] \notin Setting => InSetting' = InSetting
            /\ pc'[w] \in Setting => /\ InSetting' = InSetting \cup {d} /\ Unset(d) /\ d \in Contracts
        BY <2>3, <3>1, RunEffects DEF SameValues
      <3>3. job[w].op = "Execute" => pc'[w] \in Setting /\ d \in Executed
        <4>1. job[w].op = "Execute" => Run(w)
          BY <2>3 DEF RunSubscriber, RunAll, RunFirstOf
        <4>2. Run(w) => pc'[w] = "set"
          BY Constants DEF Run, Goto, TypeOK, Inv
        <4>3. QED
          BY <3>1, <3>2, <4>1, <4>2, RunFacts DEF Setting
      <3>4. job[w].op # "Execute" /\ pc'[w] \in Setting => d \in Grouped
        BY <3>1, <3>2, RunFacts, Constants
      <3>5. pc'[w] \in Setting => d \in Promised
        BY <3>2, <3>3, <3>4 DEF Promised, Unset
      <3>6. c \in Promised' <=> c \in Promised
        <4>1. CASE pc'[w] \in Setting /\ c = d
          BY <2>1, <3>2, <3>5, <4>1, PromisedStays
        <4>2. CASE pc'[w] \notin Setting \/ c # d
          BY <2>1, <3>2, <3>3, <4>2, PromisedStays
        <4>3. QED
          BY <4>1, <4>2
      <3>7. QED
        BY <1>3, <2>1, <3>2, <3>6
    <2>4. CASE Compare(w)
      <3>1. PICK d : d = job[w].to
        OBVIOUS
      <3>2. /\ value' = value /\ owners_count' = owners_count /\ Executed' = Executed
            /\ d \in Contracts /\ d \in Grouped /\ pc'[w] \in {"set", "idle"}
            /\ pc'[w] = "idle" => InSetting' = InSetting
            /\ pc'[w] = "set" => InSetting' = InSetting \cup {d} /\ Unset(d)
        BY <2>4, <3>1, CompareEffects DEF SameValues, SameTasks
      <3>3. pc'[w] = "set" => d \in Promised
        BY <3>2 DEF Promised, Unset
      <3>4. c \in Promised' <=> c \in Promised
        <4>1. CASE pc'[w] = "set" /\ c = d
          BY <2>1, <3>2, <3>3, <4>1, PromisedStays
        <4>2. CASE pc'[w] = "idle" \/ c # d
          BY <2>1, <3>2, <4>2, PromisedStays
        <4>3. QED
          BY <3>2, <4>1, <4>2
      <3>5. QED
        BY <1>3, <2>1, <3>2, <3>4
    <2>5. CASE SetValue(w)
      <3>1. PICK d : d = job[w].to
        OBVIOUS
      <3>2. /\ owners_count' = owners_count /\ InSetting' = InSetting /\ Executed' = Executed
            /\ d \in InSetting /\ c # d => value'[c] = value[c]
        BY <2>5, <3>1, SetValueEffects DEF SameTasks
      <3>3. d \in InSetting
        BY <2>5, <3>1, SetValueEffects
      <3>4. c \in Promised' <=> c \in Promised
        <4>1. CASE c = d
          BY <3>2, <3>3, <4>1 DEF Promised
        <4>2. CASE c # d
          <5>1. value'[c] = value[c]
            BY <2>5, <3>1, <4>2, SetValueEffects
          <5>2. QED
            BY <2>1, <3>2, <5>1, PromisedStays
        <4>3. QED
          BY <4>1, <4>2
      <3>5. QED
        BY <1>3, <2>1, <3>2, <3>4
    <2>6. CASE Exchange(w)
      <3>1. /\ owners_count' = owners_count /\ InSetting' = InSetting /\ Executed' = Executed
            /\ value' = value
        BY <2>6, ExchangeEffects DEF SameTasks
      <3>2. QED
        BY <1>3, <2>1, <3>1, PromisedStays
    <2>7. CASE Invoke(w)
      <3>1. PICK d : d = job[w].to
        OBVIOUS
      <3>2. PICK f : f = old_callback[w]
        OBVIOUS
      <3>3. /\ owners_count' = owners_count /\ InSetting' = InSetting /\ Executed' = Executed
            /\ c # d => value'[c] = value[c]
            /\ value[d] \in Results /\ value'[d] = Moved
        <4>1. owners_count' = owners_count /\ InSetting' = InSetting /\ Executed' = Executed
          BY <2>7, <3>1, <3>2, InvokeEffects
        <4>2. \A e \in Contracts : e # d => value'[e] = value[e]
          BY <2>7, <3>1 DEF Invoke, Submit, Inv, TypeOK
        <4>3. value[d] \in Results /\ value'[d] = Moved
          BY <2>7, <3>1, <3>2, InvokeEffects
        <4>4. QED
          BY <4>1, <4>2, <4>3
      <3>4. QED
        BY <1>3, <2>1, <3>3, PromisedStays, Constants
    <2>8. CASE Notify(w)
      <3>1. /\ owners_count' = owners_count /\ InSetting' = InSetting /\ Executed' = Executed
            /\ value' = value
        BY <2>8, NotifyEffects DEF SameTasks, SameValues
      <3>2. QED
        BY <1>3, <2>1, <3>1, PromisedStays
    <2>9. CASE DropPromise(w)
      <3>1. PICK d : d = job[w].to
        OBVIOUS
      <3>2. /\ d \in Contracts /\ d \in InSetting /\ InSetting' = InSetting \ {d} /\ value[d] # Null
            /\ Executed' = Executed /\ value' = value /\ pc[w] = "drop"
            /\ owners_count'[c] = IF c = d THEN owners_count[d] - 1 ELSE owners_count[c]
        BY <2>9, <3>1, DropPromiseEffects DEF SameTasks, SameValues
      <3>3. d \notin Executed
        <4>1. Active
          BY <3>2 DEF Active
        <4>2. QED
          BY <3>2, <4>1 DEF UnsetInv, Leads, Unset, Inv
      <3>4. CASE c = d
        <4>1. c \in Promised /\ c \notin Promised'
          BY <3>2, <3>3, <3>4 DEF Promised
        <4>2. QED
          BY <1>2, <2>1, <3>2, <3>4, <4>1
      <3>5. CASE c # d
        <4>1. c \in Promised' <=> c \in Promised
          BY <2>1, <3>2, <3>5, PromisedStays
        <4>2. QED
          BY <1>3, <2>1, <3>2, <3>5, <4>1
      <3>6. QED
        BY <3>4, <3>5
    <2>10. QED
      BY <1>5, <2>2, <2>3, <2>4, <2>5, <2>6, <2>7, <2>8, <2>9 DEF WorkerStep
  <1>6. ASSUME Stop PROVE Holds
    <2>1. /\ Owned' = Owned /\ owners_count' = owners_count /\ value' = value /\ group' = group
          /\ InSetting' = InSetting /\ Executed' = Executed
      BY <1>6, StopEffects DEF SameClients, SameValues, SameGroups, SameTasks
    <2>2. QED
      BY <1>3, <2>1, PromisedStays DEF Made
  <1>7. ASSUME Discard PROVE Holds
    <2>1. /\ Owned' = Owned /\ value' = value /\ group' = group /\ InSetting' = {} /\ InSetting = {}
      BY <1>7, DiscardEffects DEF SameClients, SameValues, SameGroups
    <2>2. CASE Executed' = Executed /\ owners_count' = owners_count
      BY <1>3, <2>1, <2>2, PromisedStays DEF Made
    <2>3. ASSUME NEW d \in Contracts, Executed' = Executed \ {d}, d \in Executed, d \notin Grouped,
                 owners_count'[c] = IF c = d THEN owners_count[c] - 1 ELSE owners_count[c]
          PROVE  Holds
      <3>1. CASE c = d
        <4>1. c \in Promised /\ c \notin Promised'
          BY <2>1, <2>3, <3>1 DEF Promised, Grouped, Made
        <4>2. QED
          BY <1>2, <2>1, <2>3, <3>1, <4>1
      <3>2. CASE c # d
        <4>1. c \in Promised' <=> c \in Promised
          BY <2>1, <2>3, <3>2, PromisedStays DEF Made
        <4>2. QED
          BY <1>3, <2>1, <2>3, <3>2, <4>1
      <3>3. QED
        BY <3>1, <3>2
    <2>4. QED
      BY <1>7, <2>2, <2>3, DiscardEffects
  <1>8. QED
    BY <1>4, <1>5, <1>6, <1>7 DEF Next

------------------------------------------------------------------------------
\* What a group has not counted gets fewer only by the routine of one of its inputs,
\* as long as routines run.
LEMMA StaysActive ==
    ASSUME Inv, Next, Active'
    PROVE  Active /\ ~Discard /\ (~stopped' => ~stopped)
  <1>1. ~stopped' => ~stopped
    BY ClientJobs, WorkerSame, DiscardEffects DEF Next, SameJobs, Stop, Discard
  <1>2. ASSUME NEW w \in Workers, pc'[w] # "idle" PROVE Active
    BY <1>2, RunCases DEF Take, Active
  <1>3. QED
    BY <1>1, <1>2, DiscardEffects DEF Active

LEMMA SameUncounted ==
    ASSUME NEW d, Made(d)' = Made(d),
           \A c \in Inputs(d) : (value'[c] # Moved \/ c \in Pending')
                                   <=> (value[c] # Moved \/ c \in Pending)
    PROVE  Uncounted(d)' = Uncounted(d)
  <1>1. Inputs(d)' = Inputs(d)
    BY DEF Inputs
  <1>2. QED
    BY <1>1 DEF Uncounted

Counts(w, d) ==
    /\ Run(w) \/ RunAll(w) \/ RunFirstOf(w)
    /\ pc[w] = "run" /\ job[w].to = d /\ job[w].op = Made(d).op /\ job[w].op # "Execute"
    /\ job[w].from \in Uncounted(d) /\ Uncounted(d)' = Uncounted(d) \ {job[w].from}
LEMMA UncountedCases ==
    ASSUME Inv, Next, Active', NEW d \in Contracts, Made(d)' = Made(d)
    PROVE  Uncounted(d)' = Uncounted(d) \/ \E w \in Workers : Counts(w, d)
  <1>0. \A c \in Inputs(d) : c \in Contracts
    BY GroupOf DEF Inv
  <1>1. ASSUME value' = value, Pending' = Pending PROVE Uncounted(d)' = Uncounted(d)
    BY <1>1, SameUncounted
  <1>2. ASSUME NEW c \in Contracts, value[c] \in Results, Pending' = Pending \cup {c},
               \A e \in Contracts : e # c => value'[e] = value[e]
        PROVE  Uncounted(d)' = Uncounted(d)
    <2>1. value[c] # Moved
      BY <1>2, Constants
    <2>2. QED
      BY <1>0, <1>2, <2>1, SameUncounted
  <1>3. ASSUME NEW t \in Clients, ClientStep(t) PROVE Uncounted(d)' = Uncounted(d)
    <2>1. CASE SubmitCallback(t)
      <3>1. PICK c \in Contracts : c = Head(rest[t])
        BY <2>1, SubmitCallbackEffects
      <3>2. PICK f : f = [op |-> Call(t).op, to |-> Call(t).to]
        OBVIOUS
      <3>3. QED
        BY <1>2, <2>1, <3>1, <3>2, SubmitCallbackEffects
    <2>2. CASE Read(t)
      <3>1. PICK c \in Contracts : c = Head(rest[t])
        BY <2>2, ReadEffects
      <3>2. /\ c \notin Inputs(d) /\ \A e \in Contracts : e # c => value'[e] = value[e]
            /\ Pending' = Pending
        BY <2>2, <3>1, ReadEffects DEF SameRoutines
      <3>3. QED
        BY <1>0, <3>2, SameUncounted
    <2>3. CASE Execute(t)
      BY <1>1, <2>3, ExecuteEffects DEF SameValues
    <2>4. CASE Attach(t) \/ SetCallback(t) \/ DropFuture(t) \/ GetResult(t) \/ Wait(t)
      BY <1>1, <2>4, AttachEffects, SetCallbackEffects, DropFutureEffects, GetResultEffects, WaitEffects
         DEF SameValues, SameRoutines
    <2>5. QED
      BY <1>3, <2>1, <2>2, <2>3, <2>4 DEF ClientStep
  <1>4. ASSUME NEW w \in Workers, WorkerStep(w)
        PROVE  Uncounted(d)' = Uncounted(d) \/ Counts(w, d)
    <2>1. CASE Take(w)
      BY <1>1, <2>1, TakeEffects DEF SameValues
    <2>2. CASE Run(w) \/ RunSubscriber(w) \/ RunAll(w) \/ RunFirstOf(w)
      <3>1. value' = value /\ Pending' = Pending \ {job[w].from} /\ pc[w] = "run"
        BY <2>2, RunEffects DEF SameValues
      <3>2. CASE job[w].from \notin Inputs(d)
        BY <3>1, <3>2, SameUncounted
      <3>3. CASE job[w].from \in Inputs(d)
        <4>1. /\ job[w].from \in Contracts /\ job[w].from # Null /\ job[w].op # "Execute"
              /\ Links(job[w], job[w].from) /\ value[job[w].from] = Moved
          BY <1>0, <3>1, <3>3, JobTypes, TaskFacts, Constants DEF Inv
        <4>2. job[w].to \in Contracts /\ job[w].op = Made(job[w].to).op
              /\ job[w].from \in Inputs(job[w].to) /\ job[w].from \in Uncounted(job[w].to)
          BY <3>1, <3>3, <4>1, RunFacts DEF Links
        <4>3. job[w].to = d
          BY <3>3, <4>2 DEF Inv, GroupInv
        <4>4. d \in Grouped /\ Made(d).to = d /\ WellFormed(Made(d))
          BY <3>3, GroupOf DEF Inv, GroupInv
        <4>5. ~RunSubscriber(w)
          BY <4>2, <4>3, <4>4, Constants DEF RunSubscriber, WellFormed
        <4>6. Uncounted(d)' = Uncounted(d) \ {job[w].from}
          BY <3>1, <4>1 DEF Uncounted, Inputs
        <4>7. QED
          BY <2>2, <3>1, <4>1, <4>2, <4>3, <4>5, <4>6 DEF Counts
      <3>4. QED
        BY <3>2, <3>3
    <2>3. CASE Compare(w) \/ Exchange(w) \/ Notify(w) \/ DropPromise(w)
      BY <1>1, <2>3, CompareEffects, ExchangeEffects, NotifyEffects, DropPromiseEffects
         DEF SameValues, SameTasks
    <2>4. CASE SetValue(w)
      <3>1. PICK c : c = job[w].to
        OBVIOUS
      <3>2. /\ c \in Contracts /\ value[c] = Null /\ value'[c] \in Results
            /\ \A e \in Contracts : e # c => value'[e] = value[e]
            /\ Pending' = Pending
        BY <2>4, <3>1, SetValueEffects DEF SameTasks
      <3>3. value[c] # Moved /\ value'[c] # Moved
        BY <3>2, Constants
      <3>4. QED
        BY <1>0, <3>2, <3>3, SameUncounted
    <2>5. CASE Invoke(w)
      <3>1. PICK c : c = job[w].to
        OBVIOUS
      <3>2. PICK f : f = old_callback[w]
        OBVIOUS
      <3>3. c \in Contracts /\ value[c] \in Results /\ Pending' = Pending \cup {c}
        BY <2>5, <3>1, <3>2, InvokeEffects
      <3>4. \A e \in Contracts : e # c => value'[e] = value[e]
        BY <2>5, <3>1 DEF Invoke, Submit, Inv, TypeOK
      <3>5. QED
        BY <1>2, <3>3, <3>4
    <2>6. QED
      BY <1>4, <2>1, <2>2, <2>3, <2>4, <2>5 DEF WorkerStep
  <1>5. Stop => Uncounted(d)' = Uncounted(d)
    BY <1>1, StopEffects DEF SameValues, SameTasks
  <1>6. QED
    BY <1>3, <1>4, <1>5, StaysActive DEF Next

LEMMA RunCounts ==
    ASSUME Inv, NEW w \in Workers, Run(w) \/ RunAll(w) \/ RunFirstOf(w), job[w].op # "Execute",
           NEW d, d = job[w].to
    PROVE  d \in Contracts /\ d \in Grouped /\ Counts(w, d)
  <1>1. value' = value /\ Pending' = Pending \ {job[w].from} /\ pc[w] = "run"
    BY RunEffects DEF SameValues
  <1>2. job[w] \in Tasks /\ IsTask(job[w]) /\ pc[w] # "idle"
    BY <1>1, JobTypes DEF Inv
  <1>3. d # Null
    BY <1>2, TaskFacts DEF Run, RunAll, RunFirstOf
  <1>4. /\ d \in Contracts /\ d \in Grouped /\ Made(d).op = job[w].op
        /\ job[w].from \in Inputs(d) /\ job[w].from \in Uncounted(d)
    BY <1>1, <1>2, <1>3, RunFacts
  <1>5. value[job[w].from] = Moved
    BY <1>2, TaskFacts
  <1>6. Made(d)' = Made(d)
    BY <1>4, WorkerSame DEF WorkerStep
  <1>7. Uncounted(d)' = Uncounted(d) \ {job[w].from}
    BY <1>1, <1>4, <1>5, <1>6 DEF Uncounted, Inputs
  <1>8. QED
    BY <1>1, <1>4, <1>7 DEF Counts

\* Who changes what is counted, and who deletes it.
LEMMA CountCases ==
    ASSUME Inv, Next, NEW d \in Contracts
    PROVE  \/ \E t \in Clients : Attach(t) /\ Call(t).to = d
           \/ /\ group'[d].count = group[d].count
              /\ group'[d].deleted = group[d].deleted
           \/ \E w \in Workers : /\ RunAll(w) \/ RunFirstOf(w)
                                 /\ job[w].to = d /\ group'[d].count = group[d].count - 1
                                 /\ group'[d].deleted = group[d].deleted
           \/ \E w \in Workers : /\ group'[d].count = group[d].count /\ job[w].to = d
                                 /\ \/ Compare(w) /\ old_count[w] = 1
                                    \/ DropPromise(w) /\ job[w].op = "All"
  <1> DEFINE P == \/ \E t \in Clients : Attach(t) /\ Call(t).to = d
                  \/ /\ group'[d].count = group[d].count
                     /\ group'[d].deleted = group[d].deleted
                  \/ \E w \in Workers : /\ RunAll(w) \/ RunFirstOf(w)
                                        /\ job[w].to = d /\ group'[d].count = group[d].count - 1
                                        /\ group'[d].deleted = group[d].deleted
                  \/ \E w \in Workers : /\ group'[d].count = group[d].count /\ job[w].to = d
                                        /\ \/ Compare(w) /\ old_count[w] = 1
                                           \/ DropPromise(w) /\ job[w].op = "All"
  <1>0. group[d] \in [call : Calls, count : Nat, deleted : BOOLEAN] /\ DOMAIN group = Contracts
    BY DEF Inv, TypeOK
  <1>1. ASSUME NEW t \in Clients, ClientStep(t) PROVE P
    <2>1. CASE Attach(t)
      BY <2>1 DEF Attach
    <2>2. CASE ~Attach(t)
      BY <1>1, <2>2
         DEF ClientStep, Execute, SetCallback, SubmitCallback, DropFuture, GetResult, Wait, Read, groups
    <2>3. QED
      BY <2>1, <2>2
  <1>2. ASSUME NEW w \in Workers, RunAll(w) \/ RunFirstOf(w) PROVE P
    <2>1. group' = [group EXCEPT ![job[w].to].count = @ - 1]
      BY <1>2 DEF RunAll, RunFirstOf
    <2>2. QED
      BY <1>0, <1>2, <2>1
  <1>3. ASSUME NEW w \in Workers, Compare(w) PROVE P
    <2>1. PICK b \in BOOLEAN : group' = [group EXCEPT ![job[w].to].deleted = @ \/ (b /\ old_count[w] = 1)]
      BY <1>3 DEF Compare
    <2>2. CASE old_count[w] = 1
      BY <1>0, <1>3, <2>1, <2>2
    <2>3. CASE old_count[w] # 1
      <3>1. group'[d].count = group[d].count
        BY <1>0, <2>1
      <3>2. group'[d].deleted = (group[d].deleted \/ (job[w].to = d /\ b /\ old_count[w] = 1))
        BY <1>0, <2>1
      <3>3. group'[d].deleted = group[d].deleted
        BY <1>0, <2>3, <3>2
      <3>4. QED
        BY <3>1, <3>3
    <2>4. QED
      BY <2>2, <2>3
  <1>4. ASSUME NEW w \in Workers, DropPromise(w) PROVE P
    <2>1. group' = [group EXCEPT ![job[w].to].deleted = @ \/ job[w].op = "All"]
      BY <1>4 DEF DropPromise
    <2>2. CASE job[w].op = "All"
      BY <1>0, <1>4, <2>1, <2>2
    <2>3. CASE job[w].op # "All"
      <3>1. group'[d].count = group[d].count
        BY <1>0, <2>1
      <3>2. group'[d].deleted = (group[d].deleted \/ (job[w].to = d /\ job[w].op = "All"))
        BY <1>0, <2>1
      <3>3. group'[d].deleted = group[d].deleted
        BY <1>0, <2>3, <3>2
      <3>4. QED
        BY <3>1, <3>3
    <2>4. QED
      BY <2>2, <2>3
  <1>5. ASSUME NEW w \in Workers, WorkerStep(w), ~RunAll(w), ~RunFirstOf(w), ~Compare(w), ~DropPromise(w)
        PROVE  P
    BY <1>5 DEF WorkerStep, Take, Run, RunSubscriber, SetValue, Exchange, Invoke, Notify, groups
  <1>6. QED
    BY <1>1, <1>2, <1>3, <1>4, <1>5 DEF Next, Stop, Discard, groups

LEMMA CountStep ==
    ASSUME Inv, Next PROVE CountInv'
  <1>1. SUFFICES ASSUME Active', NEW d \in Contracts
                 PROVE  /\ Made(d)'.op \in {"All", "FirstOf"} => group'[d].count = Cardinality(Uncounted(d)')
                        /\ group'[d].deleted /\ d \in Grouped' => Uncounted(d)' = {}
    BY DEF CountInv
  <1>2. Active
    BY <1>1, StaysActive
  <1>3. /\ Made(d).op \in {"All", "FirstOf"} => group[d].count = Cardinality(Uncounted(d))
        /\ group[d].deleted /\ d \in Grouped => Uncounted(d) = {}
    BY <1>2 DEF CountInv, Inv
  <1>4. ASSUME NEW t \in Clients, Attach(t), Call(t).to = d
        PROVE  group'[d].count = Cardinality(Uncounted(d)') /\ ~group'[d].deleted
    <2>1. /\ Made(d)' = Call(t) /\ group'[d].count = Len(Call(t).at) /\ ~group'[d].deleted
          /\ value' = value /\ todo[t] # << >>
          /\ \A c \in Range(Call(t).at) : c \in Unsubscribed
      BY <1>4, AttachEffects, Constants DEF SameValues
    <2>2. Call(t).at \in Seq(Contracts) /\ IsInjective(Call(t).at)
      BY <2>1, CallFacts DEF Inv, WellFormed
    <2>3. \A c \in Range(Call(t).at) : value'[c] # Moved
      BY <2>1, <2>2, RangeFacts DEF Inv, ContractInv
    <2>4. Uncounted(d)' = Range(Call(t).at)
      BY <2>1, <2>3 DEF Uncounted, Inputs
    <2>5. QED
      BY <2>1, <2>2, <2>4, InjectiveCardinality
  <1>5. ASSUME \A t \in Clients : Attach(t) => Call(t).to # d PROVE Made(d)' = Made(d)
    BY <1>5, GroupCases, AttachEffects DEF Made, Inv
  <1>6. ASSUME Made(d)' = Made(d),
               group'[d].count = group[d].count, group'[d].deleted = group[d].deleted
        PROVE  /\ Made(d)'.op \in {"All", "FirstOf"} => group'[d].count = Cardinality(Uncounted(d)')
               /\ group'[d].deleted /\ d \in Grouped' => Uncounted(d)' = {}
    <2>1. d \in Grouped' <=> d \in Grouped
      BY <1>6 DEF Grouped
    <2>2. CASE Uncounted(d)' = Uncounted(d)
      BY <1>3, <1>6, <2>1, <2>2
    <2>3. ASSUME NEW w \in Workers, Counts(w, d)
          PROVE  /\ Made(d)'.op \notin {"All", "FirstOf"}
                 /\ ~(group'[d].deleted /\ d \in Grouped')
      <3>1. ASSUME RunAll(w) \/ RunFirstOf(w) PROVE FALSE
        <4>1. group' = [group EXCEPT ![d].count = @ - 1]
          BY <2>3, <3>1 DEF Counts, RunAll, RunFirstOf
        <4>2. group'[d].count = group[d].count - 1 /\ group[d].count \in Nat
          BY <4>1 DEF Inv, TypeOK
        <4>3. QED
          BY <1>6, <4>2
      <3>2. job[w].op \notin {"All", "FirstOf"}
        BY <2>3, <3>1 DEF Counts, Run
      <3>3. QED
        BY <1>3, <1>6, <2>1, <2>3, <3>2 DEF Counts
    <2>4. QED
      BY <1>1, <1>6, <2>2, <2>3, UncountedCases
  <1>7. ASSUME NEW w \in Workers, RunAll(w) \/ RunFirstOf(w), job[w].to = d, Made(d)' = Made(d),
               group'[d].count = group[d].count - 1, group'[d].deleted = group[d].deleted
        PROVE  /\ Made(d)'.op \in {"All", "FirstOf"} => group'[d].count = Cardinality(Uncounted(d)')
               /\ group'[d].deleted /\ d \in Grouped' => Uncounted(d)' = {}
    <2>1. job[w].op \in {"All", "FirstOf"}
      BY <1>7 DEF RunAll, RunFirstOf
    <2>2. d \in Grouped /\ Counts(w, d)
      BY <1>7, <2>1, RunCounts
    <2>3. /\ job[w].from \in Uncounted(d) /\ Uncounted(d)' = Uncounted(d) \ {job[w].from}
          /\ Made(d).op \in {"All", "FirstOf"}
      BY <2>1, <2>2 DEF Counts
    <2>4. IsFiniteSet(Uncounted(d))
      BY <1>2, <2>3, CountFacts DEF Inv
    <2>5. Cardinality(Uncounted(d)') = Cardinality(Uncounted(d)) - 1
      BY <2>3, <2>4, OneLess
    <2>6. ~group[d].deleted
      BY <1>3, <2>2, <2>3
    <2>7. QED
      BY <1>3, <1>7, <2>3, <2>5, <2>6
  <1>8. ASSUME NEW w \in Workers, group'[d].count = group[d].count, job[w].to = d, Made(d)' = Made(d),
               \/ Compare(w) /\ old_count[w] = 1
               \/ DropPromise(w) /\ job[w].op = "All"
        PROVE  /\ Made(d)'.op \in {"All", "FirstOf"} => group'[d].count = Cardinality(Uncounted(d)')
               /\ group'[d].deleted /\ d \in Grouped' => Uncounted(d)' = {}
    <2>1. Uncounted(d)' = Uncounted(d)
      <3>1. value' = value /\ Pending' = Pending
        BY <1>8, CompareEffects, DropPromiseEffects DEF SameValues, SameTasks
      <3>2. QED
        BY <1>8, <3>1, SameUncounted
    <2>2. Uncounted(d) = {}
      <3>1. CASE Compare(w)
        <4>1. pc[w] = "compare" /\ Made(d).op = "FirstOf"
          BY <1>8, <3>1, CompareEffects
        <4>2. 1 > group[d].count
          BY <1>8, <3>1, <4>1, Constants DEF Inv, CompareInv, DropPromise, Goto
        <4>3. group[d].count \in Nat /\ (group[d].count = 0 <=> Uncounted(d) = {})
          BY <1>2, <4>1, CountFacts DEF Inv
        <4>4. QED
          BY <4>2, <4>3
      <3>2. CASE DropPromise(w)
        <4>1. d \in InSetting /\ job[w].op = "All" /\ pc[w] # "idle"
          BY <1>8, <3>2, DropPromiseEffects DEF Compare
        <4>2. Made(d).op = "All"
          BY <1>8, <4>1, RunFacts, Constants
        <4>3. QED
          BY <1>2, <4>1, <4>2 DEF Inv, UnsetInv, Leads, Unset
      <3>3. QED
        BY <1>8, <3>1, <3>2
    <2>3. QED
      BY <1>3, <1>8, <2>1, <2>2
  <1>9. CASE \E t \in Clients : Attach(t) /\ Call(t).to = d
    BY <1>4, <1>9
  <1>10. CASE \A t \in Clients : Attach(t) => Call(t).to # d
    BY <1>5, <1>6, <1>7, <1>8, <1>10, CountCases
  <1>11. QED
    BY <1>9, <1>10

------------------------------------------------------------------------------
\* The callbacks of FirstOf that are about to compare what they have counted.
LEMMA CompareCases ==
    ASSUME Inv, Next, NEW w \in Workers, pc'[w] = "compare", NEW d, d = job'[w].to
    PROVE  /\ job[w].to = d /\ d \in Contracts /\ d \in Grouped /\ d \notin Unmade /\ Active
           /\ Made(d).op = "FirstOf" /\ Made(d)' = Made(d)
           /\ \/ /\ RunFirstOf(w) /\ WorkerStep(w) /\ pc[w] = "run"
                 /\ old_count'[w] = group[d].count /\ group'[d].count = group[d].count - 1
                 /\ group[d].count \in 1..Len(Made(d).at) /\ ~group'[d].deleted
              \/ pc[w] = "compare" /\ ~WorkerStep(w) /\ old_count'[w] = old_count[w]
  <1> USE DEF Inv
  <1>1. pc[w] \in {"run", "compare"} /\ job'[w] = job[w] /\ (WorkerStep(w) => RunFirstOf(w))
    <2>1. WorkerStep(w) => RunFirstOf(w)
      BY JobCases
    <2>2. QED
      BY <2>1, RunCases
  <1>2. pc[w] # "idle" /\ job[w].to = d
    BY <1>1
  <1>3. job[w].op = "FirstOf"
    <2>1. CASE WorkerStep(w)
      BY <1>1, <2>1 DEF RunFirstOf
    <2>2. CASE ~WorkerStep(w)
      <3>1. pc'[w] = pc[w]
        BY <2>2, WorkerSame, ClientJobs, StopEffects, DiscardEffects DEF Next, OthersWork, SameJobs
      <3>2. QED
        BY <3>1 DEF WorkerInv, WorkerOK
    <2>3. QED
      BY <2>1, <2>2
  <1>4. d # Null
    BY <1>2, <1>3, JobTypes, TaskFacts
  <1>5. d \in Contracts /\ d \in Grouped /\ d \notin Unmade /\ Active /\ Made(d).op = "FirstOf"
    BY <1>2, <1>3, <1>4, RunFacts
  <1>6. Made(d)' = Made(d)
    BY <1>5, MadeStays
  <1>7. ASSUME RunFirstOf(w)
        PROVE  /\ WorkerStep(w) /\ pc[w] = "run"
               /\ old_count'[w] = group[d].count /\ group'[d].count = group[d].count - 1
               /\ group[d].count \in 1..Len(Made(d).at) /\ ~group'[d].deleted
    <2>1. /\ pc[w] = "run" /\ old_count'[w] = group[d].count
          /\ group'[d].count = group[d].count - 1 /\ group'[d].deleted = group[d].deleted
      BY <1>2, <1>5, <1>7 DEF RunFirstOf, Goto, TypeOK
    <2>2. Uncounted(d) # {}
      BY <1>2, <1>3, <1>7, RunCounts DEF Counts
    <2>3. ~group[d].deleted
      BY <1>5, <2>2 DEF CountInv
    <2>4. group[d].count \in Nat /\ group[d].count # 0 /\ group[d].count <= Len(Made(d).at)
          /\ Len(Made(d).at) \in Nat
      BY <1>5, <2>2, CountFacts
    <2>5. group[d].count \in 1..Len(Made(d).at)
      BY <2>4
    <2>6. QED
      BY <1>7, <2>1, <2>3, <2>5 DEF WorkerStep
  <1>8. ASSUME ~RunFirstOf(w)
        PROVE  pc[w] = "compare" /\ ~WorkerStep(w) /\ old_count'[w] = old_count[w]
    <2>1. ~WorkerStep(w)
      BY <1>1, <1>8
    <2>2. pc'[w] = pc[w]
      BY <2>1, WorkerSame, ClientJobs, StopEffects, DiscardEffects DEF Next, OthersWork, SameJobs
    <2>3. ASSUME NEW v \in Workers, WorkerStep(v) PROVE old_count'[w] = old_count[w]
      <3>1. CASE RunFirstOf(v)
        BY <2>1, <2>3, <3>1 DEF RunFirstOf, TypeOK
      <3>2. CASE ~RunFirstOf(v)
        BY <2>3, <3>2 DEF WorkerStep, Take, Run, RunSubscriber, RunAll, Compare, SetValue, Exchange, Invoke,
                          Notify, DropPromise, worker
      <3>3. QED
        BY <3>1, <3>2
    <2>4. old_count'[w] = old_count[w]
      BY <2>3, ClientJobs, StopEffects, DiscardEffects DEF Next, SameJobs, SameLocals
    <2>5. QED
      BY <2>1, <2>2, <2>4
  <1>9. QED
    BY <1>2, <1>5, <1>6, <1>7, <1>8

LEMMA CompareStep ==
    ASSUME Inv, Next PROVE CompareInv'
  <1> USE DEF Inv
  <1>1. ASSUME NEW w \in Workers, pc'[w] = "compare", NEW d \in Contracts, d = job'[w].to
        PROVE  /\ old_count'[w] \in 1..Len(Made(d)'.at)
               /\ old_count'[w] > group'[d].count
               /\ group'[d].deleted => old_count'[w] # 1
               /\ \A v \in Workers :
                     pc'[v] = "compare" /\ job'[v].to = d /\ old_count'[v] = old_count'[w] => v = w
    <2>1. /\ job[w].to = d /\ d \in Grouped /\ d \notin Unmade /\ Active
          /\ Made(d).op = "FirstOf" /\ Made(d)' = Made(d)
      BY <1>1, CompareCases
    <2>2. group[d].count \in Nat /\ group'[d].count \in Nat
      <3>1. TypeOK'
        BY TypeStep
      <3>2. QED
        BY <3>1 DEF TypeOK
    <2>3. group'[d].count <= group[d].count
      <3>1. \A t \in Clients : Attach(t) => Call(t).to # d
        BY <2>1, AttachEffects, Constants
      <3>2. QED
        BY <2>2, <3>1, CountCases
    <2>4. CASE RunFirstOf(w)
      <3>1. /\ old_count'[w] = group[d].count /\ group'[d].count = group[d].count - 1
            /\ group[d].count \in 1..Len(Made(d).at) /\ ~group'[d].deleted /\ WorkerStep(w)
        BY <1>1, <2>4, CompareCases DEF RunFirstOf, Goto
      <3>2. ASSUME NEW v \in Workers, pc'[v] = "compare", job'[v].to = d, old_count'[v] = old_count'[w],
                   v # w
            PROVE  FALSE
        <4>1. pc'[v] = pc[v]
          BY <3>1, <3>2, WorkerSame DEF OthersWork
        <4>2. pc[v] = "compare" /\ job[v].to = d /\ old_count'[v] = old_count[v]
          BY <3>2, <4>1, CompareCases
        <4>3. old_count[v] > group[d].count /\ old_count[v] \in Nat
          BY <4>2 DEF CompareInv, TypeOK
        <4>4. QED
          BY <2>2, <3>1, <3>2, <4>2, <4>3
      <3>3. QED
        BY <2>1, <2>2, <3>1, <3>2
    <2>5. CASE ~RunFirstOf(w)
      <3>1. pc[w] = "compare" /\ ~WorkerStep(w) /\ old_count'[w] = old_count[w]
        BY <1>1, <2>5, CompareCases
      <3>2. /\ old_count[w] \in 1..Len(Made(d).at) /\ old_count[w] > group[d].count
            /\ group[d].deleted => old_count[w] # 1
            /\ \A v \in Workers :
                  pc[v] = "compare" /\ job[v].to = d /\ old_count[v] = old_count[w] => v = w
        BY <2>1, <3>1 DEF CompareInv
      <3>3. group'[d].deleted => old_count[w] # 1
        <4>1. \A t \in Clients : Attach(t) => Call(t).to # d
          BY <2>1, AttachEffects, Constants
        <4>2. ASSUME NEW v \in Workers, Compare(v), old_count[v] = 1, job[v].to = d
              PROVE  old_count[w] # 1
          <5>1. pc[v] = "compare" /\ v # w
            BY <3>1, <4>2 DEF Compare, WorkerStep
          <5>2. QED
            BY <3>2, <4>2, <5>1
        <4>3. ASSUME NEW v \in Workers, DropPromise(v), job[v].op = "All", job[v].to = d PROVE FALSE
          <5>1. pc[v] # "idle"
            BY <4>3 DEF DropPromise, Goto
          <5>2. Made(d).op = "All"
            BY <4>3, <5>1, RunFacts, Constants
          <5>3. QED
            BY <2>1, <5>2
        <4>4. QED
          BY <3>2, <4>1, <4>2, <4>3, CountCases
      <3>4. ASSUME NEW v \in Workers, pc'[v] = "compare", job'[v].to = d, old_count'[v] = old_count'[w],
                   v # w
            PROVE  FALSE
        <4>1. CASE RunFirstOf(v)
          <5>1. old_count'[v] = group[d].count
            BY <3>4, <4>1, CompareCases DEF RunFirstOf, Goto
          <5>2. old_count[w] \in Nat
            BY DEF TypeOK
          <5>3. QED
            BY <2>2, <3>1, <3>2, <3>4, <5>1, <5>2
        <4>2. CASE ~RunFirstOf(v)
          <5>1. pc[v] = "compare" /\ job[v].to = d /\ old_count'[v] = old_count[v]
            BY <3>4, <4>2, CompareCases
          <5>2. QED
            BY <3>1, <3>2, <3>4, <5>1
        <4>3. QED
          BY <4>1, <4>2
      <3>5. old_count[w] > group'[d].count
        <4>1. old_count[w] \in Nat
          BY DEF TypeOK
        <4>2. QED
          BY <2>2, <2>3, <3>2, <4>1
      <3>6. QED
        BY <2>1, <3>1, <3>2, <3>3, <3>4, <3>5
    <2>6. QED
      BY <2>4, <2>5
  <1>2. ASSUME NEW w \in Workers, pc'[w] = "compare" PROVE job'[w].to \in Contracts
    BY <1>2, CompareCases
  <1>3. QED
    BY <1>1, <1>2 DEF CompareInv, Made

------------------------------------------------------------------------------
\* The promise of a contract is not set as long as something is to lead to it.
LEMMA ExecutedFacts ==
    ASSUME TypeOK, WorkInv, NEW d \in Executed
    PROVE  d \in Contracts /\ d \notin Grouped /\ d \notin Unmade
  BY JobTypes, TaskFacts DEF Executed

LEMMA ExecutedCases ==
    ASSUME Inv, Next
    PROVE  Executed' \subseteq Executed \cup Unmade
  <1>1. ASSUME NEW t \in Clients, ClientStep(t) PROVE Executed' \subseteq Executed \cup Unmade
    <2>1. CASE Execute(t)
      <3>1. PICK d : d = Call(t).to
        OBVIOUS
      <3>2. d \in Unmade /\ Executed' = Executed \cup {d}
        BY <2>1, <3>1, ExecuteEffects
      <3>3. QED
        BY <3>2
    <2>2. CASE SubmitCallback(t)
      BY <2>2, SubmitCallbackEffects
    <2>3. CASE ~Execute(t) /\ ~SubmitCallback(t)
      <3>1. tasks' = tasks
        BY <1>1, <2>3
           DEF ClientStep, Attach, SetCallback, DropFuture, GetResult, Wait, Read, executor
      <3>2. QED
        BY <1>1, <3>1, ClientJobs DEF SameRoutines
    <2>4. QED
      BY <2>1, <2>2, <2>3
  <1>2. ASSUME NEW w \in Workers, WorkerStep(w) PROVE Executed' \subseteq Executed
    BY <1>2, TakeEffects, RunEffects, CompareEffects, SetValueEffects, ExchangeEffects, InvokeEffects,
       NotifyEffects, DropPromiseEffects DEF WorkerStep, SameTasks
  <1>3. Stop \/ Discard => Executed' \subseteq Executed
    BY StopEffects, DiscardEffects DEF SameTasks
  <1>4. QED
    BY <1>1, <1>2, <1>3 DEF Next

LEMMA LeadsCases ==
    ASSUME Inv, Next, Active', NEW d \in Contracts, Leads(d)'
    PROVE  Leads(d) \/ d \in Unmade
  <1> USE DEF Inv
  <1>1. CASE d \in Executed'
    BY <1>1, ExecutedCases DEF Leads
  <1>2. CASE d \in Unmade
    BY <1>2
  <1>3. ASSUME d \notin Unmade, d \notin Executed'
        PROVE  Leads(d)
    <2>1. Active /\ Made(d)' = Made(d) /\ Inputs(d)' = Inputs(d)
      BY <1>3, StaysActive, MadeStays DEF Inputs
    <2>2. Uncounted(d)' \subseteq Uncounted(d) /\ Uncounted(d) \subseteq Inputs(d)
      BY <2>1, UncountedCases DEF Counts, Uncounted
    <2>3. CASE Made(d)'.op \in {"Then", "Recover", "All"} /\ Uncounted(d)' # {}
      BY <2>1, <2>2, <2>3 DEF Leads
    <2>4. CASE Made(d)'.op = "FirstOf" /\ Uncounted(d)' = Inputs(d)'
      BY <2>1, <2>2, <2>4 DEF Leads, First
    <2>5. ASSUME NEW w \in Workers, Made(d)'.op = "FirstOf", pc'[w] = "compare", job'[w].to = d,
                 old_count'[w] = Len(Made(d)'.at)
          PROVE  Leads(d)
      <3>1. CASE RunFirstOf(w)
        <4>1. group[d].count = Len(Made(d).at)
          BY <2>1, <2>5, <3>1, CompareCases DEF RunFirstOf, Goto
        <4>2. Uncounted(d) = Inputs(d)
          BY <2>1, <2>5, <4>1, CountFacts
        <4>3. QED
          BY <2>1, <2>5, <4>2 DEF Leads, First
      <3>2. CASE ~RunFirstOf(w)
        <4>1. pc[w] = "compare" /\ job[w].to = d /\ old_count[w] = Len(Made(d).at)
          BY <2>1, <2>5, <3>2, CompareCases
        <4>2. QED
          BY <2>1, <2>5, <4>1 DEF Leads, First
      <3>3. QED
        BY <3>1, <3>2
    <2>6. QED
      BY <1>3, <2>3, <2>4, <2>5 DEF Leads, First
  <1>4. QED
    BY <1>1, <1>2, <1>3

\* A group of one input.
LEMMA OnlyInput ==
    ASSUME TypeOK, GroupInv, NEW d \in Contracts, NEW c \in Inputs(d),
           Made(d).op \notin {"All", "FirstOf"}
    PROVE  Inputs(d) = {c}
  <1>1. d \in Grouped
    BY GroupOf
  <1>2. Made(d).at \in Seq(Contracts) /\ Len(Made(d).at) <= 1 /\ Made(d).at # << >>
    <2>1. Made(d).at \in Seq(Contracts)
      BY DEF TypeOK, Calls, Made
    <2>2. WellFormed(Made(d))
      BY <1>1 DEF GroupInv
    <2>3. Made(d).at # << >>
      BY SmallSequences DEF Inputs
    <2>4. QED
      BY <2>1, <2>2, <2>3 DEF WellFormed
  <1>3. Len(Made(d).at) \in Nat /\ Range(Made(d).at) = {Made(d).at[i] : i \in 1..Len(Made(d).at)}
    BY <1>2, LenProperties, RangeFacts
  <1>4. \A i, j \in 1..Len(Made(d).at) : i = j
    BY <1>2, <1>3
  <1>5. QED
    BY <1>3, <1>4 DEF Inputs

\* Whoever comes to set it was the last to lead to it.
LEMMA LastLead ==
    ASSUME Inv, NEW w \in Workers, WorkerStep(w), pc[w] \notin Setting, pc'[w] = "set",
           NEW d \in Contracts, d = job[w].to
    PROVE  ~Leads(d)'
  <1> USE DEF Inv
  <1>1. Run(w) \/ (RunAll(w) /\ group[d].count = 1) \/ Compare(w)
    BY JobCases DEF Setting
  <1>2. Next /\ Made(d)' = Made(d) /\ Inputs(d)' = Inputs(d)
    BY WorkerSame DEF Next, Inputs
  <1>3. ASSUME Run(w) \/ RunAll(w) \/ RunFirstOf(w), job[w].op # "Execute", job[w].op # "FirstOf",
               Uncounted(d)' = {}
        PROVE  ~Leads(d)'
    <2>1. d \in Grouped /\ Made(d).op = job[w].op
      BY <1>3, RunCounts DEF Counts
    <2>2. d \notin Executed
      BY <2>1, ExecutedFacts
    <2>3. Executed' = Executed
      BY <1>3, RunEffects
    <2>4. QED
      BY <1>2, <1>3, <2>1, <2>2, <2>3 DEF Leads, First
  <1>4. CASE Run(w) /\ job[w].op = "Execute"
    <2>1. pc[w] = "run" /\ Executed' = Executed \ {d}
      BY <1>4, RunEffects
    <2>2. d \notin Grouped
      BY <1>4, <2>1, RunFacts
    <2>3. Made(d).op = "Execute"
      BY <2>2 DEF Grouped
    <2>4. QED
      BY <1>2, <2>1, <2>3 DEF Leads, First
  <1>5. CASE Run(w) /\ job[w].op # "Execute"
    <2>1. job[w].op \in {"Then", "Recover"}
      BY <1>5 DEF Run
    <2>2. /\ Made(d).op = job[w].op /\ job[w].from \in Uncounted(d)
          /\ Uncounted(d)' = Uncounted(d) \ {job[w].from}
      BY <1>5, RunCounts DEF Counts
    <2>3. Inputs(d) = {job[w].from}
      BY <2>1, <2>2, OnlyInput DEF Uncounted
    <2>4. Uncounted(d)' = {}
      BY <2>2, <2>3 DEF Uncounted
    <2>5. QED
      BY <1>3, <1>5, <2>1, <2>4
  <1>6. CASE RunAll(w) /\ group[d].count = 1
    <2>1. job[w].op = "All" /\ pc[w] # "idle"
      BY <1>6 DEF RunAll, Goto
    <2>2. /\ Made(d).op = "All" /\ job[w].from \in Uncounted(d)
          /\ Uncounted(d)' = Uncounted(d) \ {job[w].from}
      BY <1>6, <2>1, RunCounts DEF Counts
    <2>3. IsFiniteSet(Uncounted(d)) /\ Cardinality(Uncounted(d)) = 1
      BY <1>6, <2>1, <2>2, RunFacts, CountFacts
    <2>4. IsFiniteSet(Uncounted(d)') /\ Cardinality(Uncounted(d)') = 0
      BY <2>2, <2>3, FS_RemoveElement
    <2>5. Uncounted(d)' = {}
      BY <2>4, FS_EmptySet
    <2>6. QED
      BY <1>3, <1>6, <2>1, <2>5
  <1>7. CASE Compare(w)
    <2>1. /\ pc[w] = "compare" /\ Made(d).op = "FirstOf" /\ d \in Grouped
          /\ old_count[w] = Len(Made(d).at) /\ Executed' = Executed /\ SameValues /\ Pending' = Pending
      BY <1>7, CompareEffects DEF SameTasks
    <2>2. Uncounted(d)' = Uncounted(d)
      BY <1>2, <2>1, SameUncounted DEF SameValues
    <2>3. d \notin Executed'
      BY <2>1, ExecutedFacts
    <2>4. Uncounted(d) # Inputs(d)
      <3>1. Active /\ old_count[w] > group[d].count
        BY <2>1 DEF Active, CompareInv
      <3>2. group[d].count = Cardinality(Uncounted(d)) /\ Cardinality(Inputs(d)) = Len(Made(d).at)
            /\ Len(Made(d).at) \in Nat
        BY <2>1, <3>1, CountFacts
      <3>3. QED
        BY <2>1, <3>1, <3>2
    <2>5. ASSUME NEW v \in Workers, pc'[v] = "compare", job'[v].to = d, old_count'[v] = Len(Made(d).at)
          PROVE  FALSE
      <3>1. v # w /\ pc'[v] = pc[v] /\ job'[v] = job[v]
        BY <2>5, WorkerSame DEF OthersWork
      <3>2. old_count'[v] = old_count[v]
        BY <1>7, CompareEffects DEF SameLocals
      <3>3. QED
        BY <2>1, <2>5, <3>1, <3>2 DEF CompareInv
    <2>6. QED
      BY <1>2, <2>1, <2>2, <2>3, <2>4, <2>5 DEF Leads, First
  <1>8. QED
    BY <1>1, <1>4, <1>5, <1>6, <1>7

LEMMA UnsetStep ==
    ASSUME Inv, Next PROVE UnsetInv'
  <1> USE DEF Inv
  <1>1. SUFFICES ASSUME Active', NEW d \in Contracts, Leads(d)'
                 PROVE  value'[d] = Null /\ d \notin InSetting'
    BY DEF UnsetInv, Unset
  <1>2. Active
    BY <1>1, StaysActive
  <1>3. value[d] = Null /\ d \notin InSetting
    <2>1. Leads(d) => Unset(d)
      BY <1>2 DEF UnsetInv
    <2>2. QED
      BY <1>1, <2>1, LeadsCases DEF Unset, ContractInv
  <1>4. value'[d] = Null
    <2>1. \A c \in Contracts : \A r : Sending(c, r) => value'[d] = Null
      BY <1>3 DEF Sending
    <2>2. \A c \in Contracts : Taking(c) => value'[d] = Null
      BY <1>3, Constants DEF Taking
    <2>3. QED
      BY <1>3, <2>1, <2>2, ValueCases
  <1>5. d \notin InSetting'
    <2>1. ASSUME NEW w \in Workers, WorkerStep(w), pc[w] \notin Setting, pc'[w] = "set", d = job[w].to
          PROVE  FALSE
      BY <1>1, <2>1, LastLead
    <2>2. QED
      BY <1>3, <2>1, InSettingCases
  <1>6. QED
    BY <1>4, <1>5

------------------------------------------------------------------------------
LEMMA InvNext ==
    ASSUME Inv, Next PROVE Inv'
  <1>1. TypeOK' /\ ProgramInv' /\ ClientInv' /\ WorkerInv'
    BY TypeStep, ProgramStep, ClientInvStep, WorkerInvStep DEF Inv
  <1>2. WorkInv' /\ OnceInv' /\ SetterInv' /\ GroupInv'
    BY WorkInvStep, OnceStep, SetterStep, GroupStep
  <1>3. ContractInv' /\ MeetInv' /\ OwnersInv'
    BY ContractStep, MeetStep, OwnersStep
  <1>4. CountInv' /\ UnsetInv' /\ CompareInv'
    BY CountStep, UnsetStep, CompareStep
  <1>5. QED
    BY <1>1, <1>2, <1>3, <1>4 DEF Inv

\* What the assumption says of the program that is run.
Apart(t, i, u, j) == /\ Range(todo[t][i].at) \cap Range(todo[u][j].at) = {}
                     /\ todo[t][i].to = todo[u][j].to => todo[t][i].to = Null

LEMMA ProgramFacts ==
    ASSUME todo \in Programs, NEW t \in Clients, NEW i \in DOMAIN todo[t]
    PROVE  /\ WellFormed(todo[t][i])
           /\ \A c \in Range(todo[t][i].at) : \E j \in 1..(i - 1) : todo[t][j].to = c
           /\ todo[t][i].to # Null => \E j \in DOMAIN todo[t] : todo[t][i].to \in Range(todo[t][j].at)
           /\ \A u \in Clients : \A j \in DOMAIN todo[u] : t # u \/ i # j => Apart(t, i, u, j)
  <1>1. WellFormed(todo[t][i])
    BY ProgramAssumption
  <1>2. \A c \in Range(todo[t][i].at) : \E j \in 1..(i - 1) : todo[t][j].to = c
    BY ProgramAssumption
  <1>3. todo[t][i].to # Null => \E j \in DOMAIN todo[t] : todo[t][i].to \in Range(todo[t][j].at)
    BY ProgramAssumption
  <1>4. ASSUME NEW u \in Clients, NEW j \in DOMAIN todo[u], t # u \/ i # j
        PROVE  Apart(t, i, u, j)
    <2>1. ASSUME NEW c \in Range(todo[t][i].at) PROVE c \notin Range(todo[u][j].at)
      BY <1>4, ProgramAssumption
    <2>2. todo[t][i].to = todo[u][j].to => todo[t][i].to = Null
      BY <1>4, ProgramAssumption
    <2>3. QED
      BY <2>1, <2>2 DEF Apart
  <1>5. QED
    BY <1>1, <1>2, <1>3, <1>4

\* A program begins as it is assumed to be.
LEMMA ProgramStart ==
    ASSUME todo \in [Clients -> Seq(Calls)], todo \in Programs
    PROVE  /\ ProgramInv
           /\ \A t \in Clients : \A i \in DOMAIN todo[t] : \A c \in Range(todo[t][i].at) :
                 c \in Contracts /\ \E j \in DOMAIN todo[t] : j < i /\ todo[t][j].to = c
  <1>1. ASSUME NEW t \in Clients
        PROVE  DOMAIN todo[t] = 1..Len(todo[t]) /\ Len(todo[t]) \in Nat
    <2>1. todo[t] \in Seq(Calls)
      OBVIOUS
    <2>2. QED
      BY <2>1, LenProperties
  <1>2. ASSUME NEW t \in Clients, NEW i \in DOMAIN todo[t], NEW c \in Range(todo[t][i].at)
        PROVE  c \in Contracts /\ \E j \in DOMAIN todo[t] : j < i /\ todo[t][j].to = c
    <2>1. todo[t] \in Seq(Calls)
      OBVIOUS
    <2>2. todo[t][i] \in Calls
      BY <1>1, <2>1, ElementOfSeq
    <2>3. todo[t][i].at \in Seq(Contracts)
      BY <2>2 DEF Calls
    <2>4. PICK j \in 1..(i - 1) : todo[t][j].to = c
      <3>1. \A e \in Range(todo[t][i].at) : \E j \in 1..(i - 1) : todo[t][j].to = e
        BY ProgramFacts, Zenon
      <3>2. QED
        BY <3>1, Zenon
    <2>5. j \in DOMAIN todo[t] /\ j < i
      BY <1>1
    <2>6. QED
      BY <2>3, <2>4, <2>5, RangeFacts
  <1>3. ASSUME NEW t \in Clients, NEW u \in Clients, NEW i \in DOMAIN todo[t], NEW j \in DOMAIN todo[u],
               todo[u][j].to \in Range(todo[t][i].at)
        PROVE  t = u /\ j < i
    <2>1. todo[u][j].to \in Contracts
      BY <1>2, <1>3
    <2>2. PICK k \in DOMAIN todo[t] : k < i /\ todo[t][k].to = todo[u][j].to
      BY <1>2, <1>3
    <2>3. t = u /\ k = j
      BY <2>1, <2>2, ProgramFacts, Constants DEF Apart
    <2>4. QED
      BY <2>2, <2>3
  <1>4. ASSUME NEW t \in Clients, NEW i \in DOMAIN todo[t], todo[t][i].to # Null
        PROVE  \E j \in DOMAIN todo[t] : j > i /\ Uses(t, j, todo[t][i].to)
    <2>1. PICK j \in DOMAIN todo[t] : todo[t][i].to \in Range(todo[t][j].at)
      BY <1>4, ProgramFacts
    <2>2. i < j /\ i \in Nat /\ j \in Nat
      BY <1>1, <1>3, <2>1
    <2>3. QED
      BY <2>1, <2>2 DEF Uses
  <1>5. ASSUME NEW t \in Clients, NEW u \in Clients, NEW i \in DOMAIN todo[t], NEW j \in DOMAIN todo[u],
               t # u \/ i # j
        PROVE  Apart(t, i, u, j)
    BY <1>5, ProgramFacts
  <1>6. \A t \in Clients : \A i \in DOMAIN todo[t] : WellFormed(todo[t][i])
    BY ProgramFacts
  <1>7. QED
    <2>1. ProgramInv
      <3>1. \A t, u \in Clients : \A i \in DOMAIN todo[t], j \in DOMAIN todo[u] :
               /\ t # u \/ i # j => Apart(t, i, u, j)
               /\ todo[u][j].to \in Range(todo[t][i].at) => t = u /\ j < i
        BY <1>3, <1>5
      <3>2. QED
        BY <1>4, <1>6, <3>1 DEF ProgramInv, Apart
    <2>2. QED
      BY <1>2, <2>1

\* Nothing has begun.
LEMMA InitInv ==
    ASSUME Init PROVE IInv
  <1> USE DEF Init
  <1>1. todo \in [Clients -> Seq(Calls)] /\ todo \in Programs
    BY FuturesAssumption
  <1>2. TypeOK
    <2>1. << >> \in Seq(Contracts) /\ << >> \in Seq(Tasks)
      OBVIOUS
    <2>2. [c \in Contracts |-> [call |-> NoCall, count |-> 0, deleted |-> FALSE]]
             \in [Contracts -> [call : Calls, count : Nat, deleted : BOOLEAN]]
      BY Constants
    <2>3. pc \in [Actors -> {"idle"}] /\ 0 \in 0..2
      OBVIOUS
    <2>4. QED
      BY <1>1, <2>1, <2>2, <2>3, Constants DEF TypeOK
  <1>3. \A t \in Clients : \A i \in DOMAIN todo[t] : \A c \in Range(todo[t][i].at) :
           c \in Contracts /\ \E j \in DOMAIN todo[t] : j < i /\ todo[t][j].to = c
    BY <1>1, ProgramStart
  <1>4. ProgramInv
    BY <1>1, ProgramStart
  <1>5. /\ \A a \in Actors : pc[a] = "idle"
        /\ \A t \in Clients : pc[t] = "idle"
        /\ \A w \in Workers : pc[w] = "idle"
        /\ DOMAIN tasks = {}
    BY Constants
  <1>6. /\ InSetting = {} /\ Executed = {} /\ Submitting = {} /\ Pending = {}
        /\ \A w \in Workers : \A d : ~Sets(w, d)
    BY <1>5 DEF InSetting, Executed, Submitting, Pending, Sets, Submits, Setting
  <1>7. Owned = {}
    <2>1. ASSUME NEW c \in Contracts, NEW t \in Clients, Keeps(t, c) PROVE c \in Unmade
      <3>1. PICK i \in DOMAIN todo[t] : c \in Range(todo[t][i].at)
        BY <2>1 DEF Keeps, KeepsIn
      <3>2. PICK j \in DOMAIN todo[t] : todo[t][j].to = c
        BY <1>3, <3>1
      <3>3. ~Begun(t, j)
        BY <1>5 DEF Begun
      <3>4. QED
        BY <3>2, <3>3 DEF Unmade, Makes
    <2>2. QED
      BY <2>1 DEF Owned
  <1>8. \A d \in Contracts : Made(d) = NoCall /\ Made(d).op = "Execute" /\ Inputs(d) = {}
    BY SmallSequences DEF Made, Inputs, NoCall
  <1>9. Grouped = {}
    BY <1>8 DEF Grouped
  <1>10. ClientInv /\ WorkerInv /\ WorkInv /\ OnceInv /\ SetterInv
    BY <1>5, <1>6, Constants
       DEF ClientInv, ClientOK, WorkerInv, WorkerOK, WorkInv, OnceInv, SetterInv, Setting
  <1>11. GroupInv
    BY <1>8, <1>9 DEF GroupInv
  <1>12. ContractInv
    BY <1>6, Constants DEF ContractInv
  <1>13. MeetInv
    BY <1>5 DEF MeetInv
  <1>14. OwnersInv
    BY <1>6, <1>7, <1>9 DEF OwnersInv, Promised
  <1>15. CountInv
    BY <1>8, <1>9 DEF CountInv
  <1>16. UnsetInv
    BY <1>6, <1>8 DEF UnsetInv, Leads, First
  <1>17. CompareInv
    BY <1>5 DEF CompareInv
  <1>18. FollowInv
    BY <1>5, <1>8 DEF FollowInv
  <1>19. DeliverInv
    BY <1>7, <1>8, Constants DEF DeliverInv
  <1>20. QED
    BY <1>2, <1>4, <1>10, <1>11, <1>12, <1>13, <1>14, <1>15, <1>16, <1>17, <1>18, <1>19 DEF Inv, IInv

LEMMA Stutter ==
    ASSUME IInv, UNCHANGED vars PROVE IInv'
  <1> USE DEF Inv, IInv
  <1>1. /\ callback' = callback /\ value' = value /\ owners_count' = owners_count
        /\ group' = group /\ slots' = slots /\ tasks' = tasks /\ stopped' = stopped
        /\ todo' = todo /\ rest' = rest /\ job' = job /\ old_callback' = old_callback
        /\ old_count' = old_count /\ pc' = pc /\ taken' = taken
    BY DEF vars, contract, groups, executor, client, worker
  <1>2. /\ Unmade' = Unmade /\ Owned' = Owned /\ Unsubscribed' = Unsubscribed
        /\ Submitting' = Submitting /\ InSetting' = InSetting /\ Pending' = Pending
        /\ Executed' = Executed
    <2>1. ClientsStay /\ WorkersStay
      BY <1>1 DEF ClientsStay, WorkersStay
    <2>2. QED
      BY <2>1, ClientViews, WorkerViews
  <1>3. /\ \A d : Made(d)' = Made(d) /\ Inputs(d)' = Inputs(d)
        /\ \A f, c : Links(f, c)' <=> Links(f, c)
        /\ Active' <=> Active
    BY <1>1 DEF Made, Inputs, Links, Active
  <1>4. \A d : Uncounted(d)' = Uncounted(d)
    BY <1>1, <1>2, <1>3 DEF Uncounted
  <1>5. Grouped' = Grouped
    BY <1>1 DEF Grouped, Made
  <1>6. TypeOK' /\ ProgramInv' /\ ClientInv' /\ WorkerInv'
    <2>1. TypeOK'
      BY <1>1 DEF TypeOK
    <2>2. ProgramInv'
      BY <1>1 DEF ProgramInv, Uses
    <2>3. ClientInv'
      BY <1>1 DEF ClientInv, ClientOK, Call, Made
    <2>4. WorkerInv'
      BY <1>1 DEF WorkerInv, WorkerOK
    <2>5. QED
      BY <2>1, <2>2, <2>3, <2>4
  <1>7. WorkInv'
    BY <1>1, <1>2, <1>3, <1>5 DEF WorkInv, IsTask
  <1>8. OnceInv' /\ SetterInv'
    BY <1>1 DEF OnceInv, SameWork, SetterInv, Sets
  <1>9. GroupInv'
    BY <1>1, <1>2, <1>3, <1>5 DEF GroupInv, Uses, Begun, Call
  <1>10. ContractInv'
    BY <1>1, <1>2, <1>3 DEF ContractInv
  <1>11. MeetInv'
    BY <1>1, <1>2, <1>3 DEF MeetInv
  <1>12. OwnersInv'
    BY <1>1, <1>2, <1>5 DEF OwnersInv, Promised
  <1>13. CountInv'
    BY <1>1, <1>3, <1>4, <1>5 DEF CountInv
  <1>14. UnsetInv'
    BY <1>1, <1>2, <1>3, <1>4 DEF UnsetInv, Leads, First, Unset
  <1>15. CompareInv'
    BY <1>1, <1>3 DEF CompareInv
  <1>16. FollowInv'
    BY <1>1, <1>3, <1>4 DEF FollowInv, Follows, Sent
  <1>17. DeliverInv'
    BY <1>1, <1>2, <1>3, <1>4, <1>5 DEF DeliverInv, At, Unset
  <1>18. QED
    BY <1>6, <1>7, <1>8, <1>9, <1>10, <1>11, <1>12, <1>13, <1>14, <1>15, <1>16, <1>17

------------------------------------------------------------------------------
\* What a contract holds follows from its inputs: a result, once taken, stays what
\* it is.
LEMMA FollowsStay ==
    ASSUME Inv, Next, NEW d \in Contracts, d \notin Unmade, NEW r \in Results, Follows(d, r)
    PROVE  Follows(d, r)'
  <1>1. Made(d)' = Made(d) /\ Inputs(d)' = Inputs(d)
    BY MadeStays DEF Inputs
  <1>2. \A c \in Inputs(d) : taken[c] # None => taken'[c] = taken[c]
    BY ValuesStay, GroupOf DEF Inv
  <1>3. CASE Made(d).op \in {"Then", "Recover", "All"}
    <2>1. \A c \in Inputs(d) : taken[c] # None
      BY <1>3 DEF Follows
    <2>2. \A c \in Inputs(d) : taken'[c] = taken[c]
      BY <1>2, <2>1
    <2>3. {taken'[c] : c \in Inputs(d)} = {taken[c] : c \in Inputs(d)}
      BY <2>2
    <2>4. QED
      BY <1>1, <1>3, <2>3 DEF Follows
  <1>4. CASE Made(d).op = "FirstOf"
    <2>1. PICK c \in Inputs(d) : taken[c] = r
      BY <1>4 DEF Follows
    <2>2. taken'[c] = r
      BY <1>2, <2>1, Constants
    <2>3. QED
      BY <1>1, <1>4, <2>2 DEF Follows
  <1>5. CASE Made(d).op \notin {"Then", "Recover", "All", "FirstOf"}
    BY <1>1, <1>5 DEF Follows
  <1>6. QED
    BY <1>3, <1>4, <1>5

\* A contract gets its value from the worker that sets its promise.
LEMMA SetCases ==
    ASSUME Inv, Next, NEW d \in Contracts, value[d] = Null, value'[d] # Null
    PROVE  \E w \in Workers : SetValue(w) /\ job[w].to = d
  <1>1. ASSUME NEW t \in Clients, ClientStep(t) PROVE FALSE
    <2>1. CASE SubmitCallback(t)
      BY <2>1, SubmitCallbackEffects, Constants
    <2>2. CASE Read(t)
      BY <2>2, ReadEffects, Constants
    <2>3. CASE ~SubmitCallback(t) /\ ~Read(t)
      BY <1>1, <2>3 DEF ClientStep, Execute, Attach, SetCallback, DropFuture, GetResult, Wait, contract
    <2>4. QED
      BY <2>1, <2>2, <2>3
  <1>2. ASSUME NEW w \in Workers, WorkerStep(w), ~(SetValue(w) /\ job[w].to = d) PROVE FALSE
    <2>1. CASE SetValue(w)
      BY <1>2, <2>1, SetValueEffects
    <2>2. CASE Invoke(w)
      BY <2>2, InvokeEffects, Constants
    <2>3. CASE ~SetValue(w) /\ ~Invoke(w)
      BY <1>2, <2>3
         DEF WorkerStep, Take, Run, RunSubscriber, RunAll, RunFirstOf, Compare, Exchange, Notify,
             DropPromise, contract
    <2>4. QED
      BY <2>1, <2>2, <2>3
  <1>3. QED
    BY <1>1, <1>2 DEF Next, Stop, Discard, contract

LEMMA SentStays ==
    ASSUME Inv, Next, NEW d \in Contracts, value[d] # Null
    PROVE  Sent[d] \in Results /\ Sent'[d] = Sent[d]
  <1>1. value[d] \in Results \cup {Moved} /\ taken[d] \in Results \cup {None}
        /\ (taken[d] # None <=> value[d] = Moved)
    BY DEF Inv, TypeOK, ContractInv
  <1>2. CASE value[d] = Moved
    <2>1. value'[d] = Moved /\ taken'[d] = taken[d]
      BY <1>2, ValuesStay
    <2>2. QED
      BY <1>1, <1>2, <2>1 DEF Sent
  <1>3. CASE value[d] # Moved
    <2>1. value'[d] = value[d] \/ (value'[d] = Moved /\ taken'[d] = value[d])
      BY <1>1, <1>3, ValueCases, Constants DEF Sending, Taking
    <2>2. QED
      BY <1>1, <1>3, <2>1, Constants DEF Sent
  <1>4. QED
    BY <1>2, <1>3

\* The result that a callback leads to follows from those of the inputs.
LEMMA EnteringFollows ==
    ASSUME Inv, FollowInv, NEW w \in Workers, WorkerStep(w), pc[w] \notin Setting, pc'[w] = "set",
           NEW d \in Contracts, d = job[w].to, NEW r, r = job'[w].result
    PROVE  Follows(d, r)
  <1> USE DEF Inv
  <1>1. Run(w) \/ (RunAll(w) /\ group[d].count = 1) \/ Compare(w)
    BY JobCases DEF Setting
  <1>2. /\ pc[w] # "idle" /\ job[w] \in Tasks /\ IsTask(job[w])
        /\ pc[w] \in {"run", "compare"} /\ job[w].from # Null => job[w].result = taken[job[w].from]
    BY <1>1, JobTypes DEF WorkInv, Run, RunAll, Compare, Goto
  <1>3. CASE Run(w)
    <2>1. pc[w] = "run" /\ job[w].op \in {"Execute", "Then", "Recover"}
      BY <1>3 DEF Run, Goto
    <2>2. r \in Outcomes(job[w])
      <3>1. PICK q \in Outcomes(job[w]) : job' = [job EXCEPT ![w].result = q]
        BY <1>3 DEF Run
      <3>2. job'[w].result = q
        BY <3>1 DEF TypeOK, Tasks
      <3>3. QED
        BY <3>1, <3>2
    <2>3. CASE job[w].op = "Execute"
      <3>1. Made(d).op = "Execute"
        BY <1>2, <2>3, RunFacts DEF Grouped
      <3>2. QED
        BY <3>1 DEF Follows
    <2>4. CASE job[w].op # "Execute"
      <3>1. /\ job[w].from \in Contracts /\ job[w].from # Null /\ value[job[w].from] = Moved
            /\ job[w].from \in Inputs(d) /\ Made(d).op = job[w].op
        BY <1>2, <2>4, TaskFacts, RunFacts, Constants
      <3>2. Inputs(d) = {job[w].from}
        BY <2>1, <2>4, <3>1, OnlyInput
      <3>3. {taken[c] : c \in Inputs(d)} = {job[w].result} /\ job[w].result # None
        BY <1>2, <2>1, <3>1, <3>2 DEF ContractInv
      <3>4. CASE job[w].op = "Then"
        BY <2>2, <3>1, <3>3, <3>4 DEF Outcomes, Follows
      <3>5. CASE job[w].op = "Recover"
        BY <2>2, <3>1, <3>3, <3>5 DEF Outcomes, Follows
      <3>6. QED
        BY <2>1, <2>4, <3>4, <3>5
    <2>5. QED
      BY <2>3, <2>4
  <1>4. CASE RunAll(w) /\ group[d].count = 1
    <2>1. job[w].op = "All" /\ pc[w] = "run"
      BY <1>4 DEF RunAll, Goto
    <2>2. /\ Made(d).op = "All" /\ job[w].from \in Uncounted(d) /\ Active
      BY <1>2, <1>4, <2>1, RunCounts, RunFacts DEF Counts
    <2>3. IsFiniteSet(Uncounted(d)) /\ Cardinality(Uncounted(d)) = 1
      BY <1>4, <2>2, CountFacts
    <2>4. Uncounted(d) \ {job[w].from} = {}
      <3>1. PICK left : left = Uncounted(d) \ {job[w].from}
        OBVIOUS
      <3>2. IsFiniteSet(left) /\ Cardinality(left) = 0
        BY <2>2, <2>3, <3>1, OneLess
      <3>3. QED
        BY <3>1, <3>2, FS_EmptySet
    <2>5. /\ job[w].from \in Contracts /\ job[w].from # Null /\ value[job[w].from] = Moved
          /\ job[w].result = taken[job[w].from]
      BY <1>2, <2>1, TaskFacts
    <2>6. \A c \in Inputs(d) : c \in Contracts /\ taken[c] # None /\ slots'[c] = taken[c]
      <3>1. slots' = [slots EXCEPT ![job[w].from] = job[w].result]
        BY <1>4 DEF RunAll
      <3>2. ASSUME NEW c \in Inputs(d) PROVE c \in Contracts
        BY GroupOf
      <3>3. slots'[job[w].from] = taken[job[w].from] /\ taken[job[w].from] # None
        BY <2>5, <3>1 DEF TypeOK, ContractInv
      <3>4. ASSUME NEW c \in Inputs(d), c # job[w].from PROVE taken[c] # None /\ slots'[c] = taken[c]
        <4>1. c \notin Uncounted(d)
          BY <2>4, <3>4
        <4>2. slots[c] = taken[c] /\ value[c] = Moved
          BY <2>2, <4>1 DEF FollowInv, Uncounted
        <4>3. slots'[c] = slots[c]
          BY <3>1, <3>2, <3>4 DEF TypeOK
        <4>4. QED
          BY <3>2, <4>2, <4>3 DEF ContractInv
      <3>5. QED
        BY <3>2, <3>3, <3>4
    <2>7. r = IF Exception \in {slots'[c] : c \in Inputs(d)} THEN Exception ELSE Value
      <3>1. job' = [job EXCEPT ![w] =
               IF group[d].count # 1 THEN NoTask
               ELSE [@ EXCEPT !.result =
                        IF Exception \in {slots'[c] : c \in Inputs(d)} THEN Exception ELSE Value]]
        BY <1>4 DEF RunAll, Inputs, Made
      <3>2. PICK q : q = IF Exception \in {slots'[c] : c \in Inputs(d)} THEN Exception ELSE Value
        OBVIOUS
      <3>3. job' = [job EXCEPT ![w] = [job[w] EXCEPT !.result = q]]
        BY <1>4, <3>1, <3>2
      <3>4. job'[w].result = q
        BY <3>3 DEF TypeOK, Tasks
      <3>5. QED
        BY <3>2, <3>4
    <2>8. {slots'[c] : c \in Inputs(d)} = {taken[c] : c \in Inputs(d)}
      BY <2>6
    <2>9. QED
      BY <2>2, <2>6, <2>7, <2>8, Constants DEF Follows
  <1>5. CASE Compare(w)
    <2>1. pc[w] = "compare" /\ Made(d).op = "FirstOf" /\ job'[w] = job[w] /\ job[w].op = "FirstOf"
      BY <1>5, CompareEffects DEF WorkerInv, WorkerOK
    <2>2. job[w].from \in Inputs(d) /\ job[w].from # Null
      BY <1>2, <2>1, RunFacts, TaskFacts, Constants
    <2>3. r = taken[job[w].from]
      BY <1>2, <2>1, <2>2
    <2>4. QED
      BY <2>1, <2>2, <2>3 DEF Follows
  <1>6. QED
    BY <1>1, <1>3, <1>4, <1>5

LEMMA FollowStep ==
    ASSUME Inv, FollowInv, Next PROVE FollowInv'
  <1> USE DEF Inv
  <1>0. WorkerInv' /\ ContractInv'
    BY WorkerInvStep, ContractStep
  <1>1. ASSUME NEW w \in Workers, pc'[w] = "set", NEW d, d = job'[w].to, NEW r, r = job'[w].result
        PROVE  Follows(d, r)' /\ d \in Contracts
    <2>1. r \in Results
      BY <1>0, <1>1 DEF WorkerInv, WorkerOK
    <2>2. CASE WorkerStep(w) /\ pc[w] \notin Setting
      <3>1. job[w].to = d /\ d \in Contracts /\ pc[w] # "idle"
        BY <1>1, <2>2, JobCases DEF Setting, Take, Goto, TypeOK, Actors
      <3>2. d \notin Unmade
        BY <3>1, RunFacts, Constants
      <3>3. Follows(d, r)
        BY <1>1, <2>2, <3>1, EnteringFollows
      <3>4. QED
        BY <2>1, <3>1, <3>2, <3>3, FollowsStay
    <2>3. CASE pc'[w] = pc[w] /\ job'[w] = job[w]
      <3>1. d \in Contracts /\ d \notin Unmade
        BY <1>1, <2>3, SetsFacts DEF Setting
      <3>2. Follows(d, r)
        BY <1>1, <2>3 DEF FollowInv
      <3>3. QED
        BY <2>1, <3>1, <3>2, FollowsStay
    <2>4. CASE SetValue(w) \/ Exchange(w) \/ Invoke(w) \/ Notify(w)
      BY <1>1, <2>4, SetValueEffects, ExchangeEffects, InvokeEffects, NotifyEffects
    <2>5. QED
      BY <1>1, <2>2, <2>3, <2>4, SetterCases DEF Setting
  <1>2. ASSUME NEW d \in Contracts, value'[d] # Null, NEW r, r = Sent'[d]
        PROVE  Follows(d, r)'
    <2>1. CASE value[d] # Null
      <3>1. r = Sent[d] /\ r \in Results /\ d \notin Unmade
        BY <1>2, <2>1, SentStays DEF ContractInv
      <3>2. Follows(d, r)
        BY <2>1, <3>1 DEF FollowInv
      <3>3. QED
        BY <3>1, <3>2, FollowsStay
    <2>2. CASE value[d] = Null
      <3>1. PICK w \in Workers : SetValue(w) /\ job[w].to = d
        BY <1>2, <2>2, SetCases
      <3>2. /\ pc[w] = "set" /\ value'[d] = job[w].result /\ job[w].result \in Results
            /\ d \notin Unmade
        BY <3>1, SetValueEffects
      <3>3. r = job[w].result
        BY <1>2, <3>2, Constants DEF Sent
      <3>4. Follows(d, r)
        BY <3>1, <3>2, <3>3 DEF FollowInv
      <3>5. QED
        BY <3>2, <3>3, <3>4, FollowsStay
    <2>3. QED
      BY <2>1, <2>2
  <1>3. ASSUME Active', NEW d \in Contracts, Made(d)'.op = "All", NEW c \in Inputs(d)', c \notin Uncounted(d)'
        PROVE  slots'[c] = taken'[c]
    <2>1. c \in Inputs(d) /\ Made(d)' = Made(d)
      <3>1. c \in Unsubscribed' => value'[c] # Moved
        BY <1>0 DEF ContractInv, Unsubscribed
      <3>2. c \notin Unsubscribed'
        BY <1>3, <3>1 DEF Uncounted
      <3>3. QED
        BY <1>3, <3>2, InputCases
    <2>2. c \in Contracts /\ Active
      BY <1>3, <2>1, GroupOf, StaysActive
    <2>3. CASE c \notin Uncounted(d)
      <3>1. slots[c] = taken[c] /\ value[c] = Moved
        BY <1>3, <2>1, <2>2, <2>3 DEF FollowInv, Uncounted
      <3>2. taken'[c] = taken[c]
        BY <2>2, <3>1, ValuesStay
      <3>3. ASSUME NEW w \in Workers, RunAll(w) PROVE slots'[c] = slots[c]
        <4>1. job[w].op = "All" /\ slots' = [slots EXCEPT ![job[w].from] = job[w].result]
          BY <3>3 DEF RunAll
        <4>2. job[w].to \in Contracts /\ job[w].from \in Uncounted(job[w].to)
          BY <3>3, <4>1, RunCounts DEF Counts
        <4>3. job[w].from # c
          BY <2>1, <2>3, <4>2 DEF GroupInv, Uncounted
        <4>4. QED
          BY <2>2, <4>1, <4>3 DEF TypeOK
      <3>4. ASSUME NEW w \in Workers, WorkerStep(w), ~RunAll(w) PROVE slots' = slots
        BY <3>4 DEF WorkerStep, Take, Run, RunSubscriber, RunFirstOf, Compare, SetValue, Exchange, Invoke,
                    Notify, DropPromise, groups
      <3>5. slots'[c] = slots[c]
        BY <3>3, <3>4, ClientJobs, StopEffects, DiscardEffects DEF Next, SameJobs, SameGroups
      <3>6. QED
        BY <3>1, <3>2, <3>5
    <2>4. CASE c \in Uncounted(d)
      <3>1. PICK w \in Workers : Counts(w, d)
        BY <1>3, <2>1, <2>4, UncountedCases
      <3>2. job[w].from = c /\ job[w].op = "All" /\ pc[w] = "run"
        BY <1>3, <2>1, <2>4, <3>1 DEF Counts
      <3>3. RunAll(w)
        BY <3>1, <3>2 DEF Counts, Run, RunFirstOf
      <3>4. job[w].result = taken[c]
        BY <2>2, <3>2, Constants DEF WorkInv
      <3>5. slots'[c] = job[w].result
        BY <2>2, <3>2, <3>3 DEF RunAll, TypeOK
      <3>6. taken' = taken
        BY <3>3 DEF RunAll
      <3>7. QED
        BY <3>4, <3>5, <3>6
    <2>5. QED
      BY <2>3, <2>4
  <1>4. \A w \in Workers : pc'[w] = "set" => Follows(job[w].to, job[w].result)'
    <2>1. SUFFICES ASSUME NEW w \in Workers, pc'[w] = "set"
                   PROVE  Follows(job[w].to, job[w].result)'
      OBVIOUS
    <2>2. PICK d : d = job'[w].to
      OBVIOUS
    <2>3. PICK r : r = job'[w].result
      OBVIOUS
    <2>4. Follows(d, r)'
      BY <1>1, <2>1, <2>2, <2>3
    <2>5. QED
      BY <2>2, <2>3, <2>4 DEF Follows, Inputs, Made
  <1>5. \A d \in Contracts : value'[d] # Null => Follows(d, Sent[d])'
    <2>1. SUFFICES ASSUME NEW d \in Contracts, value'[d] # Null
                   PROVE  Follows(d, Sent[d])'
      OBVIOUS
    <2>2. PICK r : r = Sent'[d]
      OBVIOUS
    <2>3. Follows(d, r)'
      BY <1>2, <2>1, <2>2
    <2>4. QED
      BY <2>2, <2>3 DEF Follows
  <1>6. QED
    BY <1>3, <1>4, <1>5 DEF FollowInv

------------------------------------------------------------------------------
\* Nothing is forgotten.  A future that is no longer to meet its promise has got
\* a callback, unless it is none of the futures of a group.
LEMMA UnsubscribedCases ==
    ASSUME Inv, Next, NEW c \in Unsubscribed, c \notin Unsubscribed'
    PROVE  \/ \E t \in Clients : SetCallback(t) /\ c = Head(rest[t])
           \/ \A d \in Contracts : c \notin Inputs(d)
  <1>1. ASSUME NEW t \in Clients, ClientStep(t)
        PROVE  SetCallback(t) \/ GetResult(t) \/ Read(t)
    BY <1>1, ExecuteEffects, AttachEffects, SubmitCallbackEffects, DropFutureEffects, WaitEffects
       DEF ClientStep, SameClients
  <1>2. ASSUME NEW t \in Clients, SetCallback(t) PROVE c = Head(rest[t])
    BY <1>2, SetCallbackEffects
  <1>3. ASSUME NEW t \in Clients, GetResult(t) \/ Read(t) PROVE \A d \in Contracts : c \notin Inputs(d)
    BY <1>3, GetResultEffects, ReadEffects
  <1>4. QED
    BY <1>1, <1>2, <1>3, WorkerSame, StopEffects, DiscardEffects DEF Next, SameClients

LEMMA SubmittingStays ==
    ASSUME Inv, Next, NEW c \in Submitting, value'[c] # Moved
    PROVE  c \in Submitting'
  <1>1. ASSUME NEW t \in Clients, ClientStep(t), ~SubmitCallback(t) PROVE Submitting \subseteq Submitting'
    BY <1>1, ExecuteEffects, AttachEffects, SetCallbackEffects, DropFutureEffects, GetResultEffects,
       WaitEffects, ReadEffects DEF ClientStep, SameClients
  <1>2. ASSUME NEW t \in Clients, SubmitCallback(t) PROVE c \in Submitting'
    BY <1>2, SubmitCallbackEffects
  <1>3. QED
    BY <1>1, <1>2, WorkerSame, StopEffects, DiscardEffects DEF Next, SameClients

LEMMA OwnedCases ==
    ASSUME Inv, Next
    PROVE  /\ Owned' \subseteq Owned \cup Unmade
           /\ \A d \in Unmade \ Unmade' : d \in Executed' \/ d \in Grouped'
  <1>1. ASSUME NEW t \in Clients, ClientStep(t)
        PROVE  /\ Owned' \subseteq Owned \cup Unmade
               /\ \A d \in Unmade \ Unmade' : d \in Executed' \/ d \in Grouped'
    <2>1. CASE Execute(t)
      <3>1. PICK d : d = Call(t).to
        OBVIOUS
      <3>2. /\ d \in Unmade /\ Unmade' = Unmade \ {d} /\ Owned' = Owned \cup {d}
            /\ Executed' = Executed \cup {d}
        BY <2>1, <3>1, ExecuteEffects
      <3>3. QED
        BY <3>2
    <2>2. CASE Attach(t)
      <3>1. PICK d : d = Call(t).to
        OBVIOUS
      <3>2. /\ d # Null => d \in Unmade /\ d \in Contracts
            /\ Unmade' = Unmade \ {d} /\ Owned' = Owned \cup ({d} \cap Contracts)
            /\ d # Null => Made(d)' = Call(t) /\ Call(t).op \in Attaching
        BY <2>2, <3>1, AttachEffects
      <3>3. d # Null => d \in Grouped'
        BY <3>2 DEF Grouped, Attaching
      <3>4. Owned' \subseteq Owned \cup Unmade
        BY <3>2, Constants
      <3>5. Null \notin Unmade
        BY Constants DEF Unmade
      <3>6. QED
        BY <3>2, <3>3, <3>4, <3>5
    <2>3. CASE ~Execute(t) /\ ~Attach(t)
      BY <1>1, <2>3, SetCallbackEffects, SubmitCallbackEffects, DropFutureEffects, GetResultEffects,
         WaitEffects, ReadEffects DEF ClientStep, SameClients
    <2>4. QED
      BY <2>1, <2>2, <2>3
  <1>2. QED
    BY <1>1, WorkerSame, StopEffects, DiscardEffects DEF Next, SameClients

LEMMA UnsetStays ==
    ASSUME Inv, Next, NEW d \in Contracts, ~Unset(d)
    PROVE  ~Unset(d)'
  <1> USE DEF Inv
  <1>1. CASE value[d] # Null
    BY <1>1, ValuesStay DEF Unset
  <1>2. CASE d \in InSetting /\ value[d] = Null
    <2>1. ASSUME NEW w \in Workers, WorkerStep(w) PROVE d \in InSetting'
      <3>1. CASE pc[w] \in Setting /\ pc'[w] \notin Setting /\ job[w].to = d
        <4>1. ~DropPromise(w)
          BY <1>2, <3>1, DropPromiseEffects
        <4>2. ~Take(w) /\ ~(Run(w) \/ RunSubscriber(w) \/ RunAll(w) \/ RunFirstOf(w))
          BY <3>1, TakeEffects, RunEffects DEF Setting
        <4>3. ~Compare(w)
          BY <3>1 DEF Compare, Goto, Setting
        <4>4. ~SetValue(w) /\ ~Notify(w)
          BY <3>1, SetValueEffects, NotifyEffects DEF Setting
        <4>5. ~Exchange(w) /\ ~Invoke(w)
          BY <3>1, ExchangeEffects, InvokeEffects DEF Setting
        <4>6. QED
          BY <2>1, <4>1, <4>2, <4>3, <4>4, <4>5 DEF WorkerStep
      <3>2. CASE ~(pc[w] \in Setting /\ pc'[w] \notin Setting /\ job[w].to = d)
        <4>1. pc[w] \in Setting /\ pc'[w] \in Setting => job'[w].to = job[w].to
          BY <2>1, JobCases DEF Setting
        <4>2. pc[w] \notin Setting /\ pc'[w] \in Setting => job'[w].to = job[w].to
          BY <2>1, JobCases DEF Setting, Take, Goto, TypeOK, Actors
        <4>3. QED
          BY <1>2, <2>1, <3>2, <4>1, <4>2, WorkerSame, SettingViews
      <3>3. QED
        BY <3>1, <3>2
    <2>2. d \in InSetting'
      BY <1>2, <2>1, ClientJobs, StopEffects, DiscardEffects DEF Next, SameJobs
    <2>3. QED
      BY <2>2 DEF Unset
  <1>3. QED
    BY <1>1, <1>2 DEF Unset

LEMMA ExecutedStays ==
    ASSUME Inv, Next, Active', NEW d \in Executed
    PROVE  d \in Executed' \/ d \in InSetting'
  <1>1. ASSUME NEW w \in Workers, WorkerStep(w) PROVE d \in Executed' \/ d \in InSetting'
    <2>1. CASE Run(w) \/ RunSubscriber(w) \/ RunAll(w) \/ RunFirstOf(w)
      <3>1. Executed' = IF job[w].op = "Execute" THEN Executed \ {job[w].to} ELSE Executed
        BY <2>1, RunEffects
      <3>2. ASSUME job[w].op = "Execute", job[w].to = d PROVE d \in InSetting'
        <4>1. Run(w)
          BY <2>1, <3>2 DEF RunSubscriber, RunAll, RunFirstOf
        <4>2. pc'[w] = "set"
          BY <4>1, Constants DEF Run, Goto, Inv, TypeOK
        <4>3. QED
          BY <3>2, <4>1, <4>2, RunEffects DEF Setting
      <3>3. QED
        BY <3>1, <3>2
    <2>2. CASE ~(Run(w) \/ RunSubscriber(w) \/ RunAll(w) \/ RunFirstOf(w))
      BY <1>1, <2>2, TakeEffects, CompareEffects, SetValueEffects, ExchangeEffects, InvokeEffects,
         NotifyEffects, DropPromiseEffects DEF WorkerStep, SameTasks
    <2>3. QED
      BY <2>1, <2>2
  <1>2. ASSUME NEW t \in Clients, ClientStep(t) PROVE d \in Executed'
    <2>1. CASE Execute(t)
      BY <2>1, ExecuteEffects
    <2>2. CASE SubmitCallback(t)
      BY <2>2, SubmitCallbackEffects
    <2>3. CASE ~Execute(t) /\ ~SubmitCallback(t)
      <3>1. tasks' = tasks
        BY <1>2, <2>3
           DEF ClientStep, Attach, SetCallback, DropFuture, GetResult, Wait, Read, executor
      <3>2. QED
        BY <1>2, <3>1, ClientJobs DEF SameRoutines
    <2>4. QED
      BY <2>1, <2>2, <2>3
  <1>3. QED
    BY <1>1, <1>2, StopEffects, StaysActive DEF Next, SameTasks

\* The callback word of a contract that has a value holds that, until the owner of
\* the future finds it.
LEMMA KeepsValueSet ==
    ASSUME Inv, Next, NEW c \in Contracts, callback[c] = kValueIsSet
    PROVE  \/ callback'[c] = kValueIsSet
           \/ c \in Submitting' /\ c \in Unsubscribed
  <1>1. ASSUME NEW t \in Clients, SetCallback(t), c = Head(rest[t])
        PROVE  c \in Submitting' /\ c \in Unsubscribed
    BY <1>1, SetCallbackEffects
  <1>2. ASSUME NEW t \in Clients, SetCallback(t), c # Head(rest[t])
        PROVE  callback'[c] = callback[c]
    BY <1>2, SetCallbackEffects
  <1>3. ASSUME NEW w \in Workers, Exchange(w) PROVE callback'[c] \in {callback[c], kValueIsSet}
    BY <1>3, ExchangeEffects
  <1>4. QED
    BY <1>1, <1>2, <1>3, CallbackCases

LEMMA DeliverStep ==
    ASSUME Inv, DeliverInv, Next PROVE DeliverInv'
  <1> USE DEF Inv
  <1>0. ContractInv' /\ GroupInv' /\ TypeOK'
    BY ContractStep, GroupStep, TypeStep
  <1>1. ASSUME NEW d \in Contracts, NEW c \in Inputs(d)', c \notin Unsubscribed'
        PROVE  callback'[c] # Null
    <2>1. c \in Inputs(d)
      BY <1>1, InputCases
    <2>2. c \in Contracts
      BY <2>1, GroupOf
    <2>3. ASSUME callback'[c] = callback[c] PROVE callback[c] # Null
      <3>1. CASE c \notin Unsubscribed
        BY <2>1, <3>1 DEF DeliverInv
      <3>2. CASE c \in Unsubscribed
        <4>1. PICK t \in Clients : SetCallback(t) /\ c = Head(rest[t])
          BY <1>1, <2>1, <3>2, UnsubscribedCases
        <4>2. QED
          BY <2>3, <4>1, SetCallbackEffects, Constants
      <3>3. QED
        BY <3>1, <3>2
    <2>4. ASSUME NEW t \in Clients, SetCallback(t) PROVE callback'[c] = callback[c] \/ callback'[c] # Null
      BY <2>2, <2>4, SetCallbackEffects, Constants
    <2>5. ASSUME NEW w \in Workers, Exchange(w) PROVE callback'[c] = callback[c] \/ callback'[c] # Null
      BY <2>2, <2>5, ExchangeEffects, Constants
    <2>6. QED
      BY <2>3, <2>4, <2>5, CallbackCases
  <1>2. ASSUME NEW c \in Contracts, value'[c] \in Results
        PROVE  \/ c \in Submitting'
               \/ At("exchange", c)'
               \/ /\ callback'[c] = kValueIsSet
                  /\ \/ c \in Unsubscribed' \/ At("invoke", c)'
                     \/ \A d \in Contracts : c \notin Inputs(d)'
    <2> DEFINE P == \/ c \in Submitting'
                    \/ At("exchange", c)'
                    \/ /\ callback'[c] = kValueIsSet
                       /\ \/ c \in Unsubscribed' \/ At("invoke", c)'
                          \/ \A d \in Contracts : c \notin Inputs(d)'
    <2>1. CASE value[c] = Null
      <3>1. PICK w \in Workers : SetValue(w) /\ job[w].to = c
        BY <1>2, <2>1, SetCases, Constants
      <3>2. pc'[w] = "exchange" /\ job' = job
        BY <3>1, SetValueEffects
      <3>3. QED
        BY <3>1, <3>2 DEF At
    <2>2. CASE value[c] # Null
      <3>0. value'[c] # Moved /\ value[c] \in Results
        BY <1>2, <2>2, ValuesStay, Constants DEF TypeOK
      <3>1. \/ c \in Submitting
            \/ At("exchange", c)
            \/ /\ callback[c] = kValueIsSet
               /\ \/ c \in Unsubscribed \/ At("invoke", c)
                  \/ \A d \in Contracts : c \notin Inputs(d)
        BY <3>0 DEF DeliverInv
      <3>2. ASSUME \A d \in Contracts : c \notin Inputs(d)
            PROVE  c \in Unsubscribed' \/ \A d \in Contracts : c \notin Inputs(d)'
        BY <3>2, InputCases
      <3>3. CASE c \in Submitting
        BY <3>0, <3>3, SubmittingStays
      <3>4. CASE At("exchange", c)
        <4>1. PICK w \in Workers : pc[w] = "exchange" /\ job[w].to = c
          BY <3>4 DEF At
        <4>2. CASE WorkerStep(w)
          <5>1. Exchange(w)
            BY <4>1, <4>2, Constants DEF WorkerStep, Take, Run, RunSubscriber, RunAll, RunFirstOf, Compare,
                                         SetValue, Invoke, Notify, DropPromise, Goto
          <5>2. callback'[c] = kValueIsSet /\ job' = job
                /\ pc'[w] = IF callback[c] = Null THEN "notify" ELSE "invoke"
            BY <4>1, <5>1, ExchangeEffects
          <5>3. Unsubscribed' = Unsubscribed
            BY <4>2, WorkerSame DEF SameClients
          <5>4. CASE callback[c] = Null
            <6>1. c \in Unsubscribed \/ \A d \in Contracts : c \notin Inputs(d)
              BY <5>4 DEF DeliverInv
            <6>2. QED
              BY <3>2, <5>2, <5>3, <6>1
          <5>5. CASE callback[c] # Null
            <6>1. pc'[w] = "invoke" /\ job'[w].to = c
              BY <4>1, <5>2, <5>5
            <6>2. QED
              BY <5>2, <6>1 DEF At
          <5>6. QED
            BY <5>4, <5>5
        <4>3. CASE ~WorkerStep(w)
          <5>1. pc'[w] = pc[w] /\ job'[w] = job[w]
            BY <4>3, WorkerSame, ClientJobs, StopEffects, DiscardEffects DEF Next, OthersWork, SameJobs
          <5>2. QED
            BY <4>1, <5>1 DEF At
        <4>4. QED
          BY <4>2, <4>3
      <3>5. CASE callback[c] = kValueIsSet /\ c \in Unsubscribed
        <4>1. CASE c \in Unsubscribed'
          BY <3>5, <4>1, KeepsValueSet
        <4>2. CASE c \notin Unsubscribed'
          <5>1. CASE \A d \in Contracts : c \notin Inputs(d)
            BY <3>2, <3>5, <5>1, KeepsValueSet
          <5>2. ASSUME NEW t \in Clients, SetCallback(t), c = Head(rest[t])
                PROVE  c \in Submitting'
            BY <3>5, <5>2, SetCallbackEffects
          <5>3. QED
            BY <3>5, <4>2, <5>1, <5>2, UnsubscribedCases
        <4>3. QED
          BY <4>1, <4>2
      <3>6. CASE callback[c] = kValueIsSet /\ c \notin Unsubscribed
        <4>1. callback'[c] = kValueIsSet
          BY <3>6, KeepsValueSet
        <4>2. CASE \A d \in Contracts : c \notin Inputs(d)
          BY <3>2, <4>1, <4>2
        <4>3. CASE At("invoke", c)
          <5>1. PICK w \in Workers : pc[w] = "invoke" /\ job[w].to = c
            BY <4>3 DEF At
          <5>2. ~WorkerStep(w)
            <6>1. WorkerStep(w) => Invoke(w)
              BY <5>1, Constants DEF WorkerStep, Take, Run, RunSubscriber, RunAll, RunFirstOf, Compare,
                                     SetValue, Exchange, Notify, DropPromise, Goto
            <6>2. Invoke(w) => value'[c] = Moved
              BY <5>1 DEF Invoke, Submit, TypeOK
            <6>3. QED
              BY <3>0, <6>1, <6>2
          <5>3. pc'[w] = pc[w] /\ job'[w] = job[w]
            BY <5>2, WorkerSame, ClientJobs, StopEffects, DiscardEffects DEF Next, OthersWork, SameJobs
          <5>4. At("invoke", c)'
            BY <5>1, <5>3 DEF At
          <5>5. QED
            BY <4>1, <5>4
        <4>4. QED
          BY <3>1, <3>3, <3>4, <3>6, <4>2, <4>3
      <3>7. QED
        BY <3>1, <3>3, <3>4, <3>5, <3>6
    <2>3. QED
      BY <2>1, <2>2
  <1>3. ASSUME Active', NEW d \in Contracts, Made(d)'.op \in {"Then", "Recover", "All"},
               Uncounted(d)' = {}, Unset(d)'
        PROVE  FALSE
    <2>1. PICK c : c \in Inputs(d)'
      <3>1. d \in Grouped'
        BY <1>3 DEF Grouped
      <3>2. WellFormed(Made(d)')
        BY <1>0, <3>1 DEF GroupInv
      <3>3. Made(d)'.at \in Seq(Contracts)
        BY <1>0 DEF TypeOK, Calls, Made
      <3>4. Made(d)'.at # << >>
        BY <1>3, <3>2 DEF WellFormed
      <3>5. QED
        BY <3>3, <3>4, RangeFacts DEF Inputs
    <2>2. Made(d)' = Made(d) /\ d \notin Unmade
      <3>1. c \notin Unsubscribed'
        BY <1>0, <1>3, <2>1 DEF ContractInv, Unsubscribed, Uncounted
      <3>2. QED
        BY <2>1, <3>1, InputCases
    <2>3. Active /\ Unset(d)
      BY <1>3, StaysActive, UnsetStays
    <2>4. Uncounted(d) # {}
      BY <1>3, <2>2, <2>3 DEF DeliverInv
    <2>5. PICK w \in Workers : Counts(w, d)
      BY <1>3, <2>2, <2>4, UncountedCases
    <2>6. /\ Uncounted(d) = {job[w].from} /\ job[w].to = d /\ pc[w] = "run"
          /\ job[w].op \in {"Then", "Recover", "All"} /\ Made(d).op = job[w].op
      BY <1>3, <2>2, <2>5 DEF Counts
    <2>7. CASE Run(w)
      <3>1. pc'[w] = "set"
        BY <1>0, <2>7, Constants DEF Run, Goto, TypeOK
      <3>2. QED
        BY <1>3, <2>6, <2>7, <3>1, RunEffects DEF Unset, Setting
    <2>8. CASE RunAll(w)
      <3>1. group[d].count = 1
        BY <2>3, <2>6, <2>8, FS_Singleton DEF CountInv, RunAll
      <3>2. pc'[w] = "set"
        BY <1>0, <2>6, <2>8, <3>1, Constants DEF RunAll, Goto, TypeOK
      <3>3. QED
        BY <1>3, <2>6, <2>8, <3>2, RunEffects DEF Unset, Setting
    <2>9. QED
      BY <2>5, <2>6, <2>7, <2>8 DEF Counts, RunFirstOf
  <1>4. ASSUME Active', NEW d \in Contracts, d \notin Grouped', d \notin Unmade', ~stopped',
               d \in Owned' \/ \E e \in Contracts : d \in Inputs(e)', Unset(d)'
        PROVE  d \in Executed'
    <2>1. CASE d \in Unmade
      BY <1>4, <2>1, OwnedCases
    <2>2. CASE d \notin Unmade
      <3>1. d \notin Grouped
        BY <1>4, <2>2, MadeStays DEF Grouped
      <3>2. d \in Owned \/ \E e \in Contracts : d \in Inputs(e)
        BY <1>4, <2>2, OwnedCases, InputCases
      <3>3. Active /\ ~stopped /\ Unset(d)
        BY <1>4, StaysActive, UnsetStays
      <3>4. d \in Executed
        BY <2>2, <3>1, <3>2, <3>3 DEF DeliverInv
      <3>5. QED
        BY <1>4, <3>4, ExecutedStays DEF Unset
    <2>3. QED
      BY <2>1, <2>2
  <1>5. QED
    BY <1>1, <1>2, <1>3, <1>4 DEF DeliverInv

------------------------------------------------------------------------------
\* The inductive invariant: what has become of each contract, who is still to use it,
\* and what is on the way to it.
THEOREM Invariance == Spec => []IInv
  <1>1. Init => IInv
    BY InitInv
  <1>2. IInv /\ [Next]_vars => IInv'
    <2>1. IInv /\ Next => IInv'
      BY InvNext, FollowStep, DeliverStep DEF IInv
    <2>2. QED
      BY <2>1, Stutter
  <1>3. QED
    BY <1>1, <1>2, PTL DEF Spec

\* The variables always have their types; in particular a FutureValue never has more
\* than its two owners, nor is it destroyed by a third, and a callback word holds
\* nothing but nullptr, kValueIsSet or a callback.
THEOREM TypeCorrect == Spec => []TypeOK
  <1>1. IInv => TypeOK
    BY DEF IInv, Inv
  <1>2. QED
    BY <1>1, Invariance, PTL

\* When everybody is done, a contract that has an owner left has no value, and so
\* waits for an input that has none either.
LEMMA QuiescentFacts ==
    ASSUME IInv, Quiescent, ~stopped
    PROVE  /\ Active /\ Owned = {} /\ Unsubscribed = {} /\ Submitting = {} /\ Unmade = {}
           /\ InSetting = {} /\ Executed = {} /\ Pending = {}
           /\ \A label \in {"exchange", "invoke"} : \A c : ~At(label, c)
  <1>1. /\ \A t \in Clients : pc[t] = "idle" /\ DOMAIN todo[t] = {}
        /\ \A w \in Workers : pc[w] = "idle"
        /\ DOMAIN tasks = {}
    BY DEF Quiescent
  <1>2. QED
    BY <1>1 DEF Active, Owned, Keeps, KeepsIn, Unsubscribed, Awaits, AwaitsIn, Submitting, Submits,
                Unmade, Makes, InSetting, Sets, Setting, Executed, Pending, At

LEMMA InvLeaks ==
    ASSUME IInv PROVE NothingLeaks
  <1> USE DEF IInv, Inv
  <1>1. SUFFICES ASSUME Quiescent, ~stopped, NEW d \in Contracts,
                        owners_count[d] # 0, Made(d).op # "FirstOf"
                 PROVE  \E c \in Inputs(d) : owners_count[c] # 0
    BY DEF NothingLeaks, Inputs, Made
  <1>2. \A c \in Contracts : owners_count[c] # 0 <=> c \in Grouped /\ value[c] = Null
    <2>1. \A c \in Contracts : c \in Promised <=> c \in Grouped /\ value[c] = Null
      BY <1>1, QuiescentFacts DEF Promised
    <2>2. QED
      BY <1>1, <2>1, QuiescentFacts DEF OwnersInv
  <1>3. Made(d).op \in {"Then", "Recover", "All"} /\ Unset(d)
    <2>1. d \in Grouped /\ value[d] = Null
      BY <1>1, <1>2
    <2>2. Made(d).op \in Attaching /\ Made(d).to = d /\ WellFormed(Made(d))
      BY <2>1 DEF GroupInv
    <2>3. Made(d).op # "Subscribe"
      BY <2>2, Constants DEF WellFormed
    <2>4. QED
      BY <1>1, <2>1, <2>2, <2>3, QuiescentFacts DEF Attaching, Unset
  <1>4. PICK c \in Uncounted(d) : TRUE
    BY <1>1, <1>3, QuiescentFacts DEF DeliverInv
  <1>5. c \in Inputs(d) /\ c \in Contracts /\ value[c] # Moved
    BY <1>1, <1>4, GroupOf, QuiescentFacts DEF Uncounted
  <1>6. value[c] \notin Results
    BY <1>1, <1>5, QuiescentFacts DEF DeliverInv
  <1>7. value[c] = Null
    BY <1>5, <1>6 DEF TypeOK
  <1>8. c \in Grouped
    BY <1>1, <1>5, <1>7, QuiescentFacts DEF DeliverInv, Unset
  <1>9. QED
    BY <1>2, <1>5, <1>7, <1>8

\* A FutureValue is deleted by the second of its owners: nobody uses one that has been,
\* nor the counters of an All that has set its Promise, and none is left behind unless
\* a FirstOf has.
THEOREM ValuesAreReclaimed == Spec => []ValuesReclaimed
  <1>1. IInv => ValuesReclaimed
    BY LiveValues, InvLeaks DEF IInv, ValuesReclaimed
  <1>2. QED
    BY <1>1, Invariance, PTL

\* The result of Then, Recover, All and FirstOf follows from those of their futures,
\* in whatever order these come.
THEOREM ResultsAlwaysFollow == Spec => []ResultsFollow
  <1>1. ASSUME IInv PROVE ResultsFollow
    <2> USE DEF IInv, Inv
    <2>1. SUFFICES ASSUME NEW d \in Contracts, Made(d).op # "Execute", Sent[d] # None
                   PROVE  LET inputs == {taken[c] : c \in Inputs(d)}
                          IN  CASE Made(d).op = "Then" ->
                                       inputs = {Exception} => Sent[d] = Exception
                                [] Made(d).op = "Recover" -> inputs = {Value} => Sent[d] = Value
                                [] Made(d).op = "All" ->
                                       /\ None \notin inputs
                                       /\ Sent[d] = Exception <=> Exception \in inputs
                                [] Made(d).op = "FirstOf" -> Sent[d] \in inputs
      BY <1>1 DEF ResultsFollow, Made, Inputs
    <2>2. value[d] # Null
      BY <2>1, Constants DEF Sent
    <2>3. Follows(d, Sent[d])
      BY <1>1, <2>2 DEF FollowInv
    <2>4. Made(d).op \in {"Then", "Recover", "All", "FirstOf"}
      <3>1. d \in Grouped
        BY <2>1 DEF Grouped
      <3>2. Made(d).op \in Attaching /\ Made(d).to = d /\ WellFormed(Made(d))
        BY <1>1, <3>1 DEF GroupInv
      <3>3. QED
        BY <3>2, Constants DEF WellFormed, Attaching
    <2>5. QED
      BY <2>3, <2>4 DEF Follows
  <1>2. QED
    BY <1>1, Invariance, PTL

\* A contract is a one-shot channel: the result that was set is taken once, by the
\* callback or by GetResult, and only when it is there.
THEOREM ContractsAreOneShot == Spec => ImplementsOneShot
  <1>1. Init => Contract!Init
    <2>1. Init => Sent = [c \in Contracts |-> None]
      BY Constants DEF Init, Sent
    <2>2. QED
      BY <2>1 DEF Init, Contract!Init
  <1>2. IInv /\ [Next]_vars => [Contract!Next]_<<Sent, taken>>
    <2> SUFFICES ASSUME IInv, [Next]_vars PROVE [Contract!Next]_<<Sent, taken>>
      OBVIOUS
    <2> USE DEF IInv
    <2>1. CASE UNCHANGED vars
      BY <2>1 DEF vars, contract, Sent
    <2>2. CASE Next
      <3>1. CASE value' = value /\ taken' = taken
        BY <3>1 DEF Sent
      <3>2. ASSUME NEW c \in Contracts, NEW r \in Results, Sending(c, r)
            PROVE  Contract!Send(c)
        <4>1. Sent[c] = None /\ taken' = taken
          BY <3>2, Constants DEF Sending, Sent
        <4>2. Sent' = [Sent EXCEPT ![c] = r]
          BY <3>2, Constants DEF Sending, Sent
        <4>3. QED
          BY <4>1, <4>2 DEF Contract!Send
      <3>3. ASSUME NEW c \in Contracts, Taking(c)
            PROVE  Contract!Take(c)
        <4>1. taken[c] = None /\ Sent[c] = value[c] /\ Sent[c] # None
          BY <3>3, Constants DEF Taking, Sent, Inv, ContractInv
        <4>2. taken' = [taken EXCEPT ![c] = value[c]]
          <5>1. TypeOK /\ TypeOK'
            BY <2>2, TypeStep DEF Inv
          <5>2. QED
            BY <3>3, <5>1 DEF Taking, TypeOK
        <4>3. Sent' = Sent
          BY <3>3, Constants DEF Taking, Sent
        <4>4. QED
          BY <4>1, <4>2, <4>3 DEF Contract!Take
      <3>4. QED
        BY <2>2, <3>1, <3>2, <3>3, ValueCases DEF Contract!Next
    <2>3. QED
      BY <2>1, <2>2
  <1>3. QED
    BY <1>1, <1>2, Invariance, PTL DEF Spec, ImplementsOneShot, Contract!Spec
=============================================================================
