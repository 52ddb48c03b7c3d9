--------------------------- MODULE LockFreeQueue ---------------------------
(***************************************************************************)
(* LockFree::Queue: the queue of Michael and Scott, whose nodes are        *)
(* deleted by the last thread that looks at them.  A counted pointer holds *)
(* its address and the number of its viewers plus one; a thread that wants *)
(* to read the node behind head_ or tail_ first raises that count.  A node *)
(* gathers in internal_count what its two counted pointers (in head_ or    *)
(* its predecessor's next, and in tail_) had counted when they were        *)
(* replaced, less the viewers that have left.                              *)
(*                                                                         *)
(* A step is one access to head_, tail_, or a node's next or               *)
(* internal_count; a load whose value only seeds a compare_exchange loop   *)
(* is part of that loop, which is an atomic increment.  Addresses are used *)
(* again as soon as they are free.                                         *)
(***************************************************************************)
EXTENDS Integers, Sequences, FiniteSets

CONSTANTS Threads,
          Survivor,        \* the thread that is not stopped
          Nodes,           \* addresses
          Items,
          Programs,        \* the calls of each thread: an item to push, or "TryPop"
          kOneCounter,     \* 2^60
          kCounts,         \* 2^16, what a count is taken modulo
          MaxCount,        \* bound: others than Survivor raise no count beyond it
          Null

CountedPtrs == [ptr : Nodes \cup {Null}, count : 0..(kCounts - 1)]
NodeRecords == [value : Items \cup {Null}, internal_count : Int, next : CountedPtrs]

ASSUME QueueAssumption ==
    /\ Survivor \in Threads
    /\ Programs \subseteq [Threads -> Seq(Items \cup {"TryPop"})]
    /\ kOneCounter \in Nat /\ kCounts \in Nat /\ 2 < kCounts /\ kCounts <= kOneCounter
    /\ MaxCount \in Nat
    /\ IsFiniteSet(Nodes) /\ Nodes # {} /\ Null \notin Nodes \cup Items \cup NodeRecords

VARIABLES
    head_, tail_,    \* CountedPtrs
    node,            \* what is at an address, or Null: nothing
    pc, todo,
    view,            \* old_tail of Push, head of TryPop, with the thread's own view
    tail,            \* tail of TryPop
    next,            \* next_tail of Push, next_head of TryPop
    new,             \* new_tail of Push
    got              \* what each thread has popped, in order

locals == <<view, tail, next, new>>
vars == <<head_, tail_, node, pc, todo, locals, got>>

Counted(n, c) == [ptr |-> n, count |-> c]
Increased(p) == [p EXCEPT !.count = (@ + 1) % kCounts]
MayView(t, p) == t = Survivor \/ p.count < MaxCount
NullPtr == Counted(Null, 0)
NewNode(x) == [value |-> x, internal_count |-> 2 * kOneCounter, next |-> NullPtr]

\* Queue::Queue with its first node, which holds no value; all addresses are
\* alike.
Init == LET first == CHOOSE n \in Nodes : TRUE IN
        /\ head_ = Counted(first, 1)
        /\ tail_ = Counted(first, 1)
        /\ node = [n \in Nodes |-> IF n = first THEN NewNode(Null) ELSE Null]
        /\ pc = [t \in Threads |-> "idle"]
        /\ todo \in Programs
        /\ view = [t \in Threads |-> NullPtr]
        /\ tail = [t \in Threads |-> NullPtr]
        /\ next = [t \in Threads |-> NullPtr]
        /\ new = [t \in Threads |-> Null]
        /\ got = [t \in Threads |-> << >>]

Goto(t, from, to) == pc[t] = from /\ pc' = [pc EXCEPT ![t] = to]
Calls(t, calls) == /\ todo[t] # << >> /\ Head(todo[t]) \in calls
                   /\ todo' = [todo EXCEPT ![t] = Tail(@)]

\* The node that a thread that looks at p must find there.
At(p) == node[p.ptr]

\* internal_count.fetch_add, and delete when it comes to 0.
Add(n, add) ==
    LET sum == node[n].internal_count + add
    IN  node' = [node EXCEPT ![n] = IF sum = 0 THEN Null
                                    ELSE [node[n] EXCEPT !.internal_count = sum]]

\* Variant: the thread's own view is not taken off.
ReleaseOneCounter_Own(p, inc) == Add(p.ptr, p.count - 1 - kOneCounter + inc)

ReleaseOneCounter(p, inc) == Add(p.ptr, p.count - 2 - kOneCounter + inc)

------------------------------------------------------------------------------
\* Push makes its node at a free address.
Push(t) ==
    /\ Goto(t, "idle", "viewTail")
    /\ Calls(t, Items)
    /\ \E n \in Nodes :
          /\ node[n] = Null
          /\ node' = [node EXCEPT ![n] = NewNode(Head(todo[t]))]
          /\ new' = [new EXCEPT ![t] = n]
    /\ UNCHANGED <<head_, tail_, view, tail, next, got>>

\* IncreaseExternalCount(tail_, old_tail)
ViewTail(t) ==
    /\ Goto(t, "viewTail", "link")
    /\ MayView(t, tail_)
    /\ tail_' = Increased(tail_)
    /\ view' = [view EXCEPT ![t] = Increased(tail_)]
    /\ UNCHANGED <<head_, node, todo, tail, next, new, got>>

\* Variant: next is stored, whatever it was.
Link_Blindly(t) ==
    /\ Goto(t, "link", "swing")
    /\ node' = [node EXCEPT ![view[t].ptr].next = Counted(new[t], 1)]
    /\ new' = [new EXCEPT ![t] = Null]
    /\ next' = [next EXCEPT ![t] = Counted(new[t], 1)]
    /\ UNCHANGED <<head_, tail_, todo, view, tail, got>>

\* The compare_exchange of old_tail->next.
Link(t) ==
    /\ Goto(t, "link", IF At(view[t]).next = NullPtr THEN "swing" ELSE "loadNext")
    /\ node' = IF At(view[t]).next = NullPtr
               THEN [node EXCEPT ![view[t].ptr].next = Counted(new[t], 1)]
               ELSE node
    /\ new' = IF At(view[t]).next = NullPtr THEN [new EXCEPT ![t] = Null] ELSE new
    /\ next' = [next EXCEPT ![t] = Counted(new[t], 1)]
    /\ UNCHANGED <<head_, tail_, todo, view, tail, got>>

\* Somebody else has linked its node: the next of old_tail.
LoadNextTail(t) ==
    /\ Goto(t, "loadNext", "swing")
    /\ next' = [next EXCEPT ![t] = At(view[t]).next]
    /\ UNCHANGED <<head_, tail_, node, todo, view, tail, new, got>>

\* tail_ moves on to the new node, this thread's or the other's.
Swing(t) ==
    /\ Goto(t, "swing", IF tail_ = view[t] THEN "releaseTail" ELSE "leave")
    /\ tail_' = IF tail_ = view[t] THEN next[t] ELSE tail_
    /\ UNCHANGED <<head_, node, todo, locals, got>>

\* Push returns when its node is in the list, and else tries again.
AfterPush(t) == IF new[t] = Null THEN "idle" ELSE "viewTail"

ReleaseTail(t) ==
    /\ Goto(t, "releaseTail", AfterPush(t))
    /\ ReleaseOneCounter(view[t], 0)
    /\ UNCHANGED <<head_, tail_, todo, locals, got>>

------------------------------------------------------------------------------
TryPop(t) ==
    /\ Goto(t, "idle", "viewHead")
    /\ Calls(t, {"TryPop"})
    /\ UNCHANGED <<head_, tail_, node, locals, got>>

\* IncreaseExternalCount(head_, head)
ViewHead(t) ==
    /\ Goto(t, "viewHead", "loadTail")
    /\ MayView(t, head_)
    /\ head_' = Increased(head_)
    /\ view' = [view EXCEPT ![t] = Increased(head_)]
    /\ UNCHANGED <<tail_, node, todo, tail, next, new, got>>

LoadTail(t) ==
    /\ Goto(t, "loadTail", "loadNextHead")
    /\ tail' = [tail EXCEPT ![t] = tail_]
    /\ UNCHANGED <<head_, tail_, node, todo, view, next, new, got>>

\* Variant: one node means that the queue is empty.
LoadNextHead_Hasty(t) ==
    /\ Goto(t, "loadNextHead", IF view[t].ptr # tail[t].ptr THEN "swingHead" ELSE "empty")
    /\ next' = [next EXCEPT ![t] = At(view[t]).next]
    /\ UNCHANGED <<head_, tail_, node, todo, view, tail, new, got>>

LoadNextHead(t) ==
    /\ Goto(t, "loadNextHead", IF view[t].ptr # tail[t].ptr THEN "swingHead"
                               ELSE IF At(view[t]).next = NullPtr THEN "empty"
                               ELSE "help")
    /\ next' = [next EXCEPT ![t] = At(view[t]).next]
    /\ UNCHANGED <<head_, tail_, node, todo, view, tail, new, got>>

\* Variant: TryPop waits for the Push that is under way.
Help_Wait(t) ==
    /\ Goto(t, "help", "again")
    /\ tail_ # tail[t]
    /\ UNCHANGED <<head_, tail_, node, todo, locals, got>>

\* tail_ lags behind: it is moved on in the name of the Push that should.
Help(t) ==
    /\ Goto(t, "help", IF tail_ = tail[t] THEN "releaseHelped" ELSE "again")
    /\ tail_' = IF tail_ = tail[t] THEN next[t] ELSE tail_
    /\ UNCHANGED <<head_, node, todo, locals, got>>

\* This thread has not counted itself in tail.
ReleaseHelped(t) ==
    /\ Goto(t, "releaseHelped", "again")
    /\ ReleaseOneCounter(tail[t], 1)
    /\ UNCHANGED <<head_, tail_, todo, locals, got>>

\* The compare_exchange of head_; the new head has this thread as a viewer.
SwingHead(t) ==
    /\ Goto(t, "swingHead", IF head_ = view[t] THEN "read" ELSE "again")
    /\ head_' = IF head_ = view[t] THEN Increased(next[t]) ELSE head_
    /\ UNCHANGED <<tail_, node, todo, locals, got>>

\* Variant: the value is taken from the old head.
Read_Old(t) ==
    /\ Goto(t, "read", "releaseHead")
    /\ got' = [got EXCEPT ![t] = Append(@, At(view[t]).value)]
    /\ UNCHANGED <<head_, tail_, node, todo, locals>>

\* The value is that of the new head.
Read(t) ==
    /\ Goto(t, "read", "releaseHead")
    /\ got' = [got EXCEPT ![t] = Append(@, At(next[t]).value)]
    /\ UNCHANGED <<head_, tail_, node, todo, locals>>

ReleaseHead(t) ==
    /\ Goto(t, "releaseHead", "leave")
    /\ ReleaseOneCounter(view[t], 0)
    /\ view' = [view EXCEPT ![t] = next[t]]
    /\ UNCHANGED <<head_, tail_, todo, tail, next, new, got>>

\* ReleaseRef, at the end of a round of Push or TryPop.
ReleaseRef(t) ==
    /\ pc[t] \in {"leave", "empty", "again"}
    /\ pc' = [pc EXCEPT ![t] = IF @ = "again" THEN "viewHead" ELSE AfterPush(t)]
    /\ Add(view[t].ptr, -1)
    /\ UNCHANGED <<head_, tail_, todo, locals, got>>

\* The nodes of the list, from head_ on.
List == LET at[i \in 0..Cardinality(Nodes)] ==
                IF i = 0 THEN head_.ptr
                ELSE IF at[i-1] = Null \/ node[at[i-1]] = Null THEN Null
                ELSE node[at[i-1]].next.ptr
        IN  at
InList == {i \in DOMAIN List : List[i] # Null}

\* ~Queue, when no thread uses the queue any more.
Destroy ==
    /\ \A t \in Threads : pc[t] = "idle" /\ todo[t] = << >>
    /\ head_ # NullPtr
    /\ node' = [n \in Nodes |-> IF \E i \in InList : List[i] = n THEN Null ELSE node[n]]
    /\ head_' = NullPtr
    /\ tail_' = NullPtr
    /\ UNCHANGED <<pc, todo, locals, got>>

Step(t) == \/ Push(t) \/ ViewTail(t) \/ Link(t) \/ LoadNextTail(t) \/ Swing(t)
           \/ ReleaseTail(t)
           \/ TryPop(t) \/ ViewHead(t) \/ LoadTail(t) \/ LoadNextHead(t) \/ Help(t)
           \/ ReleaseHelped(t) \/ SwingHead(t) \/ Read(t) \/ ReleaseHead(t)
           \/ ReleaseRef(t)

Next == Destroy \/ \E t \in Threads : Step(t)

Spec == Init /\ [][Next]_vars

\* One thread keeps running; the others may stop anywhere.
FairSpec == Spec /\ WF_vars(Step(Survivor))

------------------------------------------------------------------------------
TypeOK ==
    /\ head_ \in CountedPtrs
    /\ tail_ \in CountedPtrs
    /\ node \in [Nodes -> NodeRecords \cup {Null}]
    /\ pc \in [Threads -> {"idle", "viewTail", "link", "swing", "loadNext", "releaseTail",
                           "viewHead", "loadTail", "loadNextHead", "help", "releaseHelped",
                           "swingHead", "read", "releaseHead", "leave", "empty", "again"}]
    /\ todo \in [Threads -> Seq(Items \cup {"TryPop"})]
    /\ view \in [Threads -> CountedPtrs]
    /\ tail \in [Threads -> CountedPtrs]
    /\ next \in [Threads -> CountedPtrs]
    /\ new \in [Threads -> Nodes \cup {Null}]
    /\ got \in [Threads -> Seq(Items)]

\* "when internal + all externals == 0 we can delete node": nobody looks at a
\* node that has been deleted, no pointer that can be followed leads to it, and
\* every node is deleted, by the last one who looks at it or by ~Queue.
Viewing == {"link", "loadNext", "swing", "releaseTail", "loadTail", "loadNextHead", "help",
            "releaseHelped", "swingHead", "read", "releaseHead", "leave", "empty", "again"}
OnlyLiveNodes ==
    /\ head_ # NullPtr => node[head_.ptr] # Null /\ node[tail_.ptr] # Null
    /\ \A n \in Nodes : node[n] # Null /\ node[n].next # NullPtr
                           => \/ node[node[n].next.ptr] # Null
                              \/ \A i \in InList : List[i] # n
    /\ \A t \in Threads :
          /\ pc[t] \in Viewing => node[view[t].ptr] # Null
          /\ pc[t] = "releaseHelped" => node[tail[t].ptr] # Null
          /\ pc[t] \in {"read", "releaseHead"} => node[next[t].ptr] # Null
NothingLeaks == head_ = NullPtr => \A n \in Nodes : node[n] = Null
NodesReclaimed == OnlyLiveNodes /\ NothingLeaks

\* The queue is a FIFO: a Push takes effect when its node is linked, a TryPop
\* when it moves head_, whoever moves tail_ and however nodes are used again.
\* Only ~Queue drops what is left.
Popping(t) == IF pc[t] = "read" THEN << At(next[t]).value >> ELSE << >>
Fifo == INSTANCE BoundedFifo
            WITH Capacity <- Cardinality(Nodes),
                 items <- [i \in 1..(Cardinality(InList) - 1) |-> node[List[i]].value],
                 got <- [t \in Threads |-> got[t] \o Popping(t)]
ImplementsFifo == Fifo!Init /\ [][Fifo!Next \/ Destroy]_(Fifo!vars)

\* TryPop reports an empty queue only if it is empty when next is read.
NothingMeansEmpty ==
    [][\A t \in Threads :
          pc[t] # "empty" /\ pc'[t] = "empty" => Cardinality(InList) = 1]_vars

\* The queue is lock-free: a thread finishes its calls although others stop in
\* the middle of theirs.
SurvivorFinishes == <>(pc[Survivor] = "idle" /\ todo[Survivor] = << >>)
=============================================================================
