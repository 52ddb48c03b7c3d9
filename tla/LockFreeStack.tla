--------------------------- MODULE LockFreeStack ---------------------------
(***************************************************************************)
(* LockFree::Stack: the stack of Treiber, whose nodes are deleted by the   *)
(* last thread that looks at them.  A counted pointer holds its address    *)
(* and the number of its viewers plus one; a thread that pops first counts *)
(* itself in head_, so that nobody deletes the node while it reads next.   *)
(* A node gathers in internal_count what head_ had counted when the node   *)
(* was popped, less the viewers that have left.                            *)
(*                                                                         *)
(* A step is one access to head_, or to a node; a load whose value only    *)
(* seeds a compare_exchange loop is part of that loop.  Addresses are used *)
(* again as soon as they are free.                                         *)
(***************************************************************************)
EXTENDS Integers, Sequences, FiniteSets

CONSTANTS Threads,
          Survivor,        \* the thread that is not stopped
          Nodes,           \* addresses
          Items,
          Programs,        \* the calls of each thread: an item to push, "TryPop" or "Clear"
          kCounts,         \* 2^16, what a count is taken modulo
          MaxCount,        \* bound: others than Survivor raise no count beyond it
          Null

CountedPtrs == [ptr : Nodes \cup {Null}, count : 0..(kCounts - 1)]
NodeRecords == [value : Items, internal_count : Int, next : CountedPtrs]

ASSUME StackAssumption ==
    /\ Survivor \in Threads
    /\ Programs \subseteq [Threads -> Seq(Items \cup {"TryPop", "Clear"})]
    /\ kCounts \in Nat \ {0, 1} /\ MaxCount \in Nat
    /\ IsFiniteSet(Nodes) /\ Null \notin Nodes \cup Items \cup NodeRecords

VARIABLES
    head_,
    node,      \* what is at an address, or Null: nothing
    pc, todo,
    view,      \* old_head of TryPop, new_head of Push
    next,      \* the next of old_head
    got,       \* what each thread has popped, in order
    destroyed

vars == <<head_, node, pc, todo, view, next, got, destroyed>>

Counted(n, c) == [ptr |-> n, count |-> c]
Increased(p) == [p EXCEPT !.count = (@ + 1) % kCounts]
MayView(t, p) == t = Survivor \/ p.count < MaxCount
NullPtr == Counted(Null, 0)

Init == /\ head_ = NullPtr
        /\ node = [n \in Nodes |-> Null]
        /\ pc = [t \in Threads |-> "idle"]
        /\ todo \in Programs
        /\ view = [t \in Threads |-> NullPtr]
        /\ next = [t \in Threads |-> NullPtr]
        /\ got = [t \in Threads |-> << >>]
        /\ destroyed = FALSE

Goto(t, from, to) == pc[t] = from /\ pc' = [pc EXCEPT ![t] = to]
Begins(t, calls) == todo[t] # << >> /\ Head(todo[t]) \in calls
Return(t) == todo' = [todo EXCEPT ![t] = Tail(@)]

\* What the locals hold matters no more.
Forget(t) == /\ view' = [view EXCEPT ![t] = NullPtr]
             /\ next' = [next EXCEPT ![t] = NullPtr]

\* internal_count.fetch_add, and delete when it comes to 0.
Add(n, add) ==
    LET sum == node[n].internal_count + add
    IN  node' = [node EXCEPT ![n] = IF sum = 0 THEN Null
                                    ELSE [node[n] EXCEPT !.internal_count = sum]]

------------------------------------------------------------------------------
\* Push makes its node at a free address.
Push(t) ==
    /\ Goto(t, "idle", "link")
    /\ Begins(t, Items)
    /\ \E n \in Nodes :
          /\ node[n] = Null
          /\ node' = [node EXCEPT ![n] = [value |-> Head(todo[t]), internal_count |-> 0,
                                          next |-> NullPtr]]
          /\ view' = [view EXCEPT ![t] = Counted(n, 1)]
    /\ UNCHANGED <<head_, todo, next, got, destroyed>>

\* Variant: head_ is stored, whatever it is by now.
Link_Store(t) ==
    /\ Goto(t, "link", "idle")
    /\ head_' = view[t]
    /\ Return(t)
    /\ Forget(t)
    /\ UNCHANGED <<node, got, destroyed>>

\* The compare_exchange loop; the node keeps the count of the old head.
Link(t) ==
    /\ Goto(t, "link", "idle")
    /\ node' = [node EXCEPT ![view[t].ptr].next = head_]
    /\ head_' = view[t]
    /\ Return(t)
    /\ Forget(t)
    /\ UNCHANGED <<got, destroyed>>

------------------------------------------------------------------------------
\* Variant: without the test for nullptr.
ViewHead_Untested(t) ==
    /\ Goto(t, "idle", "loadNext")
    /\ Begins(t, {"TryPop", "Clear"})
    /\ MayView(t, head_)
    /\ head_' = Increased(head_)
    /\ view' = [view EXCEPT ![t] = head_']
    /\ UNCHANGED <<node, todo, next, got, destroyed>>

\* TryPop, or Clear, calls IncreaseExternalCount, ...
ViewHead(t) ==
    /\ Goto(t, "idle", "loadNext")
    /\ Begins(t, {"TryPop", "Clear"})
    /\ head_.ptr # Null
    /\ MayView(t, head_)
    /\ head_' = Increased(head_)
    /\ view' = [view EXCEPT ![t] = head_']
    /\ UNCHANGED <<node, todo, next, got, destroyed>>

\* ... also of a head_ that is nullptr; it then returns.
FindsNothing(t) ==
    /\ Goto(t, "idle", "idle")
    /\ Begins(t, {"TryPop", "Clear"})
    /\ head_.ptr = Null
    /\ MayView(t, head_)
    /\ head_' = Increased(head_)
    /\ Return(t)
    /\ UNCHANGED <<node, view, next, got, destroyed>>

LoadNext(t) ==
    /\ Goto(t, "loadNext", "swing")
    /\ next' = [next EXCEPT ![t] = node[view[t].ptr].next]
    /\ UNCHANGED <<head_, node, todo, view, got, destroyed>>

\* Variant: only the address is compared.
Swing_Address(t) ==
    /\ Goto(t, "swing", IF head_.ptr = view[t].ptr THEN "read" ELSE "leave")
    /\ head_' = IF head_.ptr = view[t].ptr THEN next[t] ELSE head_
    /\ UNCHANGED <<node, todo, view, next, got, destroyed>>

\* The compare_exchange of head_, address and count.
Swing(t) ==
    /\ Goto(t, "swing", IF head_ = view[t] THEN "read" ELSE "leave")
    /\ head_' = IF head_ = view[t] THEN next[t] ELSE head_
    /\ UNCHANGED <<node, todo, view, next, got, destroyed>>

Read(t) ==
    /\ Goto(t, "read", "release")
    /\ got' = [got EXCEPT ![t] = Append(@, node[view[t].ptr].value)]
    /\ UNCHANGED <<head_, node, todo, view, next, destroyed>>

\* Variant: the thread that pops waits until no other looks at the node.
Release_Wait(t) ==
    LET n == view[t].ptr
        add == view[t].count - 2
    IN  /\ Goto(t, "release", "idle")
        /\ node[n].internal_count + add = 0
        /\ Add(n, add)
        /\ IF Head(todo[t]) = "TryPop" THEN Return(t) ELSE UNCHANGED todo
        /\ Forget(t)
        /\ UNCHANGED <<head_, got, destroyed>>

\* All viewers of head_ but this one are added; Clear goes on.
Release(t) ==
    /\ Goto(t, "release", "idle")
    /\ Add(view[t].ptr, view[t].count - 2)
    /\ IF Head(todo[t]) = "TryPop" THEN Return(t) ELSE UNCHANGED todo
    /\ Forget(t)
    /\ UNCHANGED <<head_, got, destroyed>>

\* Somebody else has changed head_: this viewer leaves and tries again.
Leave(t) ==
    /\ Goto(t, "leave", "idle")
    /\ Add(view[t].ptr, -1)
    /\ Forget(t)
    /\ UNCHANGED <<head_, todo, got, destroyed>>

\* The nodes of the stack, from head_ on.
List == LET at[i \in 1..Cardinality(Nodes) + 1] ==
                IF i = 1 THEN head_.ptr
                ELSE IF at[i-1] = Null \/ node[at[i-1]] = Null THEN Null
                ELSE node[at[i-1]].next.ptr
        IN  at
InList == {i \in DOMAIN List : List[i] # Null}

\* ~Stack, when no thread uses the stack any more.
Destroy ==
    /\ \A t \in Threads : pc[t] = "idle" /\ todo[t] = << >>
    /\ ~destroyed
    /\ destroyed' = TRUE
    /\ node' = [n \in Nodes |-> IF \E i \in InList : List[i] = n THEN Null ELSE node[n]]
    /\ UNCHANGED <<head_, pc, todo, view, next, got>>

Step(t) == \/ Push(t) \/ Link(t)
           \/ ViewHead(t) \/ FindsNothing(t) \/ LoadNext(t) \/ Swing(t) \/ Read(t) \/ Release(t)
           \/ Leave(t)

Next == Destroy \/ \E t \in Threads : Step(t)

Spec == Init /\ [][Next]_vars

\* One thread keeps running; the others may stop anywhere.
FairSpec == Spec /\ WF_vars(Step(Survivor))

------------------------------------------------------------------------------
TypeOK ==
    /\ head_ \in CountedPtrs
    /\ node \in [Nodes -> NodeRecords \cup {Null}]
    /\ pc \in [Threads -> {"idle", "link", "loadNext", "swing", "read", "release", "leave"}]
    /\ todo \in [Threads -> Seq(Items \cup {"TryPop", "Clear"})]
    /\ view \in [Threads -> CountedPtrs]
    /\ \A t \in Threads : pc[t] # "idle" => view[t].ptr # Null
    /\ next \in [Threads -> CountedPtrs]
    /\ got \in [Threads -> Seq(Items)]
    /\ destroyed \in BOOLEAN

\* "when internal + external == 0 we can delete node": nobody looks at a node
\* that has been deleted, no node of the stack has been deleted, and in the end
\* every node has been, by the last one who looked at it or by ~Stack.
OnlyLiveNodes ==
    /\ ~destroyed => \A i \in InList : node[List[i]] # Null
    /\ \A t \in Threads :
          pc[t] \in {"link", "loadNext", "swing", "read", "release", "leave"}
              => node[view[t].ptr] # Null
NothingLeaks == destroyed => \A n \in Nodes : node[n] = Null
NodesReclaimed == OnlyLiveNodes /\ NothingLeaks

\* The stack is a LIFO: a Push and a TryPop take effect when they change head_,
\* however nodes are used again in between.  Only ~Stack drops what is left.
Popping(t) == IF pc[t] = "read" THEN << node[view[t].ptr].value >> ELSE << >>
Lifo == INSTANCE LifoStack
            WITH items <- IF destroyed THEN << >>
                          ELSE [i \in 1..Cardinality(InList) |-> node[List[i]].value],
                 got <- [t \in Threads |-> got[t] \o Popping(t)]
ImplementsLifo == Lifo!Init /\ [][Lifo!Next \/ Destroy]_(Lifo!vars)

\* The stack is lock-free: a thread finishes its calls although others stop in
\* the middle of theirs.
SurvivorFinishes == <>(pc[Survivor] = "idle" /\ todo[Survivor] = << >>)
=============================================================================
