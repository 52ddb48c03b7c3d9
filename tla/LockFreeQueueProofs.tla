------------------------ MODULE LockFreeQueueProofs ------------------------
(***************************************************************************)
(* Proofs about LockFree::Queue for any threads, addresses and calls: the  *)
(* last viewer of a node deletes it, the queue is a FIFO although          *)
(* addresses are used again, and TryPop finds nothing only in an empty     *)
(* queue.                                                                  *)
(*                                                                         *)
(* The counts have 16 bits.  CountsFit says of an execution that no node   *)
(* is viewed so often through head_ or through tail_ that a count wraps    *)
(* around; the theorems are about the executions in which it holds         *)
(* throughout.                                                             *)
(*                                                                         *)
(* The inductive invariant numbers the nodes that have been linked: b[lo]  *)
(* is the one in head_, b[k] the one in tail_ and b[hi] the last.  Each    *)
(* node owes internal_count a part for its pointer in the list and one for *)
(* its pointer in tail_ until the thread that has replaced that pointer    *)
(* releases it, and the three add up to the number of its users.           *)
(***************************************************************************)
EXTENDS LockFreeQueue, SequenceFacts, TLAPS

CountsFit == head_.count + 1 < kCounts /\ tail_.count + 1 < kCounts

PopView == {"loadTail", "loadNextHead", "help", "releaseHelped", "swingHead", "read",
            "releaseHead", "empty", "again"}
HeadReleasing == {"read", "releaseHead"}
TailReleasing == {"releaseTail", "releaseHelped"}

\* Who has been counted for a node: those that look at it, and the thread that
\* takes its value.
Viewers(n) == {t \in Threads : pc[t] \in Viewing /\ view[t].ptr = n}
Takers(n) == {t \in Threads : pc[t] \in HeadReleasing /\ next[t].ptr = n}
Users(n) == Cardinality(Viewers(n)) + Cardinality(Takers(n))
FiniteInv == \A n \in Nodes : IsFiniteSet(Viewers(n)) /\ IsFiniteSet(Takers(n))

\* The nodes that are not in the list yet.
News == {n \in Nodes : \E t \in Threads : new[t] = n}
NewNodeInv(n) ==
    /\ node[n] # Null
    /\ node[n].internal_count = 2 * kOneCounter /\ node[n].next = NullPtr
    /\ node[n].value \in Items
    /\ Viewers(n) = {} /\ Takers(n) = {}
NewInv == /\ \A n \in News : NewNodeInv(n)
          /\ \A t \in Threads : \A u \in Threads : new[t] = new[u] /\ new[t] # Null => t = u

\* Each pointer is replaced once.
ReleaseInv ==
    \A t \in Threads : \A u \in Threads :
        view[t].ptr = view[u].ptr =>
            /\ pc[t] \in HeadReleasing /\ pc[u] \in HeadReleasing => t = u
            /\ pc[t] \in TailReleasing /\ pc[u] \in TailReleasing => t = u

\* The nodes from head_ on; those behind head_, and behind tail_.
Linked(b, lo, hi, h, nodes) ==
    /\ b \in [lo..hi -> Nodes] /\ lo <= hi /\ b[lo] = h
    /\ \A i \in lo..hi : nodes[b[i]] # Null
    /\ \A i \in lo..(hi-1) : nodes[b[i]].next = Counted(b[i+1], 1)
    /\ nodes[b[hi]].next = NullPtr
    /\ \A i \in (lo+1)..hi : nodes[b[i]].value \in Items
    /\ \A i \in lo..hi : \A j \in lo..hi : b[i] = b[j] => i = j
Chain(b, lo, k, hi) ==
    /\ Linked(b, lo, hi, head_.ptr, node)
    /\ k \in lo..hi /\ b[k] = tail_.ptr
    /\ \A i \in lo..hi : b[i] \notin News
Behind(b, i, hi) == {b[j] : j \in (i+1)..hi}

\* What a node owes to internal_count for its pointer in the list, A being the
\* nodes behind head_, ...
HeadOwes(A, n, owed) ==
    /\ n \in A => owed = -kOneCounter
    /\ head_.ptr = n => owed = head_.count - 1 - kOneCounter
    /\ \A t \in Viewers(n) : pc[t] \in HeadReleasing => owed = view[t].count - 1 - kOneCounter
    /\ n \notin A /\ head_.ptr # n /\ (\A t \in Viewers(n) : pc[t] \notin HeadReleasing)
          => owed = 0

\* ... and for its pointer in tail_, B being the nodes behind tail_.
Replaced(t) == IF pc[t] = "releaseHelped" THEN tail[t].count ELSE view[t].count
TailOwes(B, n, owed) ==
    /\ n \in B => owed = -kOneCounter
    /\ tail_.ptr = n => owed = tail_.count - 1 - kOneCounter
    /\ \A t \in Viewers(n) : pc[t] \in TailReleasing => owed = Replaced(t) - 1 - kOneCounter
    /\ n \notin B /\ tail_.ptr # n /\ (\A t \in Viewers(n) : pc[t] \notin TailReleasing)
          => owed = 0

Owes(A, B, n, h, l) ==
    /\ HeadOwes(A, n, h) /\ TailOwes(B, n, l)
    /\ node[n].internal_count + h + l = Users(n)
NodeInv(A, B, n) ==
    node[n] # Null /\ n \notin News =>
        /\ node[n].internal_count > 0
        /\ n \notin A /\ head_.ptr # n => node[n].next # NullPtr
        /\ \E h \in Int : \E l \in Int : Owes(A, B, n, h, l)

\* What is true of a node n that t looks at, and of one whose value it takes.
Views(A, B, t, n) ==
    /\ node[n] # Null /\ n \notin News
    /\ pc[t] = "loadNext" => node[n].next # NullPtr
    /\ pc[t] \in {"swing", "help", "swingHead", "read", "releaseHead"} =>
          next[t] = node[n].next /\ next[t] # NullPtr
    /\ pc[t] \in TailReleasing => n \notin B /\ tail_.ptr # n
    /\ pc[t] \in HeadReleasing => head_.ptr # n
    /\ pc[t] \in PopView => n \notin A
    /\ pc[t] \in {"help", "releaseHelped"} => tail[t].ptr = n
    /\ pc[t] = "swingHead" => tail[t].ptr # n
    /\ pc[t] \in {"loadNextHead", "swingHead"} /\ tail[t].ptr # n =>
          /\ node[n].next # NullPtr
          /\ head_.ptr = n => tail_.ptr # n
Takes(A, n) == node[n] # Null /\ n \notin A /\ n \notin News /\ node[n].value \in Items

ThreadOK(A, B, t) ==
    /\ pc[t] \in {"idle", "viewHead"} \cup PopView => new[t] = Null
    /\ pc[t] \in {"viewTail", "link", "loadNext"} => new[t] # Null
    /\ pc[t] \in Viewing => view[t].ptr \in Nodes
    /\ pc[t] \in HeadReleasing => next[t].ptr \in Nodes
    /\ \A n \in Nodes : t \in Viewers(n) => Views(A, B, t, n)
    /\ \A n \in Nodes : t \in Takers(n) => Takes(A, n)

Inv(A, B) == (\A t \in Threads : ThreadOK(A, B, t)) /\ \A n \in Nodes : NodeInv(A, B, n)

Shape(b, lo, k, hi) ==
    Chain(b, lo, k, hi) /\ Inv(Behind(b, lo, hi), Behind(b, k, hi))

Gone == /\ \A t \in Threads : pc[t] = "idle" /\ todo[t] = << >>
        /\ \A n \in Nodes : node[n] = Null

IInv == /\ TypeOK /\ FiniteInv /\ NewInv /\ ReleaseInv
        /\ head_ = NullPtr => Gone
        /\ head_ # NullPtr => \E lo \in Nat : \E k \in Nat : \E hi \in Nat :
                                  \E b \in [lo..hi -> Nodes] : Shape(b, lo, k, hi)

------------------------------------------------------------------------------
\* Types.

LEMMA Constants ==
    /\ IsFiniteSet(Nodes) /\ Null \notin Nodes \cup Items \cup NodeRecords
    /\ kCounts \in Nat /\ kCounts > 2 /\ kOneCounter \in Nat /\ kCounts <= kOneCounter
    /\ Programs \subseteq [Threads -> Seq(Items \cup {"TryPop"})]
    /\ NullPtr \in CountedPtrs /\ NullPtr.ptr = Null /\ NullPtr.count = 0
    /\ \A n \in Nodes : Counted(n, 1) \in CountedPtrs /\ Counted(n, 1).ptr = n
                        /\ Counted(n, 1).count = 1
  BY QueueAssumption DEF CountedPtrs, NullPtr, Counted

LEMMA Counting ==
    ASSUME NEW p \in CountedPtrs
    PROVE  /\ Increased(p) \in CountedPtrs /\ Increased(p).ptr = p.ptr
           /\ p.count + 1 < kCounts => Increased(p).count = p.count + 1
           /\ p.ptr \in Nodes \cup {Null} /\ p.count \in Nat /\ p.count < kCounts
           /\ p.ptr = Null \/ p # NullPtr
  <1>1. p.count \in 0..(kCounts - 1) /\ p.ptr \in Nodes \cup {Null}
    BY DEF CountedPtrs
  <1>2. (p.count + 1) % kCounts \in 0..(kCounts - 1)
    <2>1. p.count + 1 \in Nat /\ kCounts \in Nat \ {0}
      BY <1>1, Constants
    <2>2. QED
      BY <2>1
  <1>3. p.count + 1 < kCounts => (p.count + 1) % kCounts = p.count + 1
    <2>1. p.count + 1 \in Nat /\ kCounts \in Nat \ {0}
      BY <1>1, Constants
    <2>2. QED
      BY <2>1
  <1>4. Increased(p) = [p EXCEPT !.count = (p.count + 1) % kCounts]
    BY DEF Increased
  <1>5. p.count \in Nat /\ p.count < kCounts
    BY <1>1, Constants
  <1>6. p.ptr = Null \/ p # NullPtr
    BY Constants
  <1>7. QED
    BY <1>1, <1>2, <1>3, <1>4, <1>5, <1>6 DEF CountedPtrs

LEMMA NodeType ==
    ASSUME TypeOK, NEW n \in Nodes, node[n] # Null
    PROVE  /\ node[n] \in NodeRecords
           /\ node[n].value \in Items \cup {Null} /\ node[n].internal_count \in Int
           /\ node[n].next \in CountedPtrs
  BY DEF TypeOK, NodeRecords

LEMMA Adding ==
    ASSUME TypeOK, NEW n \in Nodes, node[n] # Null, NEW a \in Int, Add(n, a)
    PROVE  /\ node' \in [Nodes -> NodeRecords \cup {Null}]
           /\ \A m \in Nodes : m # n => node'[m] = node[m]
           /\ node[n].internal_count + a = 0 => node'[n] = Null
           /\ node[n].internal_count + a # 0 =>
                 /\ node'[n] # Null
                 /\ node'[n].internal_count = node[n].internal_count + a
                 /\ node'[n].next = node[n].next /\ node'[n].value = node[n].value
  <1>1. /\ node[n] \in NodeRecords
        /\ node \in [Nodes -> NodeRecords \cup {Null}]
    BY NodeType DEF TypeOK
  <1>2. PICK r : r = [node[n] EXCEPT !.internal_count = node[n].internal_count + a]
    OBVIOUS
  <1>3. /\ r \in NodeRecords
        /\ r.internal_count = node[n].internal_count + a
        /\ r.next = node[n].next /\ r.value = node[n].value
    BY <1>1, <1>2 DEF NodeRecords
  <1>4. node' = [node EXCEPT ![n] = IF node[n].internal_count + a = 0 THEN Null ELSE r]
    BY <1>2 DEF Add
  <1>5. r # Null
    BY <1>3, Constants
  <1>6. QED
    BY <1>1, <1>3, <1>4, <1>5

\* The next of a node is stored.
LEMMA Linking ==
    ASSUME TypeOK, NEW n \in Nodes, node[n] # Null, NEW p \in CountedPtrs,
           node' = [node EXCEPT ![n].next = p]
    PROVE  /\ node' \in [Nodes -> NodeRecords \cup {Null}]
           /\ \A m \in Nodes : m # n => node'[m] = node[m]
           /\ node'[n] # Null /\ node'[n].next = p
           /\ node'[n].internal_count = node[n].internal_count
           /\ node'[n].value = node[n].value
  <1>1. /\ node[n] \in NodeRecords
        /\ node \in [Nodes -> NodeRecords \cup {Null}]
    BY NodeType DEF TypeOK
  <1>2. PICK r : r = [node[n] EXCEPT !.next = p]
    OBVIOUS
  <1>3. /\ r \in NodeRecords /\ r.next = p
        /\ r.internal_count = node[n].internal_count /\ r.value = node[n].value
    BY <1>1, <1>2 DEF NodeRecords
  <1>4. node' = [node EXCEPT ![n] = r]
    BY <1>1, <1>2
  <1>5. r # Null
    BY <1>3, Constants
  <1>6. QED
    BY <1>1, <1>3, <1>4, <1>5

\* While a thread is in the middle of a call, there is a list.
LEMMA InUse ==
    ASSUME IInv, NEW t \in Threads, pc[t] # "idle" \/ todo[t] # << >>
    PROVE  /\ head_ # NullPtr
           /\ \E lo \in Nat : \E k \in Nat : \E hi \in Nat :
                 \E b \in [lo..hi -> Nodes] : Shape(b, lo, k, hi)
           /\ \E A : \E B : Inv(A, B)
  BY DEF IInv, Gone, Shape

LEMMA LookedAt ==
    ASSUME IInv, NEW t \in Threads, pc[t] \in Viewing
    PROVE  \E n \in Nodes : view[t].ptr = n /\ t \in Viewers(n) /\ node[n] # Null
  <1>1. pc[t] # "idle"
    BY DEF Viewing
  <1>2. PICK A, B : Inv(A, B)
    BY <1>1, InUse
  <1>3. view[t].ptr \in Nodes
    BY <1>2 DEF Inv, ThreadOK
  <1>4. PICK n \in Nodes : n = view[t].ptr
    BY <1>3
  <1>5. t \in Viewers(n)
    BY <1>4 DEF Viewers
  <1>6. node[n] # Null
    BY <1>2, <1>5 DEF Inv, ThreadOK, Views
  <1>7. QED
    BY <1>4, <1>5, <1>6

LEMMA Calling ==
    ASSUME TypeOK, NEW t \in Threads, NEW S, Calls(t, S)
    PROVE  todo' \in [Threads -> Seq(Items \cup {"TryPop"})]
  <1>1. todo[t] \in Seq(Items \cup {"TryPop"}) /\ todo[t] # << >>
    BY DEF TypeOK, Calls
  <1>2. Tail(todo[t]) \in Seq(Items \cup {"TryPop"})
    BY <1>1
  <1>3. QED
    BY <1>2 DEF TypeOK, Calls

\* A step of t leaves what is local to the others.
Others(t) == \A u \in Threads \ {t} :
    /\ pc'[u] = pc[u] /\ view'[u] = view[u] /\ tail'[u] = tail[u]
    /\ next'[u] = next[u] /\ new'[u] = new[u] /\ got'[u] = got[u]

LEMMA OthersKept ==
    ASSUME TypeOK, NEW t \in Threads, Step(t)
    PROVE  Others(t)
  <1>1. CASE Push(t) \/ ViewTail(t) \/ Link(t) \/ LoadNextTail(t)
    BY <1>1 DEF Push, ViewTail, Link, LoadNextTail, Goto, Others, TypeOK, locals
  <1>2. CASE Swing(t) \/ ReleaseTail(t) \/ TryPop(t) \/ ViewHead(t)
    BY <1>2 DEF Swing, ReleaseTail, TryPop, ViewHead, Goto, Others, TypeOK, locals
  <1>3. CASE LoadTail(t) \/ LoadNextHead(t) \/ Help(t) \/ ReleaseHelped(t)
    BY <1>3 DEF LoadTail, LoadNextHead, Help, ReleaseHelped, Goto, Others, TypeOK, locals
  <1>4. CASE SwingHead(t) \/ Read(t) \/ ReleaseHead(t) \/ ReleaseRef(t)
    BY <1>4 DEF SwingHead, Read, ReleaseHead, ReleaseRef, Goto, Others, TypeOK, locals
  <1>5. QED
    BY <1>1, <1>2, <1>3, <1>4 DEF Step

\* What the thread that releases a counted pointer adds to internal_count.
LEMMA Releasing ==
    ASSUME TypeOK, NEW t \in Threads
    PROVE  /\ ReleaseTail(t) \/ ReleaseHead(t) =>
                \E a \in Int : a = view[t].count - 2 - kOneCounter /\ Add(view[t].ptr, a)
           /\ ReleaseHelped(t) =>
                \E a \in Int : a = tail[t].count - 1 - kOneCounter /\ Add(tail[t].ptr, a)
           /\ ReleaseRef(t) => \E a \in Int : a = -1 /\ Add(view[t].ptr, a)
  <1>1. PICK v \in Nat, l \in Nat : v = view[t].count /\ l = tail[t].count
    <2>1. view[t].count \in Nat /\ tail[t].count \in Nat
      BY Counting DEF TypeOK
    <2>2. QED
      BY <2>1
  <1>2. v - 2 - kOneCounter + 0 = v - 2 - kOneCounter /\ v - 2 - kOneCounter \in Int
    BY Constants
  <1>3. l - 2 - kOneCounter + 1 = l - 1 - kOneCounter /\ l - 1 - kOneCounter \in Int
    BY Constants
  <1>4. ASSUME ReleaseTail(t) \/ ReleaseHead(t) PROVE Add(view[t].ptr, v - 2 - kOneCounter)
    BY <1>1, <1>2, <1>4 DEF ReleaseTail, ReleaseHead, ReleaseOneCounter
  <1>5. ASSUME ReleaseHelped(t) PROVE Add(tail[t].ptr, l - 1 - kOneCounter)
    BY <1>1, <1>3, <1>5 DEF ReleaseHelped, ReleaseOneCounter
  <1>6. ReleaseRef(t) => Add(view[t].ptr, -1) /\ -1 \in Int
    BY DEF ReleaseRef
  <1>7. QED
    BY <1>1, <1>2, <1>3, <1>4, <1>5, <1>6

LEMMA Types ==
    ASSUME IInv, Next
    PROVE  TypeOK'
  <1> DEFINE PCs == {"idle", "viewTail", "link", "swing", "loadNext", "releaseTail",
                     "viewHead", "loadTail", "loadNextHead", "help", "releaseHelped",
                     "swingHead", "read", "releaseHead", "leave", "empty", "again"}
             Todos == [Threads -> Seq(Items \cup {"TryPop"})]
             NodesType == [Nodes -> NodeRecords \cup {Null}]
  <1>0. /\ TypeOK
        /\ head_ \in CountedPtrs /\ tail_ \in CountedPtrs /\ node \in NodesType
        /\ pc \in [Threads -> PCs] /\ todo \in Todos
        /\ view \in [Threads -> CountedPtrs] /\ tail \in [Threads -> CountedPtrs]
        /\ next \in [Threads -> CountedPtrs] /\ new \in [Threads -> Nodes \cup {Null}]
        /\ got \in [Threads -> Seq(Items)]
    BY DEF TypeOK, IInv
  <1>a. ASSUME NEW t \in Threads, NEW from, NEW to, Goto(t, from, to), to \in PCs
        PROVE  pc' \in [Threads -> PCs]
    BY <1>0, <1>a DEF Goto
  <1>b. \A t \in Threads : AfterPush(t) \in PCs
    BY DEF AfterPush
  <1>1. ASSUME NEW t \in Threads, Push(t) PROVE TypeOK'
    <2>1. PICK n \in Nodes : /\ node' = [node EXCEPT ![n] = NewNode(Head(todo[t]))]
                             /\ new' = [new EXCEPT ![t] = n]
      BY <1>1 DEF Push
    <2>2. Head(todo[t]) \in Items /\ todo' \in Todos
      BY <1>0, <1>1, Calling DEF Push, Calls
    <2>3. 2 * kOneCounter \in Int
      BY Constants
    <2>4. NewNode(Head(todo[t])) \in NodeRecords
      BY <2>2, <2>3, Constants DEF NewNode, NodeRecords
    <2>5. node' \in NodesType /\ new' \in [Threads -> Nodes \cup {Null}]
      BY <1>0, <2>1, <2>4
    <2>6. pc' \in [Threads -> PCs] /\ UNCHANGED <<head_, tail_, view, tail, next, got>>
      BY <1>1, <1>a DEF Push
    <2>7. QED
      BY <1>0, <2>2, <2>5, <2>6 DEF TypeOK
  <1>2. ASSUME NEW t \in Threads, ViewTail(t) PROVE TypeOK'
    <2>1. /\ tail_' = Increased(tail_) /\ view' = [view EXCEPT ![t] = Increased(tail_)]
          /\ UNCHANGED <<head_, node, todo, tail, next, new, got>>
      BY <1>2 DEF ViewTail
    <2>2. pc' \in [Threads -> PCs] /\ Increased(tail_) \in CountedPtrs
      BY <1>0, <1>2, <1>a, Counting DEF ViewTail
    <2>3. QED
      BY <1>0, <2>1, <2>2 DEF TypeOK
  <1>3. ASSUME NEW t \in Threads, Link(t) PROVE TypeOK'
    <2>1. pc[t] = "link" /\ pc[t] \in Viewing /\ pc[t] # "idle"
      BY <1>3 DEF Link, Goto, Viewing
    <2>2. PICK m \in Nodes : view[t].ptr = m /\ node[m] # Null
      BY <2>1, LookedAt
    <2>3. PICK A, B : Inv(A, B)
      BY <2>1, InUse
    <2>4. new[t] \in Nodes
      BY <1>0, <2>1, <2>3 DEF Inv, ThreadOK
    <2>5. Counted(new[t], 1) \in CountedPtrs
      BY <2>4, Constants
    <2>6. node' \in NodesType
      <3>1. CASE At(view[t]).next = NullPtr
        BY <1>0, <1>3, <2>2, <2>5, <3>1, Linking DEF Link
      <3>2. CASE At(view[t]).next # NullPtr
        BY <1>0, <1>3, <3>2 DEF Link
      <3>3. QED
        BY <3>1, <3>2
    <2>7. next' \in [Threads -> CountedPtrs] /\ new' \in [Threads -> Nodes \cup {Null}]
      BY <1>0, <1>3, <2>5 DEF Link
    <2>8. pc' \in [Threads -> PCs] /\ UNCHANGED <<head_, tail_, todo, view, tail, got>>
      BY <1>3, <1>a DEF Link
    <2>9. QED
      BY <1>0, <2>6, <2>7, <2>8 DEF TypeOK
  <1>4. ASSUME NEW t \in Threads, LoadNextTail(t) \/ LoadNextHead(t) PROVE TypeOK'
    <2>1. pc[t] \in Viewing
      BY <1>4 DEF LoadNextTail, LoadNextHead, Goto, Viewing
    <2>2. PICK m \in Nodes : view[t].ptr = m /\ node[m] # Null
      BY <2>1, LookedAt
    <2>3. At(view[t]).next \in CountedPtrs
      BY <1>0, <2>2, NodeType DEF At
    <2>4. /\ next' = [next EXCEPT ![t] = At(view[t]).next]
          /\ UNCHANGED <<head_, tail_, node, todo, view, tail, new, got>>
      BY <1>4 DEF LoadNextTail, LoadNextHead
    <2>5. pc' \in [Threads -> PCs]
      BY <1>4, <1>a DEF LoadNextTail, LoadNextHead
    <2>6. QED
      BY <1>0, <2>3, <2>4, <2>5 DEF TypeOK
  <1>5. ASSUME NEW t \in Threads, Swing(t) \/ Help(t) PROVE TypeOK'
    <2>1. /\ tail_' \in {next[t], tail_} /\ UNCHANGED <<head_, node, todo, locals, got>>
      BY <1>5 DEF Swing, Help
    <2>2. pc' \in [Threads -> PCs]
      BY <1>5, <1>a DEF Swing, Help
    <2>3. QED
      BY <1>0, <2>1, <2>2 DEF TypeOK, locals
  <1>6. ASSUME NEW t \in Threads, SwingHead(t) PROVE TypeOK'
    <2>1. /\ head_' \in {Increased(next[t]), head_} /\ UNCHANGED <<tail_, node, todo, locals, got>>
      BY <1>6 DEF SwingHead
    <2>2. pc' \in [Threads -> PCs] /\ Increased(next[t]) \in CountedPtrs
      BY <1>0, <1>6, <1>a, Counting DEF SwingHead
    <2>3. QED
      BY <1>0, <2>1, <2>2 DEF TypeOK, locals
  <1>7. ASSUME NEW t \in Threads, TryPop(t) PROVE TypeOK'
    <2>1. todo' \in Todos /\ UNCHANGED <<head_, tail_, node, locals, got>>
      BY <1>0, <1>7, Calling DEF TryPop
    <2>2. pc' \in [Threads -> PCs]
      BY <1>7, <1>a DEF TryPop
    <2>3. QED
      BY <1>0, <2>1, <2>2 DEF TypeOK, locals
  <1>8. ASSUME NEW t \in Threads, ViewHead(t) PROVE TypeOK'
    <2>1. /\ head_' = Increased(head_) /\ view' = [view EXCEPT ![t] = Increased(head_)]
          /\ UNCHANGED <<tail_, node, todo, tail, next, new, got>>
      BY <1>8 DEF ViewHead
    <2>2. pc' \in [Threads -> PCs] /\ Increased(head_) \in CountedPtrs
      BY <1>0, <1>8, <1>a, Counting DEF ViewHead
    <2>3. QED
      BY <1>0, <2>1, <2>2 DEF TypeOK
  <1>9. ASSUME NEW t \in Threads, LoadTail(t) PROVE TypeOK'
    <2>1. /\ tail' = [tail EXCEPT ![t] = tail_]
          /\ UNCHANGED <<head_, tail_, node, todo, view, next, new, got>>
      BY <1>9 DEF LoadTail
    <2>2. pc' \in [Threads -> PCs]
      BY <1>9, <1>a DEF LoadTail
    <2>3. QED
      BY <1>0, <2>1, <2>2 DEF TypeOK
  <1>10. ASSUME NEW t \in Threads, Read(t) PROVE TypeOK'
    <2>1. pc[t] = "read" /\ pc[t] # "idle" /\ pc[t] \in HeadReleasing
      BY <1>10 DEF Read, Goto, HeadReleasing
    <2>2. PICK A, B : Inv(A, B)
      BY <2>1, InUse
    <2>3. PICK m \in Nodes : m = next[t].ptr
      BY <2>1, <2>2 DEF Inv, ThreadOK
    <2>4. t \in Takers(m)
      BY <2>1, <2>3 DEF Takers
    <2>5. At(next[t]).value \in Items
      BY <2>2, <2>3, <2>4 DEF Inv, ThreadOK, Takes, At
    <2>6. Append(got[t], At(next[t]).value) \in Seq(Items)
      BY <1>0, <2>5
    <2>7. /\ got' = [got EXCEPT ![t] = Append(got[t], At(next[t]).value)]
          /\ UNCHANGED <<head_, tail_, node, todo, locals>>
      BY <1>10 DEF Read
    <2>8. pc' \in [Threads -> PCs]
      BY <1>10, <1>a DEF Read
    <2>9. QED
      BY <1>0, <2>6, <2>7, <2>8 DEF TypeOK, locals
  <1>11. ASSUME NEW t \in Threads,
                ReleaseTail(t) \/ ReleaseHelped(t) \/ ReleaseHead(t) \/ ReleaseRef(t)
         PROVE  TypeOK'
    <2>1. pc[t] \in Viewing
      BY <1>11 DEF ReleaseTail, ReleaseHelped, ReleaseHead, ReleaseRef, Goto, Viewing
    <2>2. PICK m \in Nodes : view[t].ptr = m /\ t \in Viewers(m) /\ node[m] # Null
      BY <2>1, LookedAt
    <2>3. ReleaseHelped(t) => tail[t].ptr = m
      <3>1. ReleaseHelped(t) => pc[t] = "releaseHelped" /\ pc[t] # "idle"
        BY DEF ReleaseHelped, Goto
      <3>2. QED
        BY <2>2, <3>1, InUse DEF Inv, ThreadOK, Views
    <2>4. \E a \in Int : Add(m, a)
      BY <1>0, <1>11, <2>2, <2>3, Releasing
    <2>5. node' \in NodesType
      BY <1>0, <2>2, <2>4, Adding
    <2>6. view' \in [Threads -> CountedPtrs] /\ UNCHANGED <<head_, tail_, todo, tail, next, new, got>>
      <3>1. CASE ReleaseHead(t)
        BY <1>0, <3>1 DEF ReleaseHead
      <3>2. CASE ~ReleaseHead(t)
        BY <1>0, <1>11, <3>2 DEF ReleaseTail, ReleaseHelped, ReleaseRef, locals
      <3>3. QED
        BY <3>1, <3>2
    <2>7. pc' \in [Threads -> PCs]
      <3>1. CASE ReleaseRef(t)
        BY <1>0, <1>b, <3>1 DEF ReleaseRef
      <3>2. CASE ~ReleaseRef(t)
        BY <1>11, <1>a, <1>b, <3>2 DEF ReleaseTail, ReleaseHelped, ReleaseHead
      <3>3. QED
        BY <3>1, <3>2
    <2>8. QED
      BY <1>0, <2>5, <2>6, <2>7 DEF TypeOK
  <1>12. ASSUME Destroy PROVE TypeOK'
    <2>1. /\ head_' = NullPtr /\ tail_' = NullPtr
          /\ node' = [n \in Nodes |-> IF \E i \in InList : List[i] = n THEN Null ELSE node[n]]
          /\ UNCHANGED <<pc, todo, locals, got>>
      BY <1>12 DEF Destroy
    <2>2. node' \in NodesType
      BY <1>0, <2>1
    <2>3. QED
      BY <1>0, <2>1, <2>2, Constants DEF TypeOK, locals
  <1>13. QED
    BY <1>1, <1>2, <1>3, <1>4, <1>5, <1>6, <1>7, <1>8, <1>9, <1>10, <1>11, <1>12 DEF Next, Step

------------------------------------------------------------------------------
\* What a step leaves as it was.

LEMMA SetsAfter ==
    ASSUME NEW t \in Threads, Others(t), NEW n
    PROVE  /\ t \in Viewers(n)' => Viewers(n)' = Viewers(n) \cup {t}
           /\ t \notin Viewers(n)' => Viewers(n)' = Viewers(n) \ {t}
           /\ t \in Takers(n)' => Takers(n)' = Takers(n) \cup {t}
           /\ t \notin Takers(n)' => Takers(n)' = Takers(n) \ {t}
           /\ t \in Viewers(n) <=> pc[t] \in Viewing /\ view[t].ptr = n
           /\ t \in Viewers(n)' <=> pc'[t] \in Viewing /\ view'[t].ptr = n
           /\ t \in Takers(n) <=> pc[t] \in HeadReleasing /\ next[t].ptr = n
           /\ t \in Takers(n)' <=> pc'[t] \in HeadReleasing /\ next'[t].ptr = n
           /\ \A u \in Threads \ {t} : /\ u \in Viewers(n)' <=> u \in Viewers(n)
                                       /\ u \in Takers(n)' <=> u \in Takers(n)
  BY DEF Others, Viewers, Takers

LEMMA FiniteKept ==
    ASSUME FiniteInv, NEW t \in Threads, Others(t)
    PROVE  FiniteInv'
  <1>1. ASSUME NEW n \in Nodes PROVE IsFiniteSet(Viewers(n)') /\ IsFiniteSet(Takers(n)')
    <2>1. IsFiniteSet(Viewers(n)) /\ IsFiniteSet(Takers(n))
      BY DEF FiniteInv
    <2>2. /\ IsFiniteSet(Viewers(n) \cup {t}) /\ IsFiniteSet(Viewers(n) \ {t})
          /\ IsFiniteSet(Takers(n) \cup {t}) /\ IsFiniteSet(Takers(n) \ {t})
      BY <2>1, FS_AddElement, FS_RemoveElement
    <2>3. /\ Viewers(n)' \in {Viewers(n) \cup {t}, Viewers(n) \ {t}}
          /\ Takers(n)' \in {Takers(n) \cup {t}, Takers(n) \ {t}}
      BY SetsAfter
    <2>4. QED
      BY <2>2, <2>3
  <1>2. QED
    BY <1>1 DEF FiniteInv

\* A node that is not new stays so, and is passed by the pointers once.
Kept(A, B, C, D, n) ==
    /\ n \notin News'
    /\ n \notin A => /\ n \notin C
                     /\ head_.ptr # n => head_'.ptr # n
                     /\ tail_.ptr # n => tail_'.ptr # n
    /\ n \notin B /\ tail_.ptr # n => n \notin D /\ tail_'.ptr # n
    /\ node'[n] # Null => /\ node'[n].value = node[n].value
                          /\ \/ node'[n].next = node[n].next
                             \/ node[n].next = NullPtr /\ node'[n].next # NullPtr

LEMMA ThreadKept ==
    ASSUME NEW t \in Threads, Others(t), NEW u \in Threads \ {t},
           NEW A, NEW B, NEW C, NEW D, ThreadOK(A, B, u),
           \A n \in Nodes : node[n] # Null /\ n \notin News => Kept(A, B, C, D, n),
           \A n \in Nodes : u \in Viewers(n) \/ u \in Takers(n) => node'[n] # Null
    PROVE  ThreadOK(C, D, u)'
  <1>1. /\ pc'[u] = pc[u] /\ view'[u] = view[u] /\ tail'[u] = tail[u]
        /\ next'[u] = next[u] /\ new'[u] = new[u]
    BY DEF Others
  <1>2. ASSUME NEW n \in Nodes, u \in Viewers(n)' PROVE Views(C, D, u, n)'
    <2>1. u \in Viewers(n)
      BY <1>2, SetsAfter
    <2>2. Views(A, B, u, n) /\ node'[n] # Null
      BY <2>1 DEF ThreadOK
    <2>3. node[n] # Null /\ n \notin News /\ Kept(A, B, C, D, n)
      BY <2>2 DEF Views
    <2>4. n \notin A => /\ n \notin C
                        /\ head_.ptr # n => head_'.ptr # n
                        /\ tail_.ptr # n => tail_'.ptr # n
      BY <2>3 DEF Kept
    <2>5. pc[u] \in PopView => n \notin A /\ n \notin C
      BY <2>2, <2>4 DEF Views
    <2>6. node'[n] # Null /\ n \notin News'
      BY <2>2, <2>3 DEF Kept
    <2>7. \/ node'[n].next = node[n].next
          \/ node[n].next = NullPtr /\ node'[n].next # NullPtr
      BY <2>2, <2>3 DEF Kept
    <2>8. /\ pc'[u] = "loadNext" => node'[n].next # NullPtr
          /\ pc'[u] \in {"swing", "help", "swingHead", "read", "releaseHead"} =>
                next'[u] = node'[n].next /\ next'[u] # NullPtr
      BY <1>1, <2>2, <2>7 DEF Views
    <2>9. pc'[u] \in TailReleasing => n \notin D /\ tail_'.ptr # n
      BY <1>1, <2>2, <2>3 DEF Views, Kept
    <2>10. pc'[u] \in HeadReleasing => head_'.ptr # n
      BY <1>1, <2>2, <2>4, <2>5 DEF Views, HeadReleasing, PopView
    <2>11. /\ pc'[u] \in PopView => n \notin C
           /\ pc'[u] \in {"help", "releaseHelped"} => tail'[u].ptr = n
           /\ pc'[u] = "swingHead" => tail'[u].ptr # n
      BY <1>1, <2>2, <2>5 DEF Views
    <2>12. ASSUME pc'[u] \in {"loadNextHead", "swingHead"}, tail'[u].ptr # n
           PROVE  /\ node'[n].next # NullPtr
                  /\ head_'.ptr = n => tail_'.ptr # n
      <3>1. /\ node[n].next # NullPtr
            /\ head_.ptr = n => tail_.ptr # n
        BY <1>1, <2>2, <2>12 DEF Views
      <3>2. n \notin A
        BY <1>1, <2>5, <2>12 DEF PopView
      <3>3. QED
        BY <2>4, <2>7, <3>1, <3>2
    <2>13. QED
      BY <2>6, <2>8, <2>9, <2>10, <2>11, <2>12 DEF Views
  <1>3. ASSUME NEW n \in Nodes, u \in Takers(n)' PROVE Takes(C, n)'
    <2>1. u \in Takers(n)
      BY <1>3, SetsAfter
    <2>2. Takes(A, n) /\ node'[n] # Null
      BY <2>1 DEF ThreadOK
    <2>3. Kept(A, B, C, D, n)
      BY <2>2 DEF Takes
    <2>4. QED
      BY <2>2, <2>3 DEF Takes, Kept
  <1>4. QED
    BY <1>1, <1>2, <1>3 DEF ThreadOK

\* Whether u replaces n's pointer in the list, or in tail_, is the same.
AlikeHead(u, n) ==
    /\ u \in Viewers(n)' /\ pc'[u] \in HeadReleasing <=> u \in Viewers(n) /\ pc[u] \in HeadReleasing
    /\ u \in Viewers(n) /\ pc[u] \in HeadReleasing => view'[u].count = view[u].count
AlikeTail(u, n) ==
    /\ u \in Viewers(n)' /\ pc'[u] \in TailReleasing <=> u \in Viewers(n) /\ pc[u] \in TailReleasing
    /\ u \in Viewers(n) /\ pc[u] \in TailReleasing => Replaced(u)' = Replaced(u)

\* u stands to n as before.
Alike(u, n) ==
    /\ u \in Viewers(n)' <=> u \in Viewers(n)
    /\ u \in Takers(n)' <=> u \in Takers(n)
    /\ AlikeHead(u, n) /\ AlikeTail(u, n)

LEMMA OthersAlike ==
    ASSUME NEW t \in Threads, Others(t), NEW u \in Threads \ {t}, NEW n
    PROVE  Alike(u, n)
  <1>1. /\ pc'[u] = pc[u] /\ view'[u] = view[u] /\ tail'[u] = tail[u]
    BY DEF Others
  <1>2. Replaced(u)' = Replaced(u)
    BY <1>1 DEF Replaced
  <1>3. QED
    BY <1>1, <1>2, SetsAfter DEF Alike, AlikeHead, AlikeTail

LEMMA SameHeadOwes ==
    ASSUME NEW A, NEW C, NEW n, NEW h, HeadOwes(A, n, h), n \in C <=> n \in A,
           head_.ptr = n \/ head_'.ptr = n => head_' = head_,
           \A u \in Threads : AlikeHead(u, n)
    PROVE  HeadOwes(C, n, h)'
  <1>1. \A u : u \in Viewers(n) \/ u \in Viewers(n)' => u \in Threads
    BY DEF Viewers
  <1>2. \A u \in Viewers(n)' : pc'[u] \in HeadReleasing =>
            u \in Viewers(n) /\ pc[u] \in HeadReleasing /\ view'[u].count = view[u].count
    BY <1>1 DEF AlikeHead
  <1>3. \A u \in Viewers(n) : pc[u] \in HeadReleasing =>
            u \in Viewers(n)' /\ pc'[u] \in HeadReleasing
    BY <1>1 DEF AlikeHead
  <1>4. QED
    BY <1>2, <1>3 DEF HeadOwes

LEMMA SameTailOwes ==
    ASSUME NEW B, NEW D, NEW n, NEW l, TailOwes(B, n, l), n \in D <=> n \in B,
           tail_.ptr = n \/ tail_'.ptr = n => tail_' = tail_,
           \A u \in Threads : AlikeTail(u, n)
    PROVE  TailOwes(D, n, l)'
  <1>1. \A u : u \in Viewers(n) \/ u \in Viewers(n)' => u \in Threads
    BY DEF Viewers
  <1>2. \A u \in Viewers(n)' : pc'[u] \in TailReleasing =>
            u \in Viewers(n) /\ pc[u] \in TailReleasing /\ Replaced(u)' = Replaced(u)
    BY <1>1 DEF AlikeTail
  <1>3. \A u \in Viewers(n) : pc[u] \in TailReleasing =>
            u \in Viewers(n)' /\ pc'[u] \in TailReleasing
    BY <1>1 DEF AlikeTail
  <1>4. QED
    BY <1>2, <1>3 DEF TailOwes

LEMMA SameUsers ==
    ASSUME NEW n, \A u \in Threads : Alike(u, n)
    PROVE  Viewers(n)' = Viewers(n) /\ Takers(n)' = Takers(n) /\ Users(n)' = Users(n)
  <1>1. \A u : u \in Viewers(n) \/ u \in Viewers(n)' \/ u \in Takers(n) \/ u \in Takers(n)'
                  => u \in Threads
    BY DEF Viewers, Takers
  <1>2. Viewers(n)' = Viewers(n) /\ Takers(n)' = Takers(n)
    BY <1>1 DEF Alike
  <1>3. QED
    BY <1>2 DEF Users

\* A node with which the step has nothing to do.
LEMMA NodeKept ==
    ASSUME NEW n \in Nodes, NEW A, NEW B, NEW C, NEW D, NodeInv(A, B, n),
           node'[n] # Null => /\ node[n] # Null
                              /\ node'[n].internal_count = node[n].internal_count
                              /\ node[n].next # NullPtr => node'[n].next # NullPtr,
           n \in News' <=> n \in News,
           n \in C <=> n \in A, n \in D <=> n \in B,
           head_.ptr = n \/ head_'.ptr = n => head_' = head_,
           tail_.ptr = n \/ tail_'.ptr = n => tail_' = tail_,
           \A u \in Threads : Alike(u, n)
    PROVE  NodeInv(C, D, n)'
  <1>1. CASE node'[n] = Null \/ n \in News'
    BY <1>1 DEF NodeInv
  <1>2. CASE node'[n] # Null /\ n \notin News'
    <2>1. /\ node[n].internal_count > 0
          /\ n \notin A /\ head_.ptr # n => node[n].next # NullPtr
          /\ \E h \in Int : \E l \in Int : Owes(A, B, n, h, l)
      BY <1>2 DEF NodeInv
    <2>2. PICK h \in Int, l \in Int : Owes(A, B, n, h, l)
      BY <2>1
    <2>3. HeadOwes(C, n, h)' /\ TailOwes(D, n, l)' /\ Users(n)' = Users(n)
      <3>1. \A u \in Threads : AlikeHead(u, n) /\ AlikeTail(u, n)
        BY DEF Alike
      <3>2. QED
        BY <2>2, <3>1, SameHeadOwes, SameTailOwes, SameUsers DEF Owes
    <2>4. Owes(C, D, n, h, l)'
      BY <1>2, <2>2, <2>3 DEF Owes
    <2>5. n \notin C /\ head_'.ptr # n => node'[n].next # NullPtr
      BY <1>2, <2>1
    <2>6. QED
      BY <1>2, <2>1, <2>4, <2>5 DEF NodeInv
  <1>3. QED
    BY <1>1, <1>2

\* What is owed is not positive, and 0 only if there is nothing to release.
LEMMA Owed ==
    \A A : \A n \in Nodes : \A i \in Int :
        TypeOK =>
            /\ HeadOwes(A, n, i) =>
                  /\ i <= 0
                  /\ i = 0 => n \notin A /\ head_.ptr # n
                              /\ \A t \in Viewers(n) : pc[t] \notin HeadReleasing
            /\ TailOwes(A, n, i) =>
                  /\ i <= 0
                  /\ i = 0 => n \notin A /\ tail_.ptr # n
                              /\ \A t \in Viewers(n) : pc[t] \notin TailReleasing
  <1> SUFFICES ASSUME NEW A, NEW n \in Nodes, NEW i \in Int, TypeOK
               PROVE  /\ HeadOwes(A, n, i) =>
                          /\ i <= 0
                          /\ i = 0 => n \notin A /\ head_.ptr # n
                                      /\ \A t \in Viewers(n) : pc[t] \notin HeadReleasing
                      /\ TailOwes(A, n, i) =>
                          /\ i <= 0
                          /\ i = 0 => n \notin A /\ tail_.ptr # n
                                      /\ \A t \in Viewers(n) : pc[t] \notin TailReleasing
    OBVIOUS
  <1>1. -kOneCounter \in Int /\ -kOneCounter < 0
    BY Constants
  <1>2. ASSUME NEW p \in CountedPtrs PROVE p.count - 1 - kOneCounter < 0
    <2>1. PICK c \in Nat : c = p.count /\ c < kCounts
      BY Counting
    <2>2. c - 1 - kOneCounter < 0
      BY <2>1, Constants
    <2>3. QED
      BY <2>1, <2>2
  <1>3. /\ head_ \in CountedPtrs /\ tail_ \in CountedPtrs
        /\ \A t \in Threads : view[t] \in CountedPtrs /\ tail[t] \in CountedPtrs
    BY DEF TypeOK
  <1>4. /\ head_.count - 1 - kOneCounter < 0 /\ tail_.count - 1 - kOneCounter < 0
        /\ \A t \in Viewers(n) : /\ view[t].count - 1 - kOneCounter < 0
                                 /\ Replaced(t) - 1 - kOneCounter < 0
    <2>1. \A t \in Viewers(n) : t \in Threads
      BY DEF Viewers
    <2>2. QED
      BY <1>2, <1>3, <2>1 DEF Replaced
  <1>5. ASSUME HeadOwes(A, n, i)
        PROVE  /\ i <= 0
               /\ i = 0 => n \notin A /\ head_.ptr # n
                           /\ \A t \in Viewers(n) : pc[t] \notin HeadReleasing
    <2>1. CASE n \in A \/ head_.ptr = n \/ \E t \in Viewers(n) : pc[t] \in HeadReleasing
      <3>1. i < 0
        BY <1>1, <1>4, <1>5, <2>1 DEF HeadOwes
      <3>2. QED
        BY <3>1
    <2>2. CASE ~(n \in A \/ head_.ptr = n \/ \E t \in Viewers(n) : pc[t] \in HeadReleasing)
      BY <1>5, <2>2 DEF HeadOwes
    <2>3. QED
      BY <2>1, <2>2
  <1>6. ASSUME TailOwes(A, n, i)
        PROVE  /\ i <= 0
               /\ i = 0 => n \notin A /\ tail_.ptr # n
                           /\ \A t \in Viewers(n) : pc[t] \notin TailReleasing
    <2>1. CASE n \in A \/ tail_.ptr = n \/ \E t \in Viewers(n) : pc[t] \in TailReleasing
      <3>1. i < 0
        BY <1>1, <1>4, <1>6, <2>1 DEF TailOwes
      <3>2. QED
        BY <3>1
    <2>2. CASE ~(n \in A \/ tail_.ptr = n \/ \E t \in Viewers(n) : pc[t] \in TailReleasing)
      BY <1>6, <2>2 DEF TailOwes
    <2>3. QED
      BY <2>1, <2>2
  <1>7. QED
    BY <1>5, <1>6

\* The same after a step.
LEMMA OwedNext ==
    (\A A : \A n \in Nodes : \A i \in Int :
        TypeOK =>
            /\ HeadOwes(A, n, i) =>
                  /\ i <= 0
                  /\ i = 0 => n \notin A /\ head_.ptr # n
                              /\ \A t \in Viewers(n) : pc[t] \notin HeadReleasing
            /\ TailOwes(A, n, i) =>
                  /\ i <= 0
                  /\ i = 0 => n \notin A /\ tail_.ptr # n
                              /\ \A t \in Viewers(n) : pc[t] \notin TailReleasing)'
  BY Owed, PTL

\* No node is made, and t takes no look at a new one.
LEMMA NewsKept ==
    ASSUME NEW t \in Threads, Others(t), NewInv, new'[t] \in {new[t], Null},
           \A n \in News : node'[n] = node[n] /\ t \notin Viewers(n)' /\ t \notin Takers(n)'
    PROVE  NewInv' /\ News' = {n \in News : new'[t] = new[t] \/ n # new[t]}
  <1>1. \A u \in Threads : new'[u] = new[u] \/ (u = t /\ new'[u] = Null)
    BY DEF Others
  <1>2. News' = {n \in News : new'[t] = new[t] \/ n # new[t]}
    <2>1. ASSUME NEW n \in News' PROVE n \in News /\ (new'[t] = new[t] \/ n # new[t])
      <3>1. PICK u \in Threads : new'[u] = n /\ n \in Nodes
        BY DEF News
      <3>2. new[u] = n
        BY <1>1, <3>1, Constants
      <3>3. n \in News
        BY <3>1, <3>2 DEF News
      <3>4. n # Null
        BY <3>1, Constants
      <3>5. new[t] = n => u = t
        BY <3>2, <3>4 DEF NewInv
      <3>6. QED
        BY <3>1, <3>2, <3>3, <3>5
    <2>2. ASSUME NEW n \in News, new'[t] = new[t] \/ n # new[t] PROVE n \in News'
      <3>1. PICK u \in Threads : new[u] = n /\ n \in Nodes
        BY DEF News
      <3>2. new'[u] = n
        BY <1>1, <2>2, <3>1 DEF Others
      <3>3. QED
        BY <3>1, <3>2 DEF News
    <2>3. QED
      BY <2>1, <2>2
  <1>3. ASSUME NEW n \in News' PROVE NewNodeInv(n)'
    <2>1. n \in News /\ NewNodeInv(n)
      BY <1>2 DEF NewInv
    <2>2. node'[n] = node[n] /\ t \notin Viewers(n)' /\ t \notin Takers(n)'
      BY <2>1
    <2>3. Viewers(n)' = {} /\ Takers(n)' = {}
      BY <2>1, <2>2, SetsAfter DEF NewNodeInv
    <2>4. QED
      BY <2>1, <2>2, <2>3 DEF NewNodeInv
  <1>4. QED
    BY <1>1, <1>2, <1>3 DEF NewInv

\* t begins to replace a pointer only where nobody else does.
LEMMA ReleaseKept ==
    ASSUME NEW t \in Threads, Others(t), ReleaseInv,
           pc'[t] \in HeadReleasing =>
              /\ view'[t].ptr = view[t].ptr
              /\ \/ pc[t] \in HeadReleasing
                 \/ \A u \in Viewers(view[t].ptr) : pc[u] \notin HeadReleasing,
           pc'[t] \in TailReleasing =>
              /\ view'[t].ptr = view[t].ptr
              /\ \/ pc[t] \in TailReleasing
                 \/ \A u \in Viewers(view[t].ptr) : pc[u] \notin TailReleasing
    PROVE  ReleaseInv'
  <1>1. ASSUME NEW u \in Threads \ {t}
        PROVE  /\ pc'[u] = pc[u] /\ view'[u] = view[u]
               /\ pc[u] \in HeadReleasing \cup TailReleasing => u \in Viewers(view[u].ptr)
    BY DEF Others, Viewers, Viewing, HeadReleasing, TailReleasing
  <1>2. ASSUME NEW u \in Threads \ {t}, view'[t].ptr = view'[u].ptr
        PROVE  /\ ~(pc'[t] \in HeadReleasing /\ pc'[u] \in HeadReleasing)
               /\ ~(pc'[t] \in TailReleasing /\ pc'[u] \in TailReleasing)
    BY <1>1, <1>2 DEF ReleaseInv
  <1>3. ASSUME NEW u \in Threads \ {t}, NEW v \in Threads \ {t}, view'[u].ptr = view'[v].ptr
        PROVE  /\ pc'[u] \in HeadReleasing /\ pc'[v] \in HeadReleasing => u = v
               /\ pc'[u] \in TailReleasing /\ pc'[v] \in TailReleasing => u = v
    BY <1>1, <1>3 DEF ReleaseInv
  <1>4. QED
    BY <1>2, <1>3 DEF ReleaseInv

\* What the parts say together.
LEMMA Assemble ==
    ASSUME IInv, TypeOK', NEW t \in Threads, Others(t), NewInv', ReleaseInv',
           NEW lo \in Nat, NEW k \in Nat, NEW hi \in Nat, NEW b \in [lo..hi -> Nodes],
           Chain(b, lo, k, hi)', NEW A, NEW B, A = Behind(b, lo, hi), B = Behind(b, k, hi),
           \A u \in Threads : ThreadOK(A, B, u)',
           \A n \in Nodes : NodeInv(A, B, n)'
    PROVE  IInv' /\ Linked(b, lo, hi, head_.ptr, node)'
  <1>1. FiniteInv'
    BY FiniteKept DEF IInv
  <1>2. Inv(A, B)'
    BY DEF Inv
  <1>3. Shape(b, lo, k, hi)'
    BY <1>2 DEF Shape
  <1>4. head_' # NullPtr
    <2>1. lo \in lo..hi /\ head_'.ptr = b[lo]
      BY DEF Chain, Linked
    <2>2. head_'.ptr \in Nodes
      BY <2>1
    <2>3. QED
      BY <2>2, Constants
  <1>5. Linked(b, lo, hi, head_.ptr, node)'
    BY DEF Chain
  <1>6. QED
    BY <1>1, <1>3, <1>4, <1>5 DEF IInv

LEMMA ChainFacts ==
    ASSUME NEW lo \in Nat, NEW k \in Nat, NEW hi \in Nat, NEW b, Chain(b, lo, k, hi),
           NEW A, NEW B, A = Behind(b, lo, hi), B = Behind(b, k, hi)
    PROVE  /\ head_.ptr \in Nodes /\ head_.ptr \notin A /\ head_.ptr \notin B
           /\ tail_.ptr \in Nodes /\ tail_.ptr \notin B /\ B \subseteq A
           /\ tail_.ptr \in A \cup {head_.ptr}
           /\ \A n \in A \cup {head_.ptr} : n \in Nodes /\ node[n] # Null /\ n \notin News
           /\ \A n \in A : node[n].value \in Items
           /\ \A n \in A \cup {head_.ptr} : node[n].next = NullPtr <=> n = b[hi]
           /\ \A n \in A \cup {head_.ptr} : \A i \in lo..hi :
                 n = b[i] /\ i # hi => node[n].next = Counted(b[i+1], 1) /\ b[i+1] \in A
           /\ A \cup {head_.ptr} = {b[i] : i \in lo..hi}
  <1>1. /\ b \in [lo..hi -> Nodes] /\ lo <= hi /\ b[lo] = head_.ptr
        /\ k \in lo..hi /\ b[k] = tail_.ptr
        /\ \A i \in lo..hi : b[i] \in Nodes /\ node[b[i]] # Null /\ b[i] \notin News
        /\ \A i \in lo..(hi-1) : node[b[i]].next = Counted(b[i+1], 1)
        /\ node[b[hi]].next = NullPtr
        /\ \A i \in (lo+1)..hi : node[b[i]].value \in Items
        /\ \A i \in lo..hi : \A j \in lo..hi : b[i] = b[j] => i = j
    BY DEF Chain, Linked
  <1>2. lo \in lo..hi /\ hi \in lo..hi /\ \A i \in (lo+1)..hi : i \in lo..hi /\ i # lo
    BY <1>1
  <1>3. \A i \in (k+1)..hi : i \in (lo+1)..hi /\ i # k
    BY <1>1
  <1>4. \A i \in lo..hi : i = lo \/ i \in (lo+1)..hi
    OBVIOUS
  <1>5. A = {b[i] : i \in (lo+1)..hi} /\ B = {b[i] : i \in (k+1)..hi}
    BY DEF Behind
  <1>6. A \cup {head_.ptr} = {b[i] : i \in lo..hi}
    BY <1>1, <1>2, <1>4, <1>5
  <1>7. head_.ptr \notin A /\ tail_.ptr \notin B /\ B \subseteq A
    BY <1>1, <1>2, <1>3, <1>5
  <1>8. tail_.ptr \in A \cup {head_.ptr}
    BY <1>1, <1>6
  <1>9. ASSUME NEW i \in lo..hi, i # hi
        PROVE  node[b[i]].next = Counted(b[i+1], 1) /\ b[i+1] \in A /\ Counted(b[i+1], 1) # NullPtr
    <2>1. i \in lo..(hi-1) /\ i + 1 \in (lo+1)..hi
      BY <1>9
    <2>2. b[i+1] \in Nodes /\ Counted(b[i+1], 1).ptr # Null
      BY <1>1, <1>2, <2>1, Constants
    <2>3. QED
      BY <1>1, <1>5, <2>1, <2>2, Constants
  <1>10. \A n \in A \cup {head_.ptr} : node[n].next = NullPtr <=> n = b[hi]
    <2>1. \A i \in lo..hi : node[b[i]].next = NullPtr <=> b[i] = b[hi]
      BY <1>1, <1>2, <1>9
    <2>2. QED
      BY <1>6, <2>1
  <1>11. \A n \in A : node[n].value \in Items
    BY <1>1, <1>5
  <1>12. QED
    BY <1>1, <1>2, <1>6, <1>7, <1>8, <1>9, <1>10, <1>11

\* A step after which all pointers and nodes are as before, and t stands to the
\* nodes as before.
LEMMA Quiet ==
    ASSUME IInv, TypeOK', NEW t \in Threads, Others(t),
           NEW lo \in Nat, NEW k \in Nat, NEW hi \in Nat, NEW b \in [lo..hi -> Nodes],
           Shape(b, lo, k, hi), NEW A, NEW B, A = Behind(b, lo, hi), B = Behind(b, k, hi),
           UNCHANGED <<head_, tail_, node, view, new>>,
           \A n \in Nodes : Alike(t, n),
           pc'[t] \in HeadReleasing => pc[t] \in HeadReleasing,
           pc'[t] \in TailReleasing => pc[t] \in TailReleasing,
           ThreadOK(A, B, t)'
    PROVE  IInv' /\ Linked(b, lo, hi, head_.ptr, node)'
  <1>1. /\ Inv(A, B) /\ NewInv /\ ReleaseInv
    BY DEF Shape, IInv
  <1>2. \A n \in News : NewNodeInv(n) /\ n \in Nodes
    BY <1>1 DEF NewInv, News
  <1>3. NewInv' /\ News' = News
    <2>1. \A n \in News : t \notin Viewers(n)' /\ t \notin Takers(n)'
      BY <1>2 DEF NewNodeInv, Alike
    <2>2. new'[t] \in {new[t], Null} /\ new'[t] = new[t]
      OBVIOUS
    <2>3. NewInv' /\ News' = {n \in News : new'[t] = new[t] \/ n # new[t]}
      BY <1>1, <2>1, <2>2, NewsKept
    <2>4. QED
      BY <2>2, <2>3
  <1>4. ReleaseInv'
    BY <1>1, ReleaseKept
  <1>5. Chain(b, lo, k, hi)'
    BY <1>3 DEF Shape, Chain
  <1>6. ASSUME NEW u \in Threads PROVE ThreadOK(A, B, u)'
    <2>1. \A n \in Nodes : node[n] # Null /\ n \notin News => Kept(A, B, A, B, n)
      BY <1>3 DEF Kept
    <2>2. ThreadOK(A, B, u)
      BY <1>1 DEF Inv
    <2>3. \A n \in Nodes : u \in Viewers(n) \/ u \in Takers(n) => node'[n] # Null
      BY <2>2 DEF ThreadOK, Views, Takes
    <2>4. u # t => ThreadOK(A, B, u)'
      BY <2>1, <2>2, <2>3, ThreadKept
    <2>5. QED
      BY <2>4
  <1>7. ASSUME NEW n \in Nodes PROVE NodeInv(A, B, n)'
    <2>1. \A u \in Threads : Alike(u, n)
      BY OthersAlike
    <2>2. NodeInv(A, B, n)
      BY <1>1 DEF Inv
    <2>3. QED
      BY <1>3, <2>1, <2>2, NodeKept
  <1>8. QED
    BY <1>3, <1>4, <1>5, <1>6, <1>7, Assemble

\* A thread that looks at a node looks at one.
LEMMA Looking ==
    ASSUME NEW t \in Threads, NEW A, NEW B, ThreadOK(A, B, t), pc[t] \in Viewing
    PROVE  \E m \in Nodes : /\ view[t].ptr = m /\ t \in Viewers(m) /\ Views(A, B, t, m)
                            /\ \A n : t \in Viewers(n) <=> n = m
  <1>1. PICK m \in Nodes : m = view[t].ptr
    BY DEF ThreadOK
  <1>2. \A n : t \in Viewers(n) <=> n = m
    BY <1>1 DEF Viewers
  <1>3. QED
    BY <1>1, <1>2 DEF ThreadOK

LEMMA ThreadAfter ==
    ASSUME NEW t \in Threads, NEW A, NEW B, NEW m \in Nodes, view'[t].ptr = m,
           Views(A, B, t, m)',
           pc'[t] \in {"idle", "viewHead"} \cup PopView => new'[t] = Null,
           pc'[t] \in {"viewTail", "link", "loadNext"} => new'[t] # Null,
           pc'[t] \in HeadReleasing => \E q \in Nodes : next'[t].ptr = q /\ Takes(A, q)'
    PROVE  ThreadOK(A, B, t)'
  <1>1. \A n \in Nodes : t \in Viewers(n)' => n = m
    BY DEF Viewers
  <1>2. ASSUME NEW n \in Nodes, t \in Takers(n)' PROVE Takes(A, n)'
    <2>1. pc'[t] \in HeadReleasing /\ next'[t].ptr = n
      BY <1>2 DEF Takers
    <2>2. PICK q \in Nodes : next'[t].ptr = q /\ Takes(A, q)'
      BY <2>1
    <2>3. q = n
      BY <2>1, <2>2
    <2>4. QED
      BY <2>2, <2>3
  <1>3. \A n \in Nodes : t \in Viewers(n)' => Views(A, B, t, n)'
    BY <1>1
  <1>4. QED
    BY <1>2, <1>3 DEF ThreadOK

\* A thread that does not look at anything.
LEMMA NotLooking ==
    ASSUME NEW t \in Threads, NEW A, NEW B, pc'[t] \notin Viewing,
           pc'[t] \in {"idle", "viewHead"} => new'[t] = Null,
           pc'[t] = "viewTail" => new'[t] # Null
    PROVE  /\ ThreadOK(A, B, t)'
           /\ \A n : t \notin Viewers(n)' /\ t \notin Takers(n)'
  <1>1. /\ pc'[t] \notin HeadReleasing /\ pc'[t] \notin PopView
        /\ pc'[t] \notin {"link", "loadNext"}
    BY DEF Viewing, HeadReleasing, PopView
  <1>2. \A n : t \notin Viewers(n)' /\ t \notin Takers(n)'
    BY <1>1 DEF Viewers, Takers
  <1>3. QED
    BY <1>1, <1>2 DEF ThreadOK

\* A step in which t only loads a pointer, or whose compare_exchange fails.
Loading(t) == \/ LoadNextTail(t) \/ LoadTail(t) \/ LoadNextHead(t) \/ Read(t)
              \/ Link(t) /\ At(view[t]).next # NullPtr
              \/ Swing(t) /\ tail_ # view[t]
              \/ Help(t) /\ tail_ # tail[t]
              \/ SwingHead(t) /\ head_ # view[t]

LEMMA LoadingInv ==
    ASSUME IInv, TypeOK', NEW t \in Threads, Others(t), Loading(t),
           NEW lo \in Nat, NEW k \in Nat, NEW hi \in Nat, NEW b \in [lo..hi -> Nodes],
           Shape(b, lo, k, hi)
    PROVE  IInv' /\ Linked(b, lo, hi, head_.ptr, node)'
  <1>0. TypeOK
    BY DEF IInv
  <1>1. PICK A, B : A = Behind(b, lo, hi) /\ B = Behind(b, k, hi)
    OBVIOUS
  <1>2. /\ Chain(b, lo, k, hi) /\ ThreadOK(A, B, t)
        /\ \A n \in Nodes : NodeInv(A, B, n)
    BY <1>1 DEF Shape, Inv
  <1>3. /\ pc[t] \in Viewing /\ pc'[t] \in Viewing
        /\ UNCHANGED <<head_, tail_, node, view, new>>
        /\ pc'[t] \in HeadReleasing <=> pc[t] \in HeadReleasing
        /\ pc'[t] \notin TailReleasing /\ pc[t] \notin TailReleasing
        /\ pc[t] \in HeadReleasing => next'[t] = next[t]
    <2>1. CASE LoadNextTail(t) \/ LoadTail(t) \/ LoadNextHead(t) \/ Read(t)
      BY <1>0, <2>1 DEF LoadNextTail, LoadTail, LoadNextHead, Read, Goto, TypeOK, Viewing,
                        HeadReleasing, TailReleasing, locals
    <2>2. CASE Link(t) /\ At(view[t]).next # NullPtr
      BY <1>0, <2>2 DEF Link, Goto, TypeOK, Viewing, HeadReleasing, TailReleasing
    <2>3. CASE \/ Swing(t) /\ tail_ # view[t]
               \/ Help(t) /\ tail_ # tail[t]
               \/ SwingHead(t) /\ head_ # view[t]
      BY <1>0, <2>3 DEF Swing, Help, SwingHead, Goto, TypeOK, Viewing, HeadReleasing,
                        TailReleasing, locals
    <2>4. QED
      BY <2>1, <2>2, <2>3 DEF Loading
  <1>4. PICK m \in Nodes : /\ view[t].ptr = m /\ t \in Viewers(m) /\ Views(A, B, t, m)
                           /\ \A n : t \in Viewers(n) <=> n = m
    BY <1>2, <1>3, Looking
  <1>5. \A n \in Nodes : Alike(t, n)
    BY <1>3, SetsAfter DEF Alike, AlikeHead, AlikeTail
  <1>6. News' = News
    BY <1>3 DEF News
  <1>7. node[m] # Null /\ node'[m] # Null /\ m \notin News' /\ At(view[t]) = node[m]
    BY <1>3, <1>4, <1>6 DEF Views, At
  <1>8. Views(A, B, t, m)' /\ (pc'[t] \in {"idle", "viewHead"} \cup PopView => new'[t] = Null)
        /\ (pc'[t] \in {"viewTail", "link", "loadNext"} => new'[t] # Null)
    <2>1. CASE LoadNextTail(t)
      <3>1. pc[t] = "loadNext" /\ pc'[t] = "swing" /\ next'[t] = node[m].next
        BY <1>0, <1>7, <2>1 DEF LoadNextTail, Goto, TypeOK
      <3>2. node'[m].next # NullPtr
        BY <1>3, <1>4, <3>1 DEF Views
      <3>3. QED
        BY <1>3, <1>7, <3>1, <3>2 DEF Views, TailReleasing, HeadReleasing, PopView
    <2>2. CASE Link(t) /\ At(view[t]).next # NullPtr
      <3>1. pc[t] = "link" /\ pc'[t] = "loadNext" /\ node[m].next # NullPtr
        BY <1>0, <1>7, <2>2 DEF Link, Goto, TypeOK
      <3>2. new[t] # Null
        BY <1>2, <3>1 DEF ThreadOK
      <3>3. QED
        BY <1>3, <1>7, <3>1, <3>2 DEF Views, TailReleasing, HeadReleasing, PopView
    <2>3. CASE Swing(t) /\ tail_ # view[t]
      <3>1. pc'[t] = "leave"
        BY <1>0, <2>3 DEF Swing, Goto, TypeOK
      <3>2. QED
        BY <1>7, <3>1 DEF Views, TailReleasing, HeadReleasing, PopView
    <2>4. CASE \/ Help(t) /\ tail_ # tail[t]
               \/ SwingHead(t) /\ head_ # view[t]
      <3>1. pc[t] \in PopView /\ pc'[t] = "again"
        BY <1>0, <2>4 DEF Help, SwingHead, Goto, TypeOK, PopView
      <3>2. m \notin A /\ new[t] = Null
        BY <1>2, <1>4, <3>1 DEF Views, ThreadOK
      <3>3. QED
        BY <1>3, <1>7, <3>1, <3>2 DEF Views, TailReleasing, HeadReleasing
    <2>5. CASE Read(t)
      <3>1. pc[t] = "read" /\ pc'[t] = "releaseHead" /\ next'[t] = next[t]
        BY <1>0, <2>5 DEF Read, Goto, TypeOK, locals
      <3>2. new[t] = Null
        BY <1>2, <3>1 DEF ThreadOK, PopView
      <3>3. QED
        BY <1>3, <1>4, <1>7, <3>1, <3>2 DEF Views, TailReleasing, HeadReleasing, PopView
    <2>6. CASE LoadTail(t)
      <3>1. pc[t] = "loadTail" /\ pc'[t] = "loadNextHead" /\ tail'[t] = tail_
        BY <1>0, <2>6 DEF LoadTail, Goto, TypeOK
      <3>2. new[t] = Null /\ m \notin A
        BY <1>2, <1>4, <3>1 DEF ThreadOK, Views, PopView
      <3>3. ASSUME tail_.ptr # m PROVE node[m].next # NullPtr
        <4>1. CASE head_.ptr # m
          BY <1>2, <1>4, <1>7, <3>2, <4>1 DEF NodeInv, Views
        <4>2. CASE head_.ptr = m
          <5>1. /\ b[lo] = m /\ b[k] # m /\ k \in lo..hi /\ lo <= hi
                /\ \A i \in lo..hi : \A j \in lo..hi : b[i] = b[j] => i = j
            BY <1>2, <3>3, <4>2 DEF Chain, Linked
          <5>2. lo \in lo..hi /\ hi \in lo..hi /\ lo # hi
            BY <5>1
          <5>3. m # b[hi]
            BY <5>1, <5>2
          <5>4. \A n \in A \cup {head_.ptr} : node[n].next = NullPtr <=> n = b[hi]
            BY <1>1, <1>2, ChainFacts
          <5>5. QED
            BY <4>2, <5>3, <5>4
        <4>3. QED
          BY <4>1, <4>2
      <3>4. QED
        BY <1>3, <1>7, <3>1, <3>2, <3>3 DEF Views, TailReleasing, HeadReleasing, PopView
    <2>7. CASE LoadNextHead(t)
      <3>1. /\ pc[t] = "loadNextHead" /\ next'[t] = node[m].next /\ tail' = tail
            /\ pc'[t] = (IF m # tail[t].ptr THEN "swingHead"
                         ELSE IF node[m].next = NullPtr THEN "empty" ELSE "help")
        BY <1>0, <1>4, <1>7, <2>7 DEF LoadNextHead, Goto, TypeOK
      <3>2. /\ new[t] = Null /\ m \notin A
            /\ tail[t].ptr # m => /\ node[m].next # NullPtr
                                  /\ head_.ptr = m => tail_.ptr # m
        BY <1>2, <1>4, <3>1 DEF ThreadOK, Views, PopView
      <3>3. CASE m # tail[t].ptr
        <4>1. pc'[t] = "swingHead"
          BY <3>1, <3>3
        <4>2. QED
          BY <1>3, <1>7, <3>1, <3>2, <3>3, <4>1 DEF Views, TailReleasing, HeadReleasing, PopView
      <3>4. CASE m = tail[t].ptr /\ node[m].next = NullPtr
        <4>1. pc'[t] = "empty"
          BY <3>1, <3>4
        <4>2. QED
          BY <1>3, <1>7, <3>2, <4>1 DEF Views, TailReleasing, HeadReleasing, PopView
      <3>5. CASE m = tail[t].ptr /\ node[m].next # NullPtr
        <4>1. pc'[t] = "help"
          BY <3>1, <3>5
        <4>2. QED
          BY <1>3, <1>7, <3>1, <3>2, <3>5, <4>1 DEF Views, TailReleasing, HeadReleasing, PopView
      <3>6. QED
        BY <3>3, <3>4, <3>5
    <2>8. QED
      BY <2>1, <2>2, <2>3, <2>4, <2>5, <2>6, <2>7 DEF Loading
  <1>9. pc'[t] \in HeadReleasing => \E q \in Nodes : next'[t].ptr = q /\ Takes(A, q)'
    <2>1. SUFFICES ASSUME pc'[t] \in HeadReleasing
                   PROVE  \E q \in Nodes : next'[t].ptr = q /\ Takes(A, q)'
      OBVIOUS
    <2>2. PICK q \in Nodes : q = next[t].ptr
      BY <1>2, <1>3, <2>1 DEF ThreadOK
    <2>3. t \in Takers(q) /\ next'[t].ptr = q
      BY <1>3, <2>1, <2>2 DEF Takers
    <2>4. Takes(A, q)
      BY <1>2, <2>3 DEF ThreadOK
    <2>5. Takes(A, q)'
      BY <1>3, <1>6, <2>4 DEF Takes
    <2>6. QED
      BY <2>3, <2>5
  <1>10. ThreadOK(A, B, t)'
    <2>1. view'[t].ptr = m
      BY <1>3, <1>4
    <2>2. QED
      BY <1>8, <1>9, <2>1, ThreadAfter
  <1>11. QED
    BY <1>1, <1>3, <1>5, <1>10, Quiet

LEMMA TryPopInv ==
    ASSUME IInv, TypeOK', NEW t \in Threads, Others(t), TryPop(t),
           NEW lo \in Nat, NEW k \in Nat, NEW hi \in Nat, NEW b \in [lo..hi -> Nodes],
           Shape(b, lo, k, hi)
    PROVE  IInv' /\ Linked(b, lo, hi, head_.ptr, node)'
  <1>1. PICK A, B : A = Behind(b, lo, hi) /\ B = Behind(b, k, hi)
    OBVIOUS
  <1>2. /\ pc[t] = "idle" /\ pc'[t] = "viewHead"
        /\ UNCHANGED <<head_, tail_, node, view, new>>
    BY DEF TryPop, Goto, TypeOK, IInv, locals
  <1>3. new[t] = Null
    BY <1>1, <1>2 DEF Shape, Inv, ThreadOK
  <1>4. pc'[t] \notin Viewing /\ pc[t] \notin Viewing /\ pc'[t] \notin HeadReleasing
        /\ pc[t] \notin HeadReleasing /\ pc'[t] \notin TailReleasing
    BY <1>2 DEF Viewing, HeadReleasing, TailReleasing
  <1>5. ThreadOK(A, B, t)'
    BY <1>2, <1>3, <1>4, NotLooking
  <1>6. \A n \in Nodes : Alike(t, n)
    BY <1>4, SetsAfter DEF Alike, AlikeHead, AlikeTail, HeadReleasing, TailReleasing
  <1>7. QED
    BY <1>1, <1>2, <1>4, <1>5, <1>6, Quiet

LEMMA UsersAfter ==
    ASSUME FiniteInv, NEW t \in Threads, Others(t), NEW n \in Nodes
    PROVE  /\ Users(n) \in Nat /\ Users(n)' \in Nat
           /\ Users(n)' = 0 => Viewers(n)' = {} /\ Takers(n)' = {}
           /\ t \in Takers(n)' <=> t \in Takers(n) =>
                 /\ t \notin Viewers(n) /\ t \in Viewers(n)' => Users(n)' = Users(n) + 1
                 /\ t \in Viewers(n) /\ t \notin Viewers(n)' => Users(n)' = Users(n) - 1
           /\ t \in Viewers(n)' <=> t \in Viewers(n) =>
                 /\ t \notin Takers(n) /\ t \in Takers(n)' => Users(n)' = Users(n) + 1
                 /\ t \in Takers(n) /\ t \notin Takers(n)' => Users(n)' = Users(n) - 1
           /\ t \notin Viewers(n) /\ t \in Viewers(n)' /\ t \in Takers(n) /\ t \notin Takers(n)'
                 => Users(n)' = Users(n)
  <1>1. IsFiniteSet(Viewers(n)) /\ IsFiniteSet(Takers(n))
    BY DEF FiniteInv
  <1>2. IsFiniteSet(Viewers(n)') /\ IsFiniteSet(Takers(n)')
    BY FiniteKept DEF FiniteInv
  <1>3. PICK v, w, v1, w1 : /\ v = Cardinality(Viewers(n)) /\ w = Cardinality(Takers(n))
                            /\ v1 = Cardinality(Viewers(n)') /\ w1 = Cardinality(Takers(n)')
    OBVIOUS
  <1>4. v \in Nat /\ w \in Nat /\ v1 \in Nat /\ w1 \in Nat
    BY <1>1, <1>2, <1>3, FS_CardinalityType
  <1>5. Users(n) = v + w /\ Users(n)' = v1 + w1
    BY <1>3 DEF Users
  <1>6. /\ t \notin Viewers(n) /\ t \in Viewers(n)' => v1 = v + 1
        /\ t \in Viewers(n) /\ t \notin Viewers(n)' => v1 = v - 1
        /\ (t \in Viewers(n)' <=> t \in Viewers(n)) => v1 = v
    <2>1. ASSUME t \notin Viewers(n), t \in Viewers(n)' PROVE v1 = v + 1
      BY <1>1, <1>3, <2>1, SetsAfter, OneMore
    <2>2. ASSUME t \in Viewers(n), t \notin Viewers(n)' PROVE v1 = v - 1
      BY <1>1, <1>3, <2>2, SetsAfter, OneLess
    <2>3. ASSUME t \in Viewers(n)' <=> t \in Viewers(n) PROVE v1 = v
      <3>1. t \in Viewers(n)' => Viewers(n)' = Viewers(n) \cup {t} /\ t \in Viewers(n)
        BY <2>3, SetsAfter
      <3>2. t \notin Viewers(n)' => Viewers(n)' = Viewers(n) \ {t} /\ t \notin Viewers(n)
        BY <2>3, SetsAfter
      <3>3. Viewers(n)' = Viewers(n)
        BY <3>1, <3>2
      <3>4. QED
        BY <1>3, <3>3
    <2>4. QED
      BY <2>1, <2>2, <2>3
  <1>7. /\ t \notin Takers(n) /\ t \in Takers(n)' => w1 = w + 1
        /\ t \in Takers(n) /\ t \notin Takers(n)' => w1 = w - 1
        /\ (t \in Takers(n)' <=> t \in Takers(n)) => w1 = w
    <2>1. ASSUME t \notin Takers(n), t \in Takers(n)' PROVE w1 = w + 1
      BY <1>1, <1>3, <2>1, SetsAfter, OneMore
    <2>2. ASSUME t \in Takers(n), t \notin Takers(n)' PROVE w1 = w - 1
      BY <1>1, <1>3, <2>2, SetsAfter, OneLess
    <2>3. ASSUME t \in Takers(n)' <=> t \in Takers(n) PROVE w1 = w
      <3>1. t \in Takers(n)' => Takers(n)' = Takers(n) \cup {t} /\ t \in Takers(n)
        BY <2>3, SetsAfter
      <3>2. t \notin Takers(n)' => Takers(n)' = Takers(n) \ {t} /\ t \notin Takers(n)
        BY <2>3, SetsAfter
      <3>3. Takers(n)' = Takers(n)
        BY <3>1, <3>2
      <3>4. QED
        BY <1>3, <3>3
    <2>4. QED
      BY <2>1, <2>2, <2>3
  <1>8. v1 + w1 = 0 => Viewers(n)' = {} /\ Takers(n)' = {}
    <2>1. v1 + w1 = 0 => v1 = 0 /\ w1 = 0
      BY <1>4
    <2>2. QED
      BY <1>2, <1>3, <2>1, FS_EmptySet
  <1>9. QED
    BY <1>4, <1>5, <1>6, <1>7, <1>8

\* t begins to look at the node in tail_, or in head_.
LEMMA ViewInv ==
    ASSUME IInv, CountsFit, TypeOK', NEW t \in Threads, Others(t), ViewTail(t) \/ ViewHead(t),
           NEW lo \in Nat, NEW k \in Nat, NEW hi \in Nat, NEW b \in [lo..hi -> Nodes],
           Shape(b, lo, k, hi)
    PROVE  IInv' /\ Linked(b, lo, hi, head_.ptr, node)'
  <1>0. TypeOK /\ NewInv /\ ReleaseInv /\ FiniteInv
    BY DEF IInv
  <1>1. PICK A, B : A = Behind(b, lo, hi) /\ B = Behind(b, k, hi)
    OBVIOUS
  <1>2. /\ Chain(b, lo, k, hi) /\ \A u \in Threads : ThreadOK(A, B, u)
        /\ \A n \in Nodes : NodeInv(A, B, n)
    BY <1>1 DEF Shape, Inv
  <1>3. /\ head_'.ptr = head_.ptr /\ tail_'.ptr = tail_.ptr
        /\ UNCHANGED <<node, new>>
        /\ \/ /\ pc[t] = "viewTail" /\ pc'[t] = "link"
              /\ head_' = head_ /\ tail_'.count = tail_.count + 1
              /\ view'[t].ptr = tail_.ptr
           \/ /\ pc[t] = "viewHead" /\ pc'[t] = "loadTail"
              /\ tail_' = tail_ /\ head_'.count = head_.count + 1
              /\ view'[t].ptr = head_.ptr
    <2>1. /\ Increased(tail_).ptr = tail_.ptr /\ Increased(tail_).count = tail_.count + 1
          /\ Increased(head_).ptr = head_.ptr /\ Increased(head_).count = head_.count + 1
      BY <1>0, Counting DEF CountsFit, TypeOK
    <2>2. CASE ViewTail(t)
      BY <1>0, <2>1, <2>2 DEF ViewTail, Goto, TypeOK
    <2>3. CASE ViewHead(t)
      BY <1>0, <2>1, <2>3 DEF ViewHead, Goto, TypeOK
    <2>4. QED
      BY <2>2, <2>3
  <1>4. PICK q : q = view'[t].ptr
    OBVIOUS
  <1>5. q \in Nodes /\ node[q] # Null /\ q \notin News
    BY <1>1, <1>2, <1>3, <1>4, ChainFacts
  <1>6. /\ \A n : t \notin Viewers(n) /\ t \notin Takers(n) /\ t \notin Takers(n)'
        /\ \A n : t \in Viewers(n)' <=> n = q
        /\ pc'[t] \notin HeadReleasing /\ pc'[t] \notin TailReleasing
    BY <1>3, <1>4, SetsAfter DEF Viewing, HeadReleasing, TailReleasing
  <1>7. NewInv' /\ News' = News
    <2>1. \A n \in News : node'[n] = node[n] /\ t \notin Viewers(n)' /\ t \notin Takers(n)'
      BY <1>3, <1>5, <1>6
    <2>2. new'[t] \in {new[t], Null} /\ new'[t] = new[t]
      BY <1>3
    <2>3. NewInv' /\ News' = {n \in News : new'[t] = new[t] \/ n # new[t]}
      BY <1>0, <2>1, <2>2, NewsKept
    <2>4. QED
      BY <2>2, <2>3
  <1>8. ReleaseInv'
    BY <1>0, <1>6, ReleaseKept
  <1>9. Chain(b, lo, k, hi)'
    BY <1>2, <1>3, <1>7 DEF Chain
  <1>10. \A u \in Threads : AlikeHead(u, q) /\ AlikeTail(u, q)
    <2>1. AlikeHead(t, q) /\ AlikeTail(t, q)
      BY <1>6 DEF AlikeHead, AlikeTail
    <2>2. \A u \in Threads \ {t} : AlikeHead(u, q) /\ AlikeTail(u, q)
      BY OthersAlike DEF Alike
    <2>3. QED
      BY <2>1, <2>2
  <1>11. ASSUME NEW u \in Threads PROVE ThreadOK(A, B, u)'
    <2>1. \A n \in Nodes : node[n] # Null /\ n \notin News => Kept(A, B, A, B, n)
      BY <1>3, <1>7 DEF Kept
    <2>2. ThreadOK(A, B, u)
      BY <1>2
    <2>3. \A n \in Nodes : u \in Viewers(n) \/ u \in Takers(n) => node'[n] # Null
      BY <1>3, <2>2 DEF ThreadOK, Views, Takes
    <2>4. CASE u # t
      BY <2>1, <2>2, <2>3, <2>4, ThreadKept
    <2>5. CASE u = t
      <3>1. pc'[t] = "loadTail" => q \notin A
        BY <1>1, <1>2, <1>3, <1>4, ChainFacts
      <3>2. Views(A, B, t, q)'
        BY <1>3, <1>5, <1>7, <3>1 DEF Views, HeadReleasing, TailReleasing, PopView
      <3>3. /\ pc'[t] \in {"idle", "viewHead"} \cup PopView => new'[t] = Null
            /\ pc'[t] \in {"viewTail", "link", "loadNext"} => new'[t] # Null
        BY <1>2, <1>3 DEF ThreadOK, PopView
      <3>4. ThreadOK(A, B, t)'
        BY <1>4, <1>5, <1>6, <3>2, <3>3, ThreadAfter
      <3>5. QED
        BY <2>5, <3>4
    <2>6. QED
      BY <2>4, <2>5
  <1>12. ASSUME NEW n \in Nodes, n # q PROVE NodeInv(A, B, n)'
    <2>1. Alike(t, n)
      BY <1>6, <1>12 DEF Alike, AlikeHead, AlikeTail
    <2>2. \A u \in Threads : Alike(u, n)
      BY <2>1, OthersAlike
    <2>3. /\ head_.ptr = n \/ head_'.ptr = n => head_' = head_
          /\ tail_.ptr = n \/ tail_'.ptr = n => tail_' = tail_
      BY <1>3, <1>4, <1>12
    <2>4. NodeInv(A, B, n) /\ node'[n] = node[n] /\ (n \in News' <=> n \in News)
      BY <1>2, <1>3, <1>7
    <2>5. QED
      BY <2>2, <2>3, <2>4, NodeKept
  <1>13. NodeInv(A, B, q)'
    <2>1. PICK h \in Int, l \in Int : Owes(A, B, q, h, l)
      BY <1>2, <1>5 DEF NodeInv
    <2>2. PICK i : i = node[q].internal_count
      OBVIOUS
    <2>3. /\ i \in Int /\ i > 0 /\ i + h + l = Users(q) /\ Users(q)' = Users(q) + 1
          /\ Users(q) \in Nat /\ HeadOwes(A, q, h) /\ TailOwes(B, q, l)
          /\ q \notin A /\ head_.ptr # q => node[q].next # NullPtr
      <3>1. i \in Int
        BY <1>0, <1>5, <2>2, NodeType
      <3>2. Users(q)' = Users(q) + 1 /\ Users(q) \in Nat
        BY <1>0, <1>5, <1>6, UsersAfter
      <3>3. i > 0 /\ (q \notin A /\ head_.ptr # q => node[q].next # NullPtr)
        BY <1>2, <1>5, <2>2 DEF NodeInv
      <3>4. QED
        BY <2>1, <2>2, <3>1, <3>2, <3>3 DEF Owes
    <2>4. \E h1 \in Int : \E l1 \in Int :
              h1 + l1 = h + l + 1 /\ HeadOwes(A, q, h1)' /\ TailOwes(B, q, l1)'
      <3>1. CASE pc[t] = "viewTail"
        <4>1. HeadOwes(A, q, h)'
          BY <1>3, <1>10, <2>3, <3>1, SameHeadOwes
        <4>2. /\ q = tail_.ptr /\ tail_'.ptr = q /\ tail_'.count = tail_.count + 1
          BY <1>3, <1>4, <3>1
        <4>3. q \notin B
          BY <1>1, <1>2, <4>2, ChainFacts
        <4>4. l = tail_.count - 1 - kOneCounter /\ tail_.count \in Nat
          BY <1>0, <2>3, <4>2, Counting DEF TailOwes, TypeOK
        <4>5. l + 1 = tail_'.count - 1 - kOneCounter
          BY <4>2, <4>4, Constants
        <4>6. \A u \in Viewers(q)' : pc'[u] \notin TailReleasing
          <5>1. ASSUME NEW u \in Viewers(q)', pc'[u] \in TailReleasing PROVE FALSE
            <6>1. u \in Threads
              BY DEF Viewers
            <6>2. u \in Viewers(q) /\ pc[u] \in TailReleasing
              BY <1>10, <5>1, <6>1 DEF AlikeTail
            <6>3. Views(A, B, u, q)
              BY <1>2, <1>5, <6>1, <6>2 DEF ThreadOK
            <6>4. QED
              BY <4>2, <6>2, <6>3 DEF Views
          <5>2. QED
            BY <5>1
        <4>7. TailOwes(B, q, l + 1)'
          BY <4>2, <4>3, <4>5, <4>6 DEF TailOwes
        <4>8. h + (l + 1) = h + l + 1 /\ l + 1 \in Int
          OBVIOUS
        <4>9. QED
          BY <4>1, <4>7, <4>8
      <3>2. CASE pc[t] = "viewHead"
        <4>1. TailOwes(B, q, l)'
          BY <1>3, <1>10, <2>3, <3>2, SameTailOwes
        <4>2. /\ q = head_.ptr /\ head_'.ptr = q /\ head_'.count = head_.count + 1
          BY <1>3, <1>4, <3>2
        <4>3. q \notin A
          BY <1>1, <1>2, <4>2, ChainFacts
        <4>4. h = head_.count - 1 - kOneCounter /\ head_.count \in Nat
          BY <1>0, <2>3, <4>2, Counting DEF HeadOwes, TypeOK
        <4>5. h + 1 = head_'.count - 1 - kOneCounter
          BY <4>2, <4>4, Constants
        <4>6. \A u \in Viewers(q)' : pc'[u] \notin HeadReleasing
          <5>1. ASSUME NEW u \in Viewers(q)', pc'[u] \in HeadReleasing PROVE FALSE
            <6>1. u \in Threads
              BY DEF Viewers
            <6>2. u \in Viewers(q) /\ pc[u] \in HeadReleasing
              BY <1>10, <5>1, <6>1 DEF AlikeHead
            <6>3. Views(A, B, u, q)
              BY <1>2, <1>5, <6>1, <6>2 DEF ThreadOK
            <6>4. QED
              BY <4>2, <6>2, <6>3 DEF Views
          <5>2. QED
            BY <5>1
        <4>7. HeadOwes(A, q, h + 1)'
          BY <4>2, <4>3, <4>5, <4>6 DEF HeadOwes
        <4>8. (h + 1) + l = h + l + 1 /\ h + 1 \in Int
          OBVIOUS
        <4>9. QED
          BY <4>1, <4>7, <4>8
      <3>3. QED
        BY <1>3, <3>1, <3>2
    <2>5. PICK h1 \in Int, l1 \in Int :
              h1 + l1 = h + l + 1 /\ HeadOwes(A, q, h1)' /\ TailOwes(B, q, l1)'
      BY <2>4
    <2>6. i + h1 + l1 = Users(q)'
      BY <2>3, <2>5
    <2>7. node'[q].internal_count = i /\ node'[q].next = node[q].next
      BY <1>3, <2>2
    <2>8. Owes(A, B, q, h1, l1)'
      BY <2>5, <2>6, <2>7 DEF Owes
    <2>9. QED
      BY <1>3, <2>3, <2>7, <2>8 DEF NodeInv
  <1>14. \A n \in Nodes : NodeInv(A, B, n)'
    BY <1>12, <1>13
  <1>15. QED
    BY <1>0, <1>1, <1>7, <1>8, <1>9, <1>11, <1>14, Assemble

LEMMA PushInv ==
    ASSUME IInv, TypeOK', NEW t \in Threads, Others(t), Push(t),
           NEW lo \in Nat, NEW k \in Nat, NEW hi \in Nat, NEW b \in [lo..hi -> Nodes],
           Shape(b, lo, k, hi)
    PROVE  IInv' /\ Linked(b, lo, hi, head_.ptr, node)'
  <1>0. TypeOK /\ NewInv /\ ReleaseInv
    BY DEF IInv
  <1>1. PICK A, B : A = Behind(b, lo, hi) /\ B = Behind(b, k, hi)
    OBVIOUS
  <1>2. /\ Chain(b, lo, k, hi) /\ \A u \in Threads : ThreadOK(A, B, u)
        /\ \A n \in Nodes : NodeInv(A, B, n)
    BY <1>1 DEF Shape, Inv
  <1>3. PICK s \in Nodes : /\ node[s] = Null
                           /\ node' = [node EXCEPT ![s] = NewNode(Head(todo[t]))]
                           /\ new' = [new EXCEPT ![t] = s]
    BY DEF Push
  <1>4. /\ pc[t] = "idle" /\ pc'[t] = "viewTail" /\ head_' = head_ /\ tail_' = tail_
        /\ Head(todo[t]) \in Items
    BY <1>0 DEF Push, Calls, Goto, TypeOK
  <1>5. /\ new[t] = Null /\ new'[t] = s /\ s # Null
        /\ \A u \in Threads \ {t} : new'[u] = new[u]
    <2>1. new[t] = Null
      BY <1>2, <1>4 DEF ThreadOK
    <2>2. QED
      BY <1>0, <1>3, <2>1, Constants DEF TypeOK
  <1>6. \A n \in Nodes : n # s => node'[n] = node[n]
    BY <1>0, <1>3 DEF TypeOK
  <1>7. /\ node'[s] # Null /\ node'[s].internal_count = 2 * kOneCounter
        /\ node'[s].next = NullPtr /\ node'[s].value \in Items
    <2>1. node'[s] = NewNode(Head(todo[t]))
      BY <1>0, <1>3 DEF TypeOK
    <2>2. PICK x \in Items : x = Head(todo[t])
      BY <1>4
    <2>3. NewNode(x) \in NodeRecords
      <3>1. 2 * kOneCounter \in Int
        BY Constants
      <3>2. QED
        BY <3>1, Constants DEF NewNode, NodeRecords
    <2>4. NewNode(x) # Null
      BY <2>3, Constants
    <2>5. QED
      BY <2>1, <2>2, <2>4 DEF NewNode
  <1>8. /\ pc[t] \notin Viewing /\ pc'[t] \notin Viewing
        /\ pc'[t] \notin HeadReleasing /\ pc[t] \notin HeadReleasing
        /\ pc'[t] \notin TailReleasing
    BY <1>4 DEF Viewing, HeadReleasing, TailReleasing
  <1>9. /\ ThreadOK(A, B, t)'
        /\ \A n : /\ t \notin Viewers(n)' /\ t \notin Takers(n)'
                  /\ t \notin Viewers(n) /\ t \notin Takers(n)
    BY <1>4, <1>5, <1>8, NotLooking, SetsAfter
  <1>10. Viewers(s) = {} /\ Takers(s) = {}
    <2>1. \A u \in Viewers(s) : u \in Threads /\ Views(A, B, u, s)
      BY <1>2 DEF ThreadOK, Viewers
    <2>2. \A u \in Takers(s) : u \in Threads /\ Takes(A, s)
      BY <1>2 DEF ThreadOK, Takers
    <2>3. QED
      BY <1>3, <2>1, <2>2 DEF Views, Takes
  <1>11. s \notin News
    BY <1>0, <1>3 DEF NewInv, NewNodeInv
  <1>12. News' = News \cup {s}
    <2>1. \A n \in Nodes : (\E u \in Threads : new'[u] = n)
                           <=> n = s \/ \E u \in Threads : new[u] = n
      <3>1. \A n \in Nodes : n # Null
        BY Constants
      <3>2. QED
        BY <1>5, <3>1
    <2>2. QED
      BY <2>1 DEF News
  <1>13. NewInv'
    <2>1. NewNodeInv(s)'
      BY <1>7, <1>9, <1>10, SetsAfter DEF NewNodeInv
    <2>2. ASSUME NEW n \in News PROVE NewNodeInv(n)'
      <3>1. NewNodeInv(n) /\ n # s /\ n \in Nodes
        BY <1>0, <1>11 DEF NewInv, News
      <3>2. Viewers(n)' = {} /\ Takers(n)' = {} /\ node'[n] = node[n]
        BY <1>6, <1>9, <3>1, SetsAfter DEF NewNodeInv
      <3>3. QED
        BY <3>1, <3>2 DEF NewNodeInv
    <2>3. ASSUME NEW u \in Threads, NEW v \in Threads, new'[u] = new'[v], new'[u] # Null
          PROVE  u = v
      <3>1. \A w \in Threads : new[w] # s
        BY <1>11 DEF News
      <3>2. QED
        BY <1>0, <1>5, <2>3, <3>1 DEF NewInv
    <2>4. QED
      BY <1>12, <2>1, <2>2, <2>3 DEF NewInv
  <1>14. ReleaseInv'
    BY <1>0, <1>8, ReleaseKept
  <1>15. Chain(b, lo, k, hi)'
    <2>1. \A i \in lo..hi : b[i] \in Nodes /\ b[i] # s
      BY <1>2, <1>3 DEF Chain, Linked
    <2>2. \A i \in lo..hi : node'[b[i]] = node[b[i]] /\ b[i] \notin News'
      BY <1>2, <1>6, <1>12, <2>1 DEF Chain
    <2>3. /\ \A i \in lo..(hi-1) : i \in lo..hi
          /\ \A i \in (lo+1)..hi : i \in lo..hi
          /\ hi \in lo..hi
      BY <1>2 DEF Chain, Linked
    <2>4. Linked(b, lo, hi, head_'.ptr, node')
      BY <1>2, <1>4, <2>2, <2>3 DEF Chain, Linked
    <2>5. QED
      BY <1>2, <1>4, <2>2, <2>4 DEF Chain
  <1>16. ASSUME NEW u \in Threads PROVE ThreadOK(A, B, u)'
    <2>1. \A n \in Nodes : node[n] # Null /\ n \notin News => Kept(A, B, A, B, n)
      BY <1>3, <1>4, <1>6, <1>12 DEF Kept
    <2>2. ThreadOK(A, B, u)
      BY <1>2
    <2>3. \A n \in Nodes : u \in Viewers(n) \/ u \in Takers(n) => node'[n] # Null
      BY <1>3, <1>6, <2>2 DEF ThreadOK, Views, Takes
    <2>4. u # t => ThreadOK(A, B, u)'
      BY <2>1, <2>2, <2>3, ThreadKept
    <2>5. QED
      BY <1>9, <2>4
  <1>17. ASSUME NEW n \in Nodes PROVE NodeInv(A, B, n)'
    <2>1. CASE n = s
      BY <1>12, <2>1 DEF NodeInv
    <2>2. CASE n # s
      <3>1. \A u \in Threads : Alike(u, n)
        BY <1>9, OthersAlike DEF Alike, AlikeHead, AlikeTail
      <3>2. NodeInv(A, B, n) /\ node'[n] = node[n] /\ (n \in News' <=> n \in News)
        BY <1>2, <1>6, <1>12, <2>2
      <3>3. QED
        BY <1>4, <3>1, <3>2, NodeKept
    <2>3. QED
      BY <2>1, <2>2
  <1>18. QED
    BY <1>0, <1>1, <1>13, <1>14, <1>15, <1>16, <1>17, Assemble

\* c is the list b with the node s at its end.
Extends(c, b, lo, k, hi, s) ==
    /\ c[hi+1] = s
    /\ \A i \in lo..hi : c[i] = b[i]
    /\ \A i \in lo..(hi+1) : \A j \in lo..(hi+1) : c[i] = c[j] => i = j
    /\ Behind(c, lo, hi + 1) = Behind(b, lo, hi) \cup {s}
    /\ Behind(c, k, hi + 1) = Behind(b, k, hi) \cup {s}

LEMMA Longer ==
    ASSUME NEW lo \in Nat, NEW k \in Nat, NEW hi \in Nat, NEW b, Chain(b, lo, k, hi),
           NEW s \in Nodes, \A i \in lo..hi : b[i] # s
    PROVE  \E c \in [lo..(hi+1) -> Nodes] : Extends(c, b, lo, k, hi, s)
  <1>0. PICK c : c = [i \in lo..(hi+1) |-> IF i = hi + 1 THEN s ELSE b[i]]
    OBVIOUS
  <1>1. /\ b \in [lo..hi -> Nodes] /\ lo <= hi /\ k \in lo..hi
        /\ \A i \in lo..hi : \A j \in lo..hi : b[i] = b[j] => i = j
    BY DEF Chain, Linked
  <1>2. /\ \A i \in lo..(hi+1) : i = hi + 1 \/ i \in lo..hi
        /\ \A i \in lo..hi : i \in lo..(hi+1) /\ i # hi + 1
        /\ hi + 1 \in lo..(hi+1)
    BY <1>1
  <1>3. /\ c \in [lo..(hi+1) -> Nodes] /\ c[hi+1] = s /\ \A i \in lo..hi : c[i] = b[i]
    BY <1>0, <1>1, <1>2
  <1>4. \A i \in lo..(hi+1) : \A j \in lo..(hi+1) : c[i] = c[j] => i = j
    BY <1>1, <1>2, <1>3
  <1>5. ASSUME NEW m \in lo..hi PROVE Behind(c, m, hi + 1) = Behind(b, m, hi) \cup {s}
    <2>1. /\ \A i \in (m+1)..(hi+1) : i = hi + 1 \/ (i \in (m+1)..hi /\ i \in lo..hi)
          /\ \A i \in (m+1)..hi : i \in (m+1)..(hi+1) /\ i \in lo..hi
          /\ hi + 1 \in (m+1)..(hi+1)
      BY <1>1
    <2>2. {c[i] : i \in (m+1)..(hi+1)} = {b[i] : i \in (m+1)..hi} \cup {s}
      BY <1>3, <2>1
    <2>3. QED
      BY <2>2 DEF Behind
  <1>6. lo \in lo..hi
    BY <1>1
  <1>7. Extends(c, b, lo, k, hi, s)
    BY <1>1, <1>3, <1>4, <1>5, <1>6 DEF Extends
  <1>8. QED
    BY <1>3, <1>7

\* What the thread that links its node finds.
LEMMA LinkFinds ==
    ASSUME IInv, NEW t \in Threads, Link(t), At(view[t]).next = NullPtr,
           NEW lo \in Nat, NEW k \in Nat, NEW hi \in Nat, NEW b \in [lo..hi -> Nodes],
           Shape(b, lo, k, hi)
    PROVE  /\ pc[t] = "link" /\ pc'[t] = "swing" /\ head_' = head_ /\ tail_' = tail_
           /\ view' = view /\ tail' = tail /\ got' = got
           /\ \E s \in Nodes :
                 /\ new[t] = s /\ NewNodeInv(s) /\ s \in News
                 /\ \A i \in lo..hi : b[i] # s
                 /\ view[t].ptr = b[hi] /\ b[hi] \in Nodes /\ node[b[hi]] # Null
                 /\ node' \in [Nodes -> NodeRecords \cup {Null}]
                 /\ \A n \in Nodes : n # b[hi] => node'[n] = node[n]
                 /\ node'[b[hi]] # Null /\ node'[b[hi]].next = Counted(s, 1)
                 /\ node'[b[hi]].internal_count = node[b[hi]].internal_count
                 /\ node'[b[hi]].value = node[b[hi]].value
                 /\ Counted(s, 1) # NullPtr
                 /\ next'[t] = Counted(s, 1) /\ new'[t] = Null
  <1>0. TypeOK /\ NewInv
    BY DEF IInv
  <1>1. PICK A, B : A = Behind(b, lo, hi) /\ B = Behind(b, k, hi)
    OBVIOUS
  <1>2. /\ Chain(b, lo, k, hi) /\ ThreadOK(A, B, t)
        /\ \A n \in Nodes : NodeInv(A, B, n)
    BY <1>1 DEF Shape, Inv
  <1>3. /\ pc[t] = "link" /\ pc'[t] = "swing" /\ head_' = head_ /\ tail_' = tail_
        /\ view' = view /\ tail' = tail /\ got' = got
        /\ node' = [node EXCEPT ![view[t].ptr].next = Counted(new[t], 1)]
        /\ next'[t] = Counted(new[t], 1) /\ new'[t] = Null
    BY <1>0 DEF Link, Goto, TypeOK
  <1>4. PICK m \in Nodes : /\ view[t].ptr = m /\ t \in Viewers(m) /\ Views(A, B, t, m)
                           /\ \A n : t \in Viewers(n) <=> n = m
    BY <1>2, <1>3, Looking DEF Viewing
  <1>5. m = b[hi] /\ node[m] # Null
    <2>1. node[m] # Null /\ m \notin News /\ node[m].next = NullPtr
      BY <1>4 DEF Views, At
    <2>2. m \in A \cup {head_.ptr}
      BY <1>2, <2>1 DEF NodeInv
    <2>3. \A n \in A \cup {head_.ptr} : node[n].next = NullPtr <=> n = b[hi]
      BY <1>1, <1>2, ChainFacts
    <2>4. QED
      BY <2>1, <2>2, <2>3
  <1>6. PICK s \in Nodes : new[t] = s
    BY <1>0, <1>2, <1>3 DEF ThreadOK, TypeOK
  <1>7. s \in News /\ NewNodeInv(s)
    BY <1>0, <1>6 DEF News, NewInv
  <1>8. \A i \in lo..hi : b[i] # s
    BY <1>2, <1>7 DEF Chain
  <1>9. Counted(s, 1) \in CountedPtrs /\ Counted(s, 1) # NullPtr
    BY Constants
  <1>10. node' = [node EXCEPT ![m].next = Counted(s, 1)]
    BY <1>3, <1>4, <1>6
  <1>11. /\ node' \in [Nodes -> NodeRecords \cup {Null}]
         /\ \A n \in Nodes : n # m => node'[n] = node[n]
         /\ node'[m] # Null /\ node'[m].next = Counted(s, 1)
         /\ node'[m].internal_count = node[m].internal_count
         /\ node'[m].value = node[m].value
    BY <1>0, <1>5, <1>9, <1>10, Linking
  <1>12. QED
    BY <1>3, <1>4, <1>5, <1>6, <1>7, <1>8, <1>9, <1>11

\* After the step, c is the list b with the node s at its end.
Lengthened(c, b, lo, hi, s) ==
    /\ c[hi+1] = s
    /\ \A i \in lo..hi : c[i] = b[i]
    /\ Linked(c, lo, hi + 1, head_'.ptr, node')

LEMMA LinkInv ==
    ASSUME IInv, TypeOK', NEW t \in Threads, Others(t), Link(t), At(view[t]).next = NullPtr,
           NEW lo \in Nat, NEW k \in Nat, NEW hi \in Nat, NEW b \in [lo..hi -> Nodes],
           Shape(b, lo, k, hi)
    PROVE  IInv' /\ \E c \in [lo..(hi+1) -> Nodes] : Lengthened(c, b, lo, hi, new[t])
  <1>0. TypeOK /\ NewInv /\ ReleaseInv
    BY DEF IInv
  <1>1. PICK A, B : A = Behind(b, lo, hi) /\ B = Behind(b, k, hi)
    OBVIOUS
  <1>2. /\ Chain(b, lo, k, hi) /\ \A u \in Threads : ThreadOK(A, B, u)
        /\ \A n \in Nodes : NodeInv(A, B, n)
    BY <1>1 DEF Shape, Inv
  <1>3. /\ pc[t] = "link" /\ pc'[t] = "swing" /\ head_' = head_ /\ tail_' = tail_
        /\ view' = view /\ tail' = tail
    BY LinkFinds
  <1>4. PICK s \in Nodes, m \in Nodes :
                 /\ new[t] = s /\ NewNodeInv(s) /\ s \in News
                 /\ \A i \in lo..hi : b[i] # s
                 /\ view[t].ptr = m /\ m = b[hi] /\ node[m] # Null
                 /\ \A n \in Nodes : n # m => node'[n] = node[n]
                 /\ node'[m] # Null /\ node'[m].next = Counted(s, 1)
                 /\ node'[m].internal_count = node[m].internal_count
                 /\ node'[m].value = node[m].value
                 /\ Counted(s, 1) # NullPtr
                 /\ next'[t] = Counted(s, 1) /\ new'[t] = Null
    BY LinkFinds
  <1>5. PICK c \in [lo..(hi+1) -> Nodes] : Extends(c, b, lo, k, hi, s)
    BY <1>2, <1>4, Longer
  <1>6. /\ c \in [lo..(hi+1) -> Nodes] /\ c[hi+1] = s
        /\ \A i \in lo..hi : c[i] = b[i]
        /\ \A i \in lo..(hi+1) : \A j \in lo..(hi+1) : c[i] = c[j] => i = j
        /\ Behind(c, lo, hi + 1) = A \cup {s}
        /\ Behind(c, k, hi + 1) = B \cup {s}
    BY <1>1, <1>5 DEF Extends
  <1>7. PICK C, D : C = A \cup {s} /\ D = B \cup {s}
    OBVIOUS
  <1>8. /\ lo \in lo..hi /\ hi \in lo..hi /\ lo <= hi /\ k \in lo..hi
        /\ head_.ptr = b[lo] /\ tail_.ptr = b[k] /\ m \notin News /\ m # s
        /\ head_.ptr # s /\ tail_.ptr # s
    <2>1. lo <= hi /\ k \in lo..hi /\ head_.ptr = b[lo] /\ tail_.ptr = b[k]
      BY <1>2 DEF Chain, Linked
    <2>2. lo \in lo..hi /\ hi \in lo..hi
      BY <2>1
    <2>3. m \notin News
      BY <1>2, <1>4, <2>2 DEF Chain
    <2>4. QED
      BY <1>4, <2>1, <2>2, <2>3
  <1>9. node'[s] = node[s] /\ \A n \in News : node'[n] = node[n]
    BY <1>4, <1>8 DEF News
  <1>10. /\ pc[t] \in Viewing /\ pc'[t] \in Viewing
         /\ pc'[t] \notin HeadReleasing /\ pc[t] \notin HeadReleasing
         /\ pc'[t] \notin TailReleasing /\ pc[t] \notin TailReleasing
    BY <1>3 DEF Viewing, HeadReleasing, TailReleasing
  <1>11. \A n : /\ t \in Viewers(n) <=> n = m
                /\ t \in Viewers(n)' <=> n = m
                /\ t \notin Takers(n) /\ t \notin Takers(n)'
    BY <1>3, <1>4, <1>10, SetsAfter
  <1>12. NewInv' /\ News' = News \ {s}
    <2>1. \A n \in News : node'[n] = node[n] /\ t \notin Viewers(n)' /\ t \notin Takers(n)'
      BY <1>8, <1>9, <1>11
    <2>2. new'[t] \in {new[t], Null} /\ new'[t] # new[t]
      BY <1>4, Constants
    <2>3. NewInv' /\ News' = {n \in News : new'[t] = new[t] \/ n # new[t]}
      BY <1>0, <2>1, <2>2, NewsKept
    <2>4. QED
      BY <1>4, <2>2, <2>3
  <1>13. ReleaseInv'
    BY <1>0, <1>10, ReleaseKept
  <1>14. Chain(c, lo, k, hi + 1)'
    <2>0. /\ \A i \in lo..hi : b[i] \in Nodes /\ node[b[i]] # Null /\ b[i] \notin News
          /\ \A i \in lo..(hi-1) : node[b[i]].next = Counted(b[i+1], 1)
          /\ \A i \in (lo+1)..hi : node[b[i]].value \in Items
          /\ \A i \in lo..hi : \A j \in lo..hi : b[i] = b[j] => i = j
      BY <1>2 DEF Chain, Linked
    <2>1. /\ \A i \in lo..(hi+1) : i = hi + 1 \/ i \in lo..hi
          /\ \A i \in (lo+1)..(hi+1) : i = hi + 1 \/ (i \in (lo+1)..hi /\ i \in lo..hi)
          /\ \A i \in lo..(hi+1-1) : i = hi \/ (i \in lo..(hi-1) /\ i \in lo..hi
                                                 /\ i + 1 \in lo..hi /\ i # hi)
          /\ lo <= hi + 1 /\ k \in lo..(hi+1)
      BY <1>8
    <2>2. \A i \in lo..(hi+1) : node'[c[i]] # Null /\ c[i] \notin News'
      BY <1>4, <1>6, <1>9, <1>12, <2>0, <2>1 DEF NewNodeInv
    <2>3. ASSUME NEW i \in lo..(hi+1-1) PROVE node'[c[i]].next = Counted(c[i+1], 1)
      <3>1. CASE i = hi
        BY <1>4, <1>6, <1>8, <3>1
      <3>2. CASE i # hi
        <4>1. i \in lo..(hi-1) /\ i \in lo..hi /\ i + 1 \in lo..hi
          BY <2>1, <3>2
        <4>2. b[i] # m
          BY <1>4, <1>8, <2>0, <3>2, <4>1
        <4>3. node'[b[i]] = node[b[i]]
          BY <1>4, <2>0, <4>1, <4>2
        <4>4. QED
          BY <1>6, <2>0, <4>1, <4>3
      <3>3. QED
        BY <3>1, <3>2
    <2>4. node'[c[hi+1]].next = NullPtr
      BY <1>4, <1>6, <1>9 DEF NewNodeInv
    <2>5. \A i \in (lo+1)..(hi+1) : node'[c[i]].value \in Items
      BY <1>4, <1>6, <1>9, <2>0, <2>1 DEF NewNodeInv
    <2>6. c[lo] = head_'.ptr /\ c[k] = tail_'.ptr
      BY <1>3, <1>6, <1>8
    <2>7. Linked(c, lo, hi + 1, head_'.ptr, node')
      <3>1. PICK h, nodes, l : h = head_'.ptr /\ nodes = node' /\ l = hi + 1
        OBVIOUS
      <3>2. /\ c \in [lo..l -> Nodes] /\ lo <= l /\ c[lo] = h
            /\ nodes[c[l]].next = NullPtr
            /\ \A i \in lo..l : \A j \in lo..l : c[i] = c[j] => i = j
            /\ \A i \in lo..l : nodes[c[i]] # Null
            /\ \A i \in lo..(l-1) : nodes[c[i]].next = Counted(c[i+1], 1)
            /\ \A i \in (lo+1)..l : nodes[c[i]].value \in Items
        BY <1>6, <2>1, <2>2, <2>3, <2>4, <2>5, <2>6, <3>1
      <3>3. Linked(c, lo, l, h, nodes)
        BY <3>2 DEF Linked
      <3>4. QED
        BY <3>1, <3>3
    <2>8. QED
      BY <2>1, <2>2, <2>6, <2>7 DEF Chain
  <1>15. ASSUME NEW u \in Threads PROVE ThreadOK(C, D, u)'
    <2>1. \A n \in Nodes : node[n] # Null /\ n \notin News => Kept(A, B, C, D, n)
      <3>1. ASSUME NEW n \in Nodes, node[n] # Null, n \notin News PROVE Kept(A, B, C, D, n)
        <4>1. n # s /\ n \notin News' /\ (n \in C <=> n \in A) /\ (n \in D <=> n \in B)
          BY <1>4, <1>7, <1>12, <3>1
        <4>2. node[m].next = NullPtr
          BY <1>1, <1>2, <1>4, <1>8 DEF Chain, Linked
        <4>3. /\ node'[n].value = node[n].value
              /\ \/ node'[n].next = node[n].next
                 \/ node[n].next = NullPtr /\ node'[n].next # NullPtr
          BY <1>4, <4>2
        <4>4. QED
          BY <1>3, <4>1, <4>3 DEF Kept
      <3>2. QED
        BY <3>1
    <2>2. ThreadOK(A, B, u)
      BY <1>2
    <2>3. \A n \in Nodes : u \in Viewers(n) \/ u \in Takers(n) => node'[n] # Null
      BY <1>4, <2>2 DEF ThreadOK, Views, Takes
    <2>4. u # t => ThreadOK(C, D, u)'
      BY <2>1, <2>2, <2>3, ThreadKept
    <2>5. ThreadOK(C, D, t)'
      <3>1. Views(C, D, t, m)'
        BY <1>3, <1>4, <1>8, <1>12 DEF Views, HeadReleasing, TailReleasing, PopView
      <3>2. view'[t].ptr = m /\ pc'[t] \notin {"viewTail", "link", "loadNext"} /\ new'[t] = Null
        BY <1>3, <1>4
      <3>3. QED
        BY <1>10, <3>1, <3>2, ThreadAfter
    <2>6. QED
      BY <2>4, <2>5
  <1>16. ASSUME NEW n \in Nodes PROVE NodeInv(C, D, n)'
    <2>1. CASE n = s
      <3>1. Viewers(s)' = {} /\ Takers(s)' = {}
        BY <1>4, <1>8, <1>11, SetsAfter DEF NewNodeInv
      <3>2. Users(s)' = 0
        <4>1. Cardinality(Viewers(s)') = 0 /\ Cardinality(Takers(s)') = 0
          BY <3>1, FS_EmptySet
        <4>2. QED
          BY <4>1 DEF Users
      <3>3. HeadOwes(C, s, -kOneCounter)' /\ TailOwes(D, s, -kOneCounter)'
        BY <1>3, <1>7, <1>8, <3>1 DEF HeadOwes, TailOwes
      <3>4. node'[s].internal_count = 2 * kOneCounter
        BY <1>4, <1>9 DEF NewNodeInv
      <3>5. /\ -kOneCounter \in Int /\ 2 * kOneCounter > 0
            /\ 2 * kOneCounter + (-kOneCounter) + (-kOneCounter) = 0
        BY Constants
      <3>6. Owes(C, D, s, -kOneCounter, -kOneCounter)'
        BY <3>2, <3>3, <3>4, <3>5 DEF Owes
      <3>7. QED
        BY <1>7, <2>1, <3>4, <3>5, <3>6 DEF NodeInv
    <2>2. CASE n # s
      <3>1. \A u \in Threads : Alike(u, n)
        BY <1>10, <1>11, OthersAlike DEF Alike, AlikeHead, AlikeTail
      <3>2. /\ NodeInv(A, B, n) /\ (n \in News' <=> n \in News)
            /\ (n \in C <=> n \in A) /\ (n \in D <=> n \in B)
        BY <1>2, <1>7, <1>12, <2>2
      <3>3. node'[n] # Null => /\ node[n] # Null
                               /\ node'[n].internal_count = node[n].internal_count
                               /\ node[n].next # NullPtr => node'[n].next # NullPtr
        BY <1>4
      <3>4. QED
        BY <1>3, <3>1, <3>2, <3>3, NodeKept
    <2>3. QED
      BY <2>1, <2>2
  <1>17. C = Behind(c, lo, hi + 1) /\ D = Behind(c, k, hi + 1) /\ hi + 1 \in Nat
    BY <1>6, <1>7
  <1>18. IInv'
    BY <1>6, <1>12, <1>13, <1>14, <1>15, <1>16, <1>17, Assemble
  <1>19. Lengthened(c, b, lo, hi, new[t])
    BY <1>4, <1>6, <1>14 DEF Lengthened, Chain
  <1>20. QED
    BY <1>6, <1>18, <1>19

\* The nodes behind b[i], without the first of them.
LEMMA Beyond ==
    ASSUME NEW lo \in Nat, NEW k \in Nat, NEW hi \in Nat, NEW b, Chain(b, lo, k, hi),
           NEW i \in lo..hi, i # hi
    PROVE  /\ i + 1 \in lo..hi /\ b[i+1] \in Nodes /\ b[i+1] # b[i] /\ i + 1 \in Nat
           /\ b[i+1] \in Behind(b, i, hi)
           /\ Behind(b, i + 1, hi) = Behind(b, i, hi) \ {b[i+1]}
           /\ node[b[i]].next = Counted(b[i+1], 1)
  <1>1. /\ b \in [lo..hi -> Nodes] /\ lo <= hi
        /\ \A j \in lo..(hi-1) : node[b[j]].next = Counted(b[j+1], 1)
        /\ \A j \in lo..hi : \A l \in lo..hi : b[j] = b[l] => j = l
    BY DEF Chain, Linked
  <1>2. i + 1 \in lo..hi /\ i \in lo..(hi-1) /\ i + 1 # i
    OBVIOUS
  <1>3. b[i+1] # b[i]
    BY <1>1, <1>2
  <1>4. /\ \A j \in (i+1)..hi : j \in lo..hi /\ (j = i + 1 \/ j \in (i+1+1)..hi)
        /\ \A j \in (i+1+1)..hi : j \in (i+1)..hi /\ j # i + 1
        /\ i + 1 \in (i+1)..hi
    BY <1>2
  <1>5. \A j \in (i+1+1)..hi : b[j] # b[i+1]
    BY <1>1, <1>2, <1>4
  <1>6. {b[j] : j \in (i+1+1)..hi} = {b[j] : j \in (i+1)..hi} \ {b[i+1]}
    BY <1>4, <1>5
  <1>7. b[i+1] \in {b[j] : j \in (i+1)..hi}
    BY <1>4
  <1>8. QED
    BY <1>1, <1>2, <1>3, <1>6, <1>7 DEF Behind

\* tail_ moves on to the next node.
TailMoves(t) == \/ Swing(t) /\ tail_ = view[t]
                \/ Help(t) /\ tail_ = tail[t]

LEMMA TailInv ==
    ASSUME IInv, TypeOK', NEW t \in Threads, Others(t), TailMoves(t),
           NEW lo \in Nat, NEW k \in Nat, NEW hi \in Nat, NEW b \in [lo..hi -> Nodes],
           Shape(b, lo, k, hi)
    PROVE  IInv' /\ Linked(b, lo, hi, head_.ptr, node)'
  <1>0. TypeOK /\ NewInv /\ ReleaseInv
    BY DEF IInv
  <1>1. PICK A, B : A = Behind(b, lo, hi) /\ B = Behind(b, k, hi)
    OBVIOUS
  <1>2. /\ Chain(b, lo, k, hi) /\ \A u \in Threads : ThreadOK(A, B, u)
        /\ \A n \in Nodes : NodeInv(A, B, n)
    BY <1>1 DEF Shape, Inv
  <1>3. /\ UNCHANGED <<head_, node, view, tail, next, new>> /\ tail_' = next[t]
        /\ \/ /\ pc[t] = "swing" /\ pc'[t] = "releaseTail" /\ tail_ = view[t]
           \/ /\ pc[t] = "help" /\ pc'[t] = "releaseHelped" /\ tail_ = tail[t]
    <2>1. CASE Swing(t) /\ tail_ = view[t]
      BY <1>0, <2>1 DEF Swing, Goto, TypeOK, locals
    <2>2. CASE Help(t) /\ tail_ = tail[t]
      BY <1>0, <2>2 DEF Help, Goto, TypeOK, locals
    <2>3. QED
      BY <2>1, <2>2 DEF TailMoves
  <1>4. /\ pc[t] \in Viewing /\ pc'[t] \in Viewing
        /\ pc'[t] \notin HeadReleasing /\ pc[t] \notin HeadReleasing
        /\ pc'[t] \in TailReleasing /\ pc[t] \notin TailReleasing
        /\ Replaced(t)' = tail_.count
    BY <1>3 DEF Viewing, HeadReleasing, TailReleasing, Replaced
  <1>5. PICK m \in Nodes : /\ view[t].ptr = m /\ t \in Viewers(m) /\ Views(A, B, t, m)
                           /\ \A n : t \in Viewers(n) <=> n = m
    BY <1>2, <1>4, Looking
  <1>6. /\ tail_.ptr = m /\ m = b[k] /\ k \in lo..hi /\ lo <= hi /\ b[lo] = head_.ptr
        /\ node[m] # Null /\ m \notin News
        /\ tail_' = node[m].next /\ node[m].next # NullPtr
    BY <1>2, <1>3, <1>5 DEF Views, Chain, Linked
  <1>7. k # hi
    BY <1>2, <1>6 DEF Chain, Linked
  <1>8. PICK q \in Nodes : q = b[k+1]
    BY <1>2, <1>6, <1>7, Beyond
  <1>9. PICK D : D = Behind(b, k + 1, hi)
    OBVIOUS
  <1>10. /\ k + 1 \in lo..hi /\ k + 1 \in Nat /\ q # m /\ q \in B /\ D = B \ {q}
         /\ tail_' = Counted(q, 1)
    BY <1>1, <1>2, <1>6, <1>7, <1>8, <1>9, Beyond
  <1>11. /\ tail_'.ptr = q /\ tail_'.count = 1
         /\ q \in A /\ B \subseteq A /\ m \notin B /\ node[q] # Null /\ q \notin News
    BY <1>1, <1>2, <1>6, <1>10, Constants, ChainFacts
  <1>12. \A n : /\ t \in Viewers(n)' <=> n = m
                /\ t \in Viewers(n) <=> n = m
                /\ t \notin Takers(n) /\ t \notin Takers(n)'
    BY <1>3, <1>4, <1>5, SetsAfter
  <1>13. NewInv' /\ News' = News
    <2>1. \A n \in News : node'[n] = node[n] /\ t \notin Viewers(n)' /\ t \notin Takers(n)'
      BY <1>3, <1>6, <1>12
    <2>2. new'[t] \in {new[t], Null} /\ new'[t] = new[t]
      BY <1>3
    <2>3. NewInv' /\ News' = {n \in News : new'[t] = new[t] \/ n # new[t]}
      BY <1>0, <2>1, <2>2, NewsKept
    <2>4. QED
      BY <2>2, <2>3
  <1>14. \A u \in Viewers(m) : pc[u] \notin TailReleasing
    <2>1. \A u \in Viewers(m) : u \in Threads /\ Views(A, B, u, m)
      BY <1>2 DEF ThreadOK, Viewers
    <2>2. QED
      BY <1>6, <2>1 DEF Views
  <1>15. \A u \in Viewers(q) : pc[u] \notin TailReleasing
    <2>1. \A u \in Viewers(q) : u \in Threads /\ Views(A, B, u, q)
      BY <1>2 DEF ThreadOK, Viewers
    <2>2. QED
      BY <1>10, <2>1 DEF Views
  <1>16. ReleaseInv'
    BY <1>0, <1>3, <1>4, <1>5, <1>14, ReleaseKept
  <1>17. Chain(b, lo, k + 1, hi)'
    BY <1>2, <1>3, <1>8, <1>10, <1>11, <1>13 DEF Chain
  <1>18. ASSUME NEW u \in Threads PROVE ThreadOK(A, D, u)'
    <2>1. \A n \in Nodes : node[n] # Null /\ n \notin News => Kept(A, B, A, D, n)
      BY <1>3, <1>10, <1>11, <1>13 DEF Kept
    <2>2. ThreadOK(A, B, u)
      BY <1>2
    <2>3. \A n \in Nodes : u \in Viewers(n) \/ u \in Takers(n) => node'[n] # Null
      BY <1>3, <2>2 DEF ThreadOK, Views, Takes
    <2>4. u # t => ThreadOK(A, D, u)'
      BY <2>1, <2>2, <2>3, ThreadKept
    <2>5. ThreadOK(A, D, t)'
      <3>1. m \notin D /\ tail_'.ptr # m /\ node'[m] # Null /\ m \notin News'
        BY <1>3, <1>6, <1>10, <1>11, <1>13
      <3>2. pc'[t] = "releaseHelped" => m \notin A /\ tail'[t].ptr = m /\ new'[t] = Null
        BY <1>2, <1>3, <1>5, <1>6 DEF Views, ThreadOK, PopView
      <3>3. pc'[t] = "releaseTail" \/ pc'[t] = "releaseHelped"
        BY <1>3
      <3>4. Views(A, D, t, m)'
        BY <3>1, <3>2, <3>3 DEF Views, HeadReleasing, PopView
      <3>5. /\ pc'[t] \in {"idle", "viewHead"} \cup PopView => new'[t] = Null
            /\ pc'[t] \notin {"viewTail", "link", "loadNext"}
        BY <3>2, <3>3 DEF PopView
      <3>6. QED
        BY <1>3, <1>4, <1>5, <3>4, <3>5, ThreadAfter
    <2>6. QED
      BY <2>4, <2>5
  <1>19. ASSUME NEW n \in Nodes, NEW h \in Int, HeadOwes(A, n, h) PROVE HeadOwes(A, n, h)'
    <2>1. \A u \in Threads : AlikeHead(u, n)
      BY <1>4, OthersAlike DEF Alike, AlikeHead
    <2>2. QED
      BY <1>3, <1>19, <2>1, SameHeadOwes
  <1>20. ASSUME NEW n \in Nodes PROVE Users(n)' = Users(n)
    <2>1. Takers(n)' = Takers(n) \ {t} /\ t \notin Takers(n)
      BY <1>12, SetsAfter
    <2>2. CASE n = m
      <3>1. Viewers(n)' = Viewers(n) \cup {t} /\ t \in Viewers(n)
        BY <1>12, <2>2, SetsAfter
      <3>2. Viewers(n)' = Viewers(n) /\ Takers(n)' = Takers(n)
        BY <2>1, <3>1
      <3>3. QED
        BY <3>2 DEF Users
    <2>3. CASE n # m
      <3>1. Viewers(n)' = Viewers(n) \ {t} /\ t \notin Viewers(n)
        BY <1>12, <2>3, SetsAfter
      <3>2. Viewers(n)' = Viewers(n) /\ Takers(n)' = Takers(n)
        BY <2>1, <3>1
      <3>3. QED
        BY <3>2 DEF Users
    <2>4. QED
      BY <2>2, <2>3
  <1>21. ASSUME NEW n \in Nodes PROVE NodeInv(A, D, n)'
    <2>1. CASE n # m /\ n # q
      <3>1. \A u \in Threads : Alike(u, n)
        BY <1>12, <2>1, OthersAlike DEF Alike, AlikeHead, AlikeTail
      <3>2. NodeInv(A, B, n) /\ node'[n] = node[n] /\ (n \in News' <=> n \in News)
            /\ (n \in D <=> n \in B) /\ tail_.ptr # n /\ tail_'.ptr # n
        BY <1>2, <1>3, <1>6, <1>10, <1>11, <1>13, <2>1
      <3>3. QED
        BY <1>3, <3>1, <3>2, NodeKept
    <2>2. ASSUME n = m \/ n = q, NEW h \in Int, NEW l \in Int, Owes(A, B, n, h, l)
          PROVE  TailOwes(D, n, l)'
      <3>1. CASE n = m
        <4>1. TailOwes(B, m, l)
          BY <2>2, <3>1 DEF Owes
        <4>2. l = tail_.count - 1 - kOneCounter
          BY <1>6, <4>1 DEF TailOwes
        <4>3. m \notin D /\ tail_'.ptr # m
          BY <1>10, <1>11
        <4>4. ASSUME NEW u \in Viewers(m)', pc'[u] \in TailReleasing
              PROVE  l = Replaced(u)' - 1 - kOneCounter
          <5>1. u = t
            <6>1. u \in Threads
              BY DEF Viewers
            <6>2. u # t => u \in Viewers(m) /\ pc'[u] = pc[u]
              BY <6>1, SetsAfter DEF Others
            <6>3. QED
              BY <1>14, <4>4, <6>2
          <5>2. QED
            BY <1>4, <4>2, <5>1
        <4>5. t \in Viewers(m)' /\ pc'[t] \in TailReleasing
          BY <1>4, <1>12
        <4>6. QED
          BY <3>1, <4>3, <4>4, <4>5 DEF TailOwes
      <3>2. CASE n = q
        <4>1. TailOwes(B, q, l)
          BY <2>2, <3>2 DEF Owes
        <4>2. l = -kOneCounter
          BY <1>10, <4>1 DEF TailOwes
        <4>3. l = tail_'.count - 1 - kOneCounter
          BY <1>11, <4>2, Constants
        <4>4. \A u \in Viewers(q)' : pc'[u] \notin TailReleasing
          <5>1. ASSUME NEW u \in Viewers(q)' PROVE pc'[u] \notin TailReleasing
            <6>1. u \in Threads /\ u # t
              BY <1>10, <1>12 DEF Viewers
            <6>2. u \in Viewers(q) /\ pc'[u] = pc[u]
              BY <6>1, SetsAfter DEF Others
            <6>3. QED
              BY <1>15, <6>2
          <5>2. QED
            BY <5>1
        <4>5. q \notin D /\ tail_'.ptr = q
          BY <1>10, <1>11
        <4>6. QED
          BY <3>2, <4>3, <4>4, <4>5 DEF TailOwes
      <3>3. QED
        BY <2>2, <3>1, <3>2
    <2>3. CASE n = m \/ n = q
      <3>1. /\ node[n].internal_count > 0
            /\ n \notin A /\ head_.ptr # n => node[n].next # NullPtr
            /\ \E h \in Int : \E l \in Int : Owes(A, B, n, h, l)
        BY <1>2, <1>6, <1>11, <2>3 DEF NodeInv
      <3>2. PICK h \in Int, l \in Int : Owes(A, B, n, h, l)
        BY <3>1
      <3>3. HeadOwes(A, n, h)' /\ TailOwes(D, n, l)' /\ Users(n)' = Users(n)
        BY <1>19, <1>20, <2>2, <2>3, <3>2 DEF Owes
      <3>4. Owes(A, D, n, h, l)'
        BY <1>3, <3>2, <3>3 DEF Owes
      <3>5. QED
        BY <1>3, <3>1, <3>4 DEF NodeInv
    <2>4. QED
      BY <2>1, <2>3
  <1>22. QED
    BY <1>1, <1>9, <1>10, <1>13, <1>16, <1>17, <1>18, <1>21, Assemble

\* What the thread that moves head_ on finds.
LEMMA SwingHeadFinds ==
    ASSUME IInv, NEW t \in Threads, SwingHead(t), head_ = view[t],
           NEW lo \in Nat, NEW k \in Nat, NEW hi \in Nat, NEW b \in [lo..hi -> Nodes],
           Shape(b, lo, k, hi)
    PROVE  /\ UNCHANGED <<node, view, tail, next, new, got>> /\ tail_' = tail_
           /\ pc[t] = "swingHead" /\ pc'[t] = "read"
           /\ lo \in lo..hi /\ lo # hi /\ k \in (lo+1)..hi
           /\ view[t].ptr = b[lo] /\ head_.ptr = b[lo] /\ b[lo] \in Nodes
           /\ next[t] = node[b[lo]].next /\ node[b[lo]].next = Counted(b[lo+1], 1)
           /\ head_'.ptr = b[lo+1] /\ head_'.count = 2
  <1>0. TypeOK
    BY DEF IInv
  <1>1. PICK A, B : A = Behind(b, lo, hi) /\ B = Behind(b, k, hi)
    OBVIOUS
  <1>2. Chain(b, lo, k, hi) /\ ThreadOK(A, B, t)
    BY <1>1 DEF Shape, Inv
  <1>3. /\ UNCHANGED <<node, view, tail, next, new, got>> /\ tail_' = tail_
        /\ head_' = Increased(next[t]) /\ pc[t] = "swingHead" /\ pc'[t] = "read"
    BY <1>0 DEF SwingHead, Goto, TypeOK, locals
  <1>4. PICK m \in Nodes : view[t].ptr = m /\ Views(A, B, t, m)
    BY <1>2, <1>3, Looking DEF Viewing
  <1>5. /\ head_.ptr = m /\ b[lo] = m /\ lo <= hi /\ k \in lo..hi /\ b[k] = tail_.ptr
    BY <1>2, <1>4 DEF Chain, Linked
  <1>6. tail_.ptr # m /\ next[t] = node[m].next
    BY <1>3, <1>4, <1>5 DEF Views
  <1>7. k # lo
    BY <1>5, <1>6
  <1>8. lo \in lo..hi /\ lo # hi /\ k \in (lo+1)..hi
    BY <1>5, <1>7
  <1>9. node[m].next = Counted(b[lo+1], 1) /\ b[lo+1] \in Nodes
    BY <1>2, <1>5, <1>8, Beyond
  <1>10. head_'.ptr = b[lo+1] /\ head_'.count = 2
    <2>1. PICK p \in CountedPtrs : p = Counted(b[lo+1], 1) /\ p.ptr = b[lo+1] /\ p.count = 1
      BY <1>9, Constants
    <2>2. p.count + 1 < kCounts /\ p.count + 1 = 2
      BY <2>1, Constants
    <2>3. Increased(p).ptr = b[lo+1] /\ Increased(p).count = 2
      BY <2>1, <2>2, Counting
    <2>4. QED
      BY <1>3, <1>6, <1>9, <2>1, <2>3
  <1>11. QED
    BY <1>3, <1>4, <1>5, <1>6, <1>8, <1>9, <1>10

\* c is the list b without its first node.
Shortens(c, b, lo, k, hi) ==
    /\ \A i \in (lo+1)..hi : c[i] = b[i]
    /\ Linked(c, lo + 1, hi, b[lo+1], node)
    /\ Behind(c, lo + 1, hi) = Behind(b, lo + 1, hi)
    /\ Behind(c, k, hi) = Behind(b, k, hi)

LEMMA Shorter ==
    ASSUME NEW lo \in Nat, NEW k \in Nat, NEW hi \in Nat, NEW b, Chain(b, lo, k, hi),
           lo # hi, k \in (lo+1)..hi
    PROVE  \E c \in [(lo+1)..hi -> Nodes] : Shortens(c, b, lo, k, hi)
  <1>1. /\ b \in [lo..hi -> Nodes] /\ lo <= hi
        /\ \A i \in lo..hi : node[b[i]] # Null
        /\ \A i \in lo..(hi-1) : node[b[i]].next = Counted(b[i+1], 1)
        /\ node[b[hi]].next = NullPtr
        /\ \A i \in (lo+1)..hi : node[b[i]].value \in Items
        /\ \A i \in lo..hi : \A j \in lo..hi : b[i] = b[j] => i = j
    BY DEF Chain, Linked
  <1>2. /\ \A i \in (lo+1)..hi : i \in lo..hi
        /\ \A i \in (lo+1)..(hi-1) : i \in lo..(hi-1) /\ i \in (lo+1)..hi /\ i + 1 \in (lo+1)..hi
        /\ \A i \in (lo+1+1)..hi : i \in (lo+1)..hi
        /\ lo + 1 <= hi /\ lo + 1 \in (lo+1)..hi /\ hi \in (lo+1)..hi
    BY <1>1
  <1>3. PICK c : c = [i \in (lo+1)..hi |-> b[i]]
    OBVIOUS
  <1>4. c \in [(lo+1)..hi -> Nodes] /\ \A i \in (lo+1)..hi : c[i] = b[i]
    BY <1>1, <1>2, <1>3
  <1>5. Linked(c, lo + 1, hi, b[lo+1], node)
    <2>1. PICK l : l = lo + 1
      OBVIOUS
    <2>2. /\ c \in [l..hi -> Nodes] /\ l <= hi /\ c[l] = b[lo+1]
          /\ node[c[hi]].next = NullPtr
          /\ \A i \in l..hi : node[c[i]] # Null
          /\ \A i \in l..(hi-1) : node[c[i]].next = Counted(c[i+1], 1)
          /\ \A i \in (l+1)..hi : node[c[i]].value \in Items
          /\ \A i \in l..hi : \A j \in l..hi : c[i] = c[j] => i = j
      BY <1>1, <1>2, <1>4, <2>1
    <2>3. Linked(c, l, hi, b[lo+1], node)
      BY <2>2 DEF Linked
    <2>4. QED
      BY <2>1, <2>3
  <1>6. ASSUME NEW j \in (lo+1)..hi PROVE Behind(c, j, hi) = Behind(b, j, hi)
    <2>1. \A i \in (j+1)..hi : i \in (lo+1)..hi
      OBVIOUS
    <2>2. QED
      BY <1>4, <2>1 DEF Behind
  <1>7. Shortens(c, b, lo, k, hi)
    BY <1>2, <1>4, <1>5, <1>6 DEF Shortens
  <1>8. QED
    BY <1>4, <1>7

LEMMA SwingHeadInv ==
    ASSUME IInv, TypeOK', NEW t \in Threads, Others(t), SwingHead(t), head_ = view[t],
           NEW lo \in Nat, NEW k \in Nat, NEW hi \in Nat, NEW b \in [lo..hi -> Nodes],
           Shape(b, lo, k, hi)
    PROVE  IInv'
  <1>0. TypeOK /\ NewInv /\ ReleaseInv /\ FiniteInv
    BY DEF IInv
  <1>1. PICK A, B : A = Behind(b, lo, hi) /\ B = Behind(b, k, hi)
    OBVIOUS
  <1>2. /\ Chain(b, lo, k, hi) /\ \A u \in Threads : ThreadOK(A, B, u)
        /\ \A n \in Nodes : NodeInv(A, B, n)
    BY <1>1 DEF Shape, Inv
  <1>3. PICK m \in Nodes : m = b[lo]
    BY SwingHeadFinds
  <1>4. /\ UNCHANGED <<node, view, tail, next, new>> /\ tail_' = tail_
        /\ pc[t] = "swingHead" /\ pc'[t] = "read"
        /\ lo \in lo..hi /\ lo # hi /\ k \in (lo+1)..hi
        /\ view[t].ptr = m /\ head_.ptr = m
        /\ next[t] = node[m].next /\ node[m].next = Counted(b[lo+1], 1)
        /\ head_'.ptr = b[lo+1] /\ head_'.count = 2
    BY <1>3, SwingHeadFinds
  <1>5. PICK q \in Nodes : q = b[lo+1]
    BY <1>2, <1>4, Beyond
  <1>6. PICK C : C = Behind(b, lo + 1, hi)
    OBVIOUS
  <1>7. /\ lo + 1 \in lo..hi /\ lo + 1 \in Nat /\ q # m /\ q \in A /\ C = A \ {q}
    BY <1>1, <1>2, <1>3, <1>4, <1>5, <1>6, Beyond
  <1>8. /\ m \notin A /\ m \notin B
        /\ \A n \in {m, q} : node[n] # Null /\ n \notin News
        /\ node[q].value \in Items
    BY <1>1, <1>2, <1>4, <1>7, ChainFacts
  <1>9. head_'.ptr = q /\ next[t].ptr = q /\ next[t] # NullPtr
    BY <1>4, <1>5, Constants
  <1>10. \A n : /\ t \in Viewers(n)' <=> n = m
                /\ t \in Viewers(n) <=> n = m
                /\ t \notin Takers(n)
                /\ t \in Takers(n)' <=> n = q
    BY <1>4, <1>9, SetsAfter DEF Viewing, HeadReleasing
  <1>11. NewInv' /\ News' = News
    <2>1. \A n \in News : node'[n] = node[n] /\ t \notin Viewers(n)' /\ t \notin Takers(n)'
      BY <1>4, <1>8, <1>10
    <2>2. new'[t] \in {new[t], Null} /\ new'[t] = new[t]
      BY <1>4
    <2>3. NewInv' /\ News' = {n \in News : new'[t] = new[t] \/ n # new[t]}
      BY <1>0, <2>1, <2>2, NewsKept
    <2>4. QED
      BY <2>2, <2>3
  <1>12. \A u \in Viewers(m) : pc[u] \notin HeadReleasing
    <2>1. \A u \in Viewers(m) : u \in Threads /\ Views(A, B, u, m)
      BY <1>2 DEF ThreadOK, Viewers
    <2>2. QED
      BY <1>4, <2>1 DEF Views
  <1>13. \A u \in Viewers(q) : pc[u] \notin HeadReleasing
    <2>1. \A u \in Viewers(q) : u \in Threads /\ Views(A, B, u, q)
      BY <1>2 DEF ThreadOK, Viewers
    <2>2. QED
      BY <1>7, <2>1 DEF Views, HeadReleasing, PopView
  <1>14. ReleaseInv'
    <2>1. pc'[t] \notin TailReleasing /\ view'[t].ptr = m
      BY <1>4 DEF TailReleasing
    <2>2. QED
      BY <1>0, <1>4, <1>12, <2>1, ReleaseKept
  <1>15. PICK c \in [(lo+1)..hi -> Nodes] : Shortens(c, b, lo, k, hi)
    BY <1>2, <1>4, Shorter
  <1>16. Chain(c, lo + 1, k, hi)'
    <2>1. Linked(c, lo + 1, hi, head_'.ptr, node')
      BY <1>4, <1>15 DEF Shortens
    <2>2. /\ k \in lo..hi /\ b[k] = tail_.ptr
          /\ \A i \in (lo+1)..hi : i \in lo..hi /\ b[i] \notin News
      BY <1>2 DEF Chain
    <2>3. c[k] = tail_'.ptr /\ \A i \in (lo+1)..hi : c[i] \notin News'
      BY <1>4, <1>11, <1>15, <2>2 DEF Shortens
    <2>4. QED
      BY <1>4, <2>1, <2>3 DEF Chain
  <1>17. ASSUME NEW u \in Threads PROVE ThreadOK(C, B, u)'
    <2>1. \A n \in Nodes : node[n] # Null /\ n \notin News => Kept(A, B, C, B, n)
      BY <1>4, <1>7, <1>9, <1>11 DEF Kept
    <2>2. ThreadOK(A, B, u)
      BY <1>2
    <2>3. \A n \in Nodes : u \in Viewers(n) \/ u \in Takers(n) => node'[n] # Null
      BY <1>4, <2>2 DEF ThreadOK, Views, Takes
    <2>4. u # t => ThreadOK(C, B, u)'
      BY <2>1, <2>2, <2>3, ThreadKept
    <2>5. ThreadOK(C, B, t)'
      <3>1. new'[t] = Null
        BY <1>2, <1>4 DEF ThreadOK, PopView
      <3>2. m \notin C /\ node'[m] # Null /\ m \notin News' /\ head_'.ptr # m
        BY <1>4, <1>7, <1>8, <1>9, <1>11
      <3>3. next'[t] = node'[m].next /\ next'[t] # NullPtr /\ next'[t].ptr = q
        BY <1>4, <1>9
      <3>4. Views(C, B, t, m)'
        BY <1>4, <3>2, <3>3 DEF Views, TailReleasing
      <3>5. Takes(C, q)'
        BY <1>4, <1>7, <1>8, <1>11 DEF Takes
      <3>6. view'[t].ptr = m /\ pc'[t] \notin {"viewTail", "link", "loadNext"}
        BY <1>4
      <3>7. QED
        BY <3>1, <3>3, <3>4, <3>5, <3>6, ThreadAfter
    <2>6. QED
      BY <2>4, <2>5
  <1>18. ASSUME NEW n \in Nodes, NEW l \in Int, TailOwes(B, n, l) PROVE TailOwes(B, n, l)'
    <2>1. \A u \in Threads : AlikeTail(u, n)
      BY <1>4, OthersAlike DEF Alike, AlikeTail, TailReleasing
    <2>2. QED
      BY <1>4, <1>18, <2>1, SameTailOwes
  <1>19. ASSUME NEW n \in Nodes PROVE NodeInv(C, B, n)'
    <2>1. CASE n # m /\ n # q
      <3>1. \A u \in Threads : Alike(u, n)
        BY <1>10, <2>1, OthersAlike DEF Alike, AlikeHead, AlikeTail
      <3>2. NodeInv(A, B, n) /\ node'[n] = node[n] /\ (n \in News' <=> n \in News)
            /\ (n \in C <=> n \in A) /\ head_.ptr # n /\ head_'.ptr # n
        BY <1>2, <1>4, <1>7, <1>9, <1>11, <2>1
      <3>3. QED
        BY <1>4, <3>1, <3>2, NodeKept
    <2>2. CASE n = m
      <3>1. PICK h \in Int, l \in Int : Owes(A, B, m, h, l)
        BY <1>2, <1>8 DEF NodeInv
      <3>2. HeadOwes(A, m, h) /\ TailOwes(B, m, l)'
        BY <1>18, <3>1 DEF Owes
      <3>3. h = view[t].count - 1 - kOneCounter
        BY <1>4, <3>2 DEF HeadOwes
      <3>4. ASSUME NEW u \in Viewers(m)', pc'[u] \in HeadReleasing
            PROVE  h = view'[u].count - 1 - kOneCounter
        <4>1. u = t
          <5>1. u \in Threads
            BY DEF Viewers
          <5>2. u # t => u \in Viewers(m) /\ pc'[u] = pc[u]
            BY <5>1, SetsAfter DEF Others
          <5>3. QED
            BY <1>12, <3>4, <5>2
        <4>2. QED
          BY <1>4, <3>3, <4>1
      <3>5. t \in Viewers(m)' /\ pc'[t] \in HeadReleasing
        BY <1>4, <1>10 DEF HeadReleasing
      <3>6. m \notin C /\ head_'.ptr # m
        BY <1>7, <1>8, <1>9
      <3>7. HeadOwes(C, m, h)'
        BY <3>4, <3>5, <3>6 DEF HeadOwes
      <3>8. Users(m)' = Users(m)
        <4>1. Viewers(m)' = Viewers(m) \cup {t} /\ t \in Viewers(m)
          BY <1>10, SetsAfter
        <4>2. Takers(m)' = Takers(m) \ {t} /\ t \notin Takers(m)
          BY <1>7, <1>10, SetsAfter
        <4>3. Viewers(m)' = Viewers(m) /\ Takers(m)' = Takers(m)
          BY <4>1, <4>2
        <4>4. QED
          BY <4>3 DEF Users
      <3>9. Owes(C, B, m, h, l)'
        BY <1>4, <3>1, <3>2, <3>7, <3>8 DEF Owes
      <3>10. node[m].internal_count > 0 /\ node'[m] = node[m] /\ node[m].next # NullPtr
        BY <1>2, <1>4, <1>8, <1>9 DEF NodeInv
      <3>11. QED
        BY <2>2, <3>9, <3>10 DEF NodeInv
    <2>3. CASE n = q
      <3>1. PICK h \in Int, l \in Int : Owes(A, B, q, h, l)
        BY <1>2, <1>8 DEF NodeInv
      <3>2. HeadOwes(A, q, h) /\ TailOwes(B, q, l)'
        BY <1>18, <3>1 DEF Owes
      <3>3. h = -kOneCounter
        BY <1>7, <3>2 DEF HeadOwes
      <3>4. h + 1 = head_'.count - 1 - kOneCounter /\ h + 1 \in Int
        BY <1>4, <3>3, Constants
      <3>5. \A u \in Viewers(q)' : pc'[u] \notin HeadReleasing
        <4>1. ASSUME NEW u \in Viewers(q)' PROVE pc'[u] \notin HeadReleasing
          <5>1. u \in Threads /\ u # t
            BY <1>7, <1>10 DEF Viewers
          <5>2. u \in Viewers(q) /\ pc'[u] = pc[u]
            BY <5>1, SetsAfter DEF Others
          <5>3. QED
            BY <1>13, <5>2
        <4>2. QED
          BY <4>1
      <3>6. HeadOwes(C, q, h + 1)'
        BY <1>7, <1>9, <3>4, <3>5 DEF HeadOwes
      <3>7. Users(q)' = Users(q) + 1 /\ Users(q) \in Nat
        BY <1>0, <1>7, <1>10, UsersAfter
      <3>8. PICK i \in Int : i = node[q].internal_count
        BY <1>0, <1>8, NodeType
      <3>9. i + h + l = Users(q)
        BY <3>1, <3>8 DEF Owes
      <3>10. i + (h + 1) + l = Users(q)'
        BY <3>7, <3>9
      <3>11. Owes(C, B, q, h + 1, l)'
        BY <1>4, <3>2, <3>6, <3>8, <3>10 DEF Owes
      <3>12. node[q].internal_count > 0 /\ node'[q] = node[q]
        BY <1>2, <1>4, <1>8 DEF NodeInv
      <3>13. QED
        BY <1>9, <2>3, <3>4, <3>11, <3>12 DEF NodeInv
    <2>4. QED
      BY <2>1, <2>2, <2>3
  <1>20. QED
    <2>1. C = Behind(c, lo + 1, hi) /\ B = Behind(c, k, hi)
      BY <1>1, <1>6, <1>15 DEF Shortens
    <2>2. QED
      BY <1>0, <1>7, <1>11, <1>14, <1>16, <1>17, <1>19, <2>1, Assemble

\* The node m is deleted when nothing is owed any more and nobody uses it.
LEMMA Deleted ==
    ASSUME TypeOK, TypeOK', FiniteInv, NEW t \in Threads, Others(t), UNCHANGED <<head_, tail_>>,
           NEW A, NEW B, NEW m \in Nodes, node[m] # Null, m \notin News, NodeInv(A, B, m),
           NEW a \in Int, Add(m, a), NEW h \in Int, NEW l \in Int,
           HeadOwes(A, m, h)', TailOwes(B, m, l)',
           node[m].internal_count + a + h + l = Users(m)'
    PROVE  /\ \A n \in Nodes : n # m => node'[n] = node[n]
           /\ node'[m] = Null => m \notin A /\ head_.ptr # m /\ Viewers(m)' = {} /\ Takers(m)' = {}
           /\ node'[m] # Null => /\ NodeInv(A, B, m)'
                                 /\ node'[m].next = node[m].next
                                 /\ node'[m].value = node[m].value
  <1>1. PICK i \in Int : i = node[m].internal_count
    BY NodeType
  <1>2. PICK w \in Nat : w = Users(m)'
    BY UsersAfter
  <1>3. i + a + h + l = w
    BY <1>1, <1>2
  <1>4. /\ \A n \in Nodes : n # m => node'[n] = node[n]
        /\ i + a = 0 => node'[m] = Null
        /\ i + a # 0 => /\ node'[m] # Null
                        /\ node'[m].internal_count = i + a
                        /\ node'[m].next = node[m].next /\ node'[m].value = node[m].value
    BY <1>1, Adding
  <1>5. /\ h <= 0 /\ l <= 0
        /\ h = 0 => m \notin A /\ head_'.ptr # m
    BY OwedNext
  <1>6. CASE i + a = 0
    <2>1. h = 0 /\ w = 0
      BY <1>3, <1>5, <1>6
    <2>2. Viewers(m)' = {} /\ Takers(m)' = {}
      BY <1>2, <2>1, UsersAfter
    <2>3. QED
      BY <1>4, <1>5, <1>6, <2>1, <2>2
  <1>7. CASE i + a # 0
    <2>1. i + a > 0
      BY <1>3, <1>5, <1>7
    <2>2. (i + a) + h + l = Users(m)'
      BY <1>2, <1>3
    <2>3. Owes(A, B, m, h, l)'
      BY <1>4, <1>7, <2>2 DEF Owes
    <2>4. m \notin A /\ head_.ptr # m => node[m].next # NullPtr
      BY DEF NodeInv
    <2>5. NodeInv(A, B, m)'
      BY <1>4, <1>7, <2>1, <2>3, <2>4 DEF NodeInv
    <2>6. QED
      BY <1>4, <1>7, <2>5
  <1>8. QED
    BY <1>6, <1>7

\* t, which has looked at m, has added to its internal_count.
LEMMA Departing ==
    ASSUME IInv, TypeOK', NEW t \in Threads, Others(t), UNCHANGED <<head_, tail_, new>>,
           NEW lo \in Nat, NEW k \in Nat, NEW hi \in Nat, NEW b \in [lo..hi -> Nodes],
           Shape(b, lo, k, hi), NEW A, NEW B, A = Behind(b, lo, hi), B = Behind(b, k, hi),
           NEW m \in Nodes, view[t].ptr = m, m \notin News,
           pc'[t] \notin HeadReleasing, pc'[t] \notin TailReleasing,
           \A n \in Nodes : n # m => node'[n] = node[n] /\ Users(n)' = Users(n),
           node'[m] = Null => m \notin A /\ head_.ptr # m /\ Viewers(m)' = {} /\ Takers(m)' = {},
           node'[m] # Null => /\ NodeInv(A, B, m)'
                              /\ node'[m].next = node[m].next /\ node'[m].value = node[m].value,
           \A n \in News : t \notin Viewers(n)' /\ t \notin Takers(n)',
           ThreadOK(A, B, t)'
    PROVE  IInv' /\ Linked(b, lo, hi, head_.ptr, node)'
  <1>0. TypeOK /\ NewInv /\ ReleaseInv
    BY DEF IInv
  <1>1. /\ Chain(b, lo, k, hi) /\ \A u \in Threads : ThreadOK(A, B, u)
        /\ \A n \in Nodes : NodeInv(A, B, n)
    BY DEF Shape, Inv
  <1>2. NewInv' /\ News' = News
    <2>1. \A n \in News : node'[n] = node[n] /\ t \notin Viewers(n)' /\ t \notin Takers(n)'
      BY DEF News
    <2>2. new'[t] \in {new[t], Null} /\ new'[t] = new[t]
      OBVIOUS
    <2>3. NewInv' /\ News' = {n \in News : new'[t] = new[t] \/ n # new[t]}
      BY <1>0, <2>1, <2>2, NewsKept
    <2>4. QED
      BY <2>2, <2>3
  <1>3. ReleaseInv'
    BY <1>0, ReleaseKept
  <1>4. \A n \in A \cup {head_.ptr} : /\ node'[n] # Null
                                      /\ node'[n].next = node[n].next
                                      /\ node'[n].value = node[n].value
    BY <1>1, ChainFacts
  <1>5. Chain(b, lo, k, hi)'
    <2>1. /\ b \in [lo..hi -> Nodes] /\ lo <= hi /\ b[lo] = head_.ptr
          /\ \A i \in lo..(hi-1) : node[b[i]].next = Counted(b[i+1], 1)
          /\ node[b[hi]].next = NullPtr
          /\ \A i \in (lo+1)..hi : node[b[i]].value \in Items
          /\ \A i \in lo..hi : \A j \in lo..hi : b[i] = b[j] => i = j
          /\ k \in lo..hi /\ b[k] = tail_.ptr
          /\ \A i \in lo..hi : b[i] \notin News
      BY <1>1 DEF Chain, Linked
    <2>2. \A i \in lo..hi : /\ node'[b[i]] # Null
                            /\ node'[b[i]].next = node[b[i]].next
                            /\ node'[b[i]].value = node[b[i]].value
      BY <1>1, <1>4, ChainFacts
    <2>3. /\ hi \in lo..hi
          /\ \A i \in lo..(hi-1) : i \in lo..hi
          /\ \A i \in (lo+1)..hi : i \in lo..hi
      BY <2>1
    <2>4. Linked(b, lo, hi, head_'.ptr, node')
      BY <2>1, <2>2, <2>3 DEF Linked
    <2>5. QED
      BY <1>2, <2>1, <2>4 DEF Chain
  <1>6. ASSUME NEW u \in Threads PROVE ThreadOK(A, B, u)'
    <2>1. \A n \in Nodes : node[n] # Null /\ n \notin News => Kept(A, B, A, B, n)
      BY <1>2 DEF Kept
    <2>2. ThreadOK(A, B, u)
      BY <1>1
    <2>3. CASE u # t
      <3>1. ASSUME NEW n \in Nodes, u \in Viewers(n) \/ u \in Takers(n) PROVE node'[n] # Null
        <4>1. node[n] # Null
          BY <2>2, <3>1 DEF ThreadOK, Views, Takes
        <4>2. u \in Viewers(n)' \/ u \in Takers(n)'
          BY <2>3, <3>1, SetsAfter
        <4>3. CASE n = m
          BY <4>2, <4>3
        <4>4. CASE n # m
          BY <4>1, <4>4
        <4>5. QED
          BY <4>3, <4>4
      <3>2. QED
        BY <2>1, <2>2, <2>3, <3>1, ThreadKept
    <2>4. QED
      BY <2>3
  <1>7. ASSUME NEW n \in Nodes PROVE NodeInv(A, B, n)'
    <2>1. CASE n = m
      <3>1. CASE node'[m] = Null
        BY <2>1, <3>1 DEF NodeInv
      <3>2. CASE node'[m] # Null
        BY <2>1, <3>2
      <3>3. QED
        BY <3>1, <3>2
    <2>2. CASE n # m /\ node[n] # Null /\ n \notin News
      <3>1. /\ node[n].internal_count > 0
            /\ n \notin A /\ head_.ptr # n => node[n].next # NullPtr
            /\ \E h \in Int : \E l \in Int : Owes(A, B, n, h, l)
        BY <1>1, <2>2 DEF NodeInv
      <3>2. PICK h \in Int, l \in Int : Owes(A, B, n, h, l)
        BY <3>1
      <3>3. \A u \in Threads : AlikeHead(u, n) /\ AlikeTail(u, n)
        <4>1. t \notin Viewers(n)
          BY <2>2 DEF Viewers
        <4>2. AlikeHead(t, n) /\ AlikeTail(t, n)
          BY <4>1 DEF AlikeHead, AlikeTail
        <4>3. QED
          BY <4>2, OthersAlike DEF Alike
      <3>4. HeadOwes(A, n, h)' /\ TailOwes(B, n, l)'
        BY <3>2, <3>3, SameHeadOwes, SameTailOwes DEF Owes
      <3>5. Owes(A, B, n, h, l)'
        BY <2>2, <3>2, <3>4 DEF Owes
      <3>6. QED
        BY <2>2, <3>1, <3>5 DEF NodeInv
    <2>3. CASE n # m /\ (node[n] = Null \/ n \in News)
      BY <1>2, <2>3 DEF NodeInv
    <2>4. QED
      BY <2>1, <2>2, <2>3
  <1>8. QED
    BY <1>2, <1>3, <1>5, <1>6, <1>7, Assemble

\* t looks at nothing any more.
LEMMA Leaves ==
    ASSUME IInv, TypeOK', NEW t \in Threads, Others(t), UNCHANGED <<head_, tail_, new>>,
           NEW lo \in Nat, NEW k \in Nat, NEW hi \in Nat, NEW b \in [lo..hi -> Nodes],
           Shape(b, lo, k, hi), NEW A, NEW B, A = Behind(b, lo, hi), B = Behind(b, k, hi),
           pc[t] \in Viewing, pc[t] \notin HeadReleasing, pc'[t] \notin Viewing,
           pc'[t] \in {"idle", "viewHead"} => new'[t] = Null,
           pc'[t] = "viewTail" => new'[t] # Null,
           NEW m \in Nodes, view[t].ptr = m, NEW a \in Int, Add(m, a),
           NEW h \in Int, NEW l \in Int, HeadOwes(A, m, h)', TailOwes(B, m, l)',
           node[m].internal_count + a + h + l = Users(m) - 1
    PROVE  IInv' /\ Linked(b, lo, hi, head_.ptr, node)'
  <1>0. TypeOK /\ FiniteInv
    BY DEF IInv
  <1>1. /\ ThreadOK(A, B, t)' /\ \A n : t \notin Viewers(n)' /\ t \notin Takers(n)'
    BY NotLooking
  <1>2. pc'[t] \notin HeadReleasing /\ pc'[t] \notin TailReleasing
    BY DEF Viewing, HeadReleasing, TailReleasing
  <1>3. \A n : (t \in Viewers(n) <=> n = m) /\ t \notin Takers(n)
    BY DEF Viewers, Takers
  <1>4. NodeInv(A, B, m) /\ node[m] # Null /\ m \notin News
    BY <1>3 DEF Shape, Inv, ThreadOK, Views
  <1>5. Users(m)' = Users(m) - 1
    BY <1>0, <1>1, <1>3, UsersAfter
  <1>6. \A n \in Nodes : n # m => Users(n)' = Users(n)
    <2>1. ASSUME NEW n \in Nodes, n # m PROVE Users(n)' = Users(n)
      <3>1. Viewers(n)' = Viewers(n) \ {t} /\ Takers(n)' = Takers(n) \ {t}
        BY <1>1, SetsAfter
      <3>2. Viewers(n)' = Viewers(n) /\ Takers(n)' = Takers(n)
        BY <1>3, <2>1, <3>1
      <3>3. QED
        BY <3>2 DEF Users
    <2>2. QED
      BY <2>1
  <1>7. /\ \A n \in Nodes : n # m => node'[n] = node[n]
        /\ node'[m] = Null => m \notin A /\ head_.ptr # m /\ Viewers(m)' = {} /\ Takers(m)' = {}
        /\ node'[m] # Null => /\ NodeInv(A, B, m)'
                              /\ node'[m].next = node[m].next
                              /\ node'[m].value = node[m].value
    BY <1>0, <1>4, <1>5, Deleted
  <1>8. QED
    BY <1>1, <1>2, <1>4, <1>6, <1>7, Departing

LEMMA ReleaseTailInv ==
    ASSUME IInv, TypeOK', NEW t \in Threads, Others(t), ReleaseTail(t),
           NEW lo \in Nat, NEW k \in Nat, NEW hi \in Nat, NEW b \in [lo..hi -> Nodes],
           Shape(b, lo, k, hi)
    PROVE  IInv' /\ Linked(b, lo, hi, head_.ptr, node)'
  <1>0. TypeOK /\ FiniteInv /\ ReleaseInv
    BY DEF IInv
  <1>1. PICK A, B : A = Behind(b, lo, hi) /\ B = Behind(b, k, hi)
    OBVIOUS
  <1>2. ThreadOK(A, B, t) /\ \A n \in Nodes : NodeInv(A, B, n)
    BY <1>1 DEF Shape, Inv
  <1>3. /\ UNCHANGED <<head_, tail_, view, new>>
        /\ pc[t] = "releaseTail" /\ pc'[t] = AfterPush(t)
    BY <1>0 DEF ReleaseTail, Goto, TypeOK, locals
  <1>4. /\ pc[t] \in Viewing /\ pc[t] \notin HeadReleasing /\ pc[t] \in TailReleasing
        /\ pc'[t] \in {"idle", "viewTail"} /\ pc'[t] \notin Viewing
        /\ pc'[t] \notin HeadReleasing
        /\ pc'[t] \in {"idle", "viewHead"} => new'[t] = Null
        /\ pc'[t] = "viewTail" => new'[t] # Null
    BY <1>3 DEF AfterPush, Viewing, HeadReleasing, TailReleasing
  <1>5. PICK m \in Nodes : /\ view[t].ptr = m /\ t \in Viewers(m) /\ Views(A, B, t, m)
                           /\ \A n : t \in Viewers(n) <=> n = m
    BY <1>2, <1>4, Looking
  <1>6. node[m] # Null /\ m \notin News /\ m \notin B /\ tail_.ptr # m
    BY <1>4, <1>5 DEF Views
  <1>7. PICK a \in Int : a = view[t].count - 2 - kOneCounter /\ Add(m, a)
    BY <1>0, <1>5, Releasing
  <1>8. PICK h \in Int, l \in Int : Owes(A, B, m, h, l)
    BY <1>2, <1>6 DEF NodeInv
  <1>9. HeadOwes(A, m, h) /\ TailOwes(B, m, l) /\ node[m].internal_count + h + l = Users(m)
    BY <1>8 DEF Owes
  <1>10. l = view[t].count - 1 - kOneCounter
    BY <1>3, <1>4, <1>5, <1>9 DEF TailOwes, Replaced
  <1>11. HeadOwes(A, m, h)'
    <2>1. \A u \in Threads : AlikeHead(u, m)
      BY <1>4, OthersAlike DEF Alike, AlikeHead
    <2>2. QED
      BY <1>3, <1>9, <2>1, SameHeadOwes
  <1>12. TailOwes(B, m, 0)'
    <2>1. ASSUME NEW u \in Viewers(m)', pc'[u] \in TailReleasing PROVE FALSE
      <3>1. u \in Threads /\ u # t
        BY <1>4, <2>1 DEF Viewers, Viewing, TailReleasing
      <3>2. u \in Viewers(m) /\ pc[u] = pc'[u]
        BY <3>1, SetsAfter DEF Others
      <3>3. view[u].ptr = view[t].ptr
        BY <1>5, <3>2 DEF Viewers
      <3>4. QED
        BY <1>0, <1>4, <2>1, <3>1, <3>2, <3>3 DEF ReleaseInv
    <2>2. QED
      BY <1>3, <1>6, <2>1 DEF TailOwes
  <1>13. node[m].internal_count + a + h + 0 = Users(m) - 1
    <2>1. PICK i \in Int, w \in Nat, c \in Nat :
              i = node[m].internal_count /\ w = Users(m) /\ c = view[t].count
      <3>1. view[t].count \in Nat /\ Users(m) \in Nat /\ node[m].internal_count \in Int
        BY <1>0, <1>6, NodeType, UsersAfter, Counting DEF TypeOK
      <3>2. QED
        BY <3>1
    <2>2. a = c - 2 - kOneCounter /\ l = c - 1 - kOneCounter /\ i + h + l = w
      BY <1>7, <1>9, <1>10, <2>1
    <2>3. i + a + h + 0 = w - 1
      BY <2>2, Constants
    <2>4. QED
      BY <2>1, <2>3
  <1>14. QED
    <2>1. PICK z \in Int : z = 0
      OBVIOUS
    <2>2. TailOwes(B, m, z)' /\ node[m].internal_count + a + h + z = Users(m) - 1
      BY <1>12, <1>13, <2>1
    <2>3. QED
      BY <1>1, <1>3, <1>4, <1>5, <1>7, <1>11, <2>2, Leaves

LEMMA ReleaseRefInv ==
    ASSUME IInv, TypeOK', NEW t \in Threads, Others(t), ReleaseRef(t),
           NEW lo \in Nat, NEW k \in Nat, NEW hi \in Nat, NEW b \in [lo..hi -> Nodes],
           Shape(b, lo, k, hi)
    PROVE  IInv' /\ Linked(b, lo, hi, head_.ptr, node)'
  <1>0. TypeOK /\ FiniteInv
    BY DEF IInv
  <1>1. PICK A, B : A = Behind(b, lo, hi) /\ B = Behind(b, k, hi)
    OBVIOUS
  <1>2. ThreadOK(A, B, t) /\ \A n \in Nodes : NodeInv(A, B, n)
    BY <1>1 DEF Shape, Inv
  <1>3. /\ UNCHANGED <<head_, tail_, view, new>> /\ pc[t] \in {"leave", "empty", "again"}
        /\ pc'[t] = IF pc[t] = "again" THEN "viewHead" ELSE AfterPush(t)
    BY <1>0 DEF ReleaseRef, TypeOK, locals
  <1>4. /\ pc[t] \in Viewing /\ pc[t] \notin HeadReleasing /\ pc[t] \notin TailReleasing
        /\ pc'[t] \in {"idle", "viewTail", "viewHead"} /\ pc'[t] \notin Viewing
        /\ pc'[t] \notin HeadReleasing /\ pc'[t] \notin TailReleasing
    BY <1>3 DEF AfterPush, Viewing, HeadReleasing, TailReleasing
  <1>5. /\ pc'[t] \in {"idle", "viewHead"} => new'[t] = Null
        /\ pc'[t] = "viewTail" => new'[t] # Null
    BY <1>2, <1>3 DEF AfterPush, ThreadOK, PopView
  <1>6. PICK m \in Nodes : /\ view[t].ptr = m /\ t \in Viewers(m) /\ Views(A, B, t, m)
                           /\ \A n : t \in Viewers(n) <=> n = m
    BY <1>2, <1>4, Looking
  <1>7. node[m] # Null /\ m \notin News
    BY <1>6 DEF Views
  <1>8. PICK a \in Int : a = -1 /\ Add(m, a)
    BY <1>0, <1>6, Releasing
  <1>9. PICK h \in Int, l \in Int : Owes(A, B, m, h, l)
    BY <1>2, <1>7 DEF NodeInv
  <1>10. HeadOwes(A, m, h) /\ TailOwes(B, m, l) /\ node[m].internal_count + h + l = Users(m)
    BY <1>9 DEF Owes
  <1>11. HeadOwes(A, m, h)' /\ TailOwes(B, m, l)'
    <2>1. \A u \in Threads : AlikeHead(u, m) /\ AlikeTail(u, m)
      BY <1>4, OthersAlike DEF Alike, AlikeHead, AlikeTail
    <2>2. QED
      BY <1>3, <1>10, <2>1, SameHeadOwes, SameTailOwes
  <1>12. node[m].internal_count + a + h + l = Users(m) - 1
    <2>1. PICK i \in Int, w \in Nat : i = node[m].internal_count /\ w = Users(m)
      <3>1. Users(m) \in Nat /\ node[m].internal_count \in Int
        BY <1>0, <1>7, NodeType, UsersAfter
      <3>2. QED
        BY <3>1
    <2>2. a = -1 /\ i + h + l = w
      BY <1>8, <1>10, <2>1
    <2>3. i + a + h + l = w - 1
      BY <2>2
    <2>4. QED
      BY <2>1, <2>3
  <1>13. QED
    BY <1>1, <1>3, <1>4, <1>5, <1>6, <1>8, <1>11, <1>12, Leaves

LEMMA ReleaseHelpedInv ==
    ASSUME IInv, TypeOK', NEW t \in Threads, Others(t), ReleaseHelped(t),
           NEW lo \in Nat, NEW k \in Nat, NEW hi \in Nat, NEW b \in [lo..hi -> Nodes],
           Shape(b, lo, k, hi)
    PROVE  IInv' /\ Linked(b, lo, hi, head_.ptr, node)'
  <1>0. TypeOK /\ FiniteInv /\ ReleaseInv
    BY DEF IInv
  <1>1. PICK A, B : A = Behind(b, lo, hi) /\ B = Behind(b, k, hi)
    OBVIOUS
  <1>2. ThreadOK(A, B, t) /\ \A n \in Nodes : NodeInv(A, B, n)
    BY <1>1 DEF Shape, Inv
  <1>3. /\ UNCHANGED <<head_, tail_, view, tail, next, new>>
        /\ pc[t] = "releaseHelped" /\ pc'[t] = "again"
    BY <1>0 DEF ReleaseHelped, Goto, TypeOK, locals
  <1>4. /\ pc[t] \in Viewing /\ pc[t] \notin HeadReleasing /\ pc[t] \in TailReleasing
        /\ pc[t] \in PopView /\ pc'[t] \in Viewing
        /\ pc'[t] \notin HeadReleasing /\ pc'[t] \notin TailReleasing
    BY <1>3 DEF PopView, Viewing, HeadReleasing, TailReleasing
  <1>5. PICK m \in Nodes : /\ view[t].ptr = m /\ t \in Viewers(m) /\ Views(A, B, t, m)
                           /\ \A n : t \in Viewers(n) <=> n = m
    BY <1>2, <1>4, Looking
  <1>6. /\ node[m] # Null /\ m \notin News /\ m \notin B /\ tail_.ptr # m /\ m \notin A
        /\ tail[t].ptr = m /\ new[t] = Null
    BY <1>2, <1>3, <1>4, <1>5 DEF Views, ThreadOK
  <1>7. PICK a \in Int : a = tail[t].count - 1 - kOneCounter /\ Add(m, a)
    BY <1>0, <1>6, Releasing
  <1>8. PICK h \in Int, l \in Int : Owes(A, B, m, h, l)
    BY <1>2, <1>6 DEF NodeInv
  <1>9. HeadOwes(A, m, h) /\ TailOwes(B, m, l) /\ node[m].internal_count + h + l = Users(m)
    BY <1>8 DEF Owes
  <1>10. l = tail[t].count - 1 - kOneCounter
    BY <1>3, <1>4, <1>5, <1>9 DEF TailOwes, Replaced
  <1>11. \A n : /\ t \in Viewers(n)' <=> n = m
                /\ t \notin Takers(n) /\ t \notin Takers(n)'
    BY <1>3, <1>4, <1>5, SetsAfter
  <1>12. HeadOwes(A, m, h)'
    <2>1. \A u \in Threads : AlikeHead(u, m)
      BY <1>4, OthersAlike DEF Alike, AlikeHead
    <2>2. QED
      BY <1>3, <1>9, <2>1, SameHeadOwes
  <1>13. PICK z \in Int : z = 0
    OBVIOUS
  <1>14. TailOwes(B, m, z)'
    <2>1. ASSUME NEW u \in Viewers(m)', pc'[u] \in TailReleasing PROVE FALSE
      <3>1. u \in Threads /\ u # t
        BY <1>4, <2>1 DEF Viewers
      <3>2. u \in Viewers(m) /\ pc[u] = pc'[u]
        BY <3>1, SetsAfter DEF Others
      <3>3. view[u].ptr = view[t].ptr
        BY <1>5, <3>2 DEF Viewers
      <3>4. QED
        BY <1>0, <1>4, <2>1, <3>1, <3>2, <3>3 DEF ReleaseInv
    <2>2. QED
      BY <1>3, <1>6, <1>13, <2>1 DEF TailOwes
  <1>15. \A n \in Nodes : Users(n)' = Users(n)
    <2>1. ASSUME NEW n \in Nodes PROVE Users(n)' = Users(n)
      <3>1. Takers(n)' = Takers(n) \ {t} /\ t \notin Takers(n)
        BY <1>11, SetsAfter
      <3>2. n = m => Viewers(n)' = Viewers(n) \cup {t} /\ t \in Viewers(n)
        BY <1>5, <1>11, SetsAfter
      <3>3. n # m => Viewers(n)' = Viewers(n) \ {t} /\ t \notin Viewers(n)
        BY <1>5, <1>11, SetsAfter
      <3>4. Viewers(n)' = Viewers(n) /\ Takers(n)' = Takers(n)
        BY <3>1, <3>2, <3>3
      <3>5. QED
        BY <3>4 DEF Users
    <2>2. QED
      BY <2>1
  <1>16. node[m].internal_count + a + h + z = Users(m)'
    <2>1. PICK i \in Int, w \in Nat : i = node[m].internal_count /\ w = Users(m)
      <3>1. Users(m) \in Nat /\ node[m].internal_count \in Int
        BY <1>0, <1>6, NodeType, UsersAfter
      <3>2. QED
        BY <3>1
    <2>2. a = l /\ i + h + l = w
      BY <1>7, <1>9, <1>10, <2>1
    <2>3. i + a + h + z = w
      BY <1>13, <2>2
    <2>4. QED
      BY <1>15, <2>1, <2>3
  <1>17. NodeInv(A, B, m)
    BY <1>2
  <1>18. /\ \A n \in Nodes : n # m => node'[n] = node[n]
         /\ node'[m] = Null => m \notin A /\ head_.ptr # m /\ Viewers(m)' = {} /\ Takers(m)' = {}
         /\ node'[m] # Null => /\ NodeInv(A, B, m)'
                               /\ node'[m].next = node[m].next
                               /\ node'[m].value = node[m].value
    <2>1. UNCHANGED <<head_, tail_>> /\ Add(m, a) /\ node[m] # Null /\ m \notin News
      BY <1>3, <1>6, <1>7
    <2>2. HeadOwes(A, m, h)' /\ TailOwes(B, m, z)'
      BY <1>12, <1>14
    <2>3. QED
      BY <1>0, <1>16, <1>17, <2>1, <2>2, Deleted
  <1>19. ThreadOK(A, B, t)'
    <2>1. node'[m] # Null
      BY <1>11, <1>18
    <2>2. m \notin News'
      BY <1>3, <1>6 DEF News
    <2>3. Views(A, B, t, m)'
      BY <1>3, <1>4, <1>6, <2>1, <2>2 DEF Views
    <2>4. view'[t].ptr = m /\ new'[t] = Null /\ pc'[t] \notin {"viewTail", "link", "loadNext"}
      BY <1>3, <1>5, <1>6
    <2>5. QED
      BY <1>4, <2>3, <2>4, ThreadAfter
  <1>20. \A n \in News : t \notin Viewers(n)' /\ t \notin Takers(n)'
    BY <1>6, <1>11
  <1>21. QED
    BY <1>1, <1>3, <1>4, <1>5, <1>6, <1>15, <1>18, <1>19, <1>20, Departing

LEMMA ReleaseHeadInv ==
    ASSUME IInv, TypeOK', NEW t \in Threads, Others(t), ReleaseHead(t),
           NEW lo \in Nat, NEW k \in Nat, NEW hi \in Nat, NEW b \in [lo..hi -> Nodes],
           Shape(b, lo, k, hi)
    PROVE  IInv' /\ Linked(b, lo, hi, head_.ptr, node)'
  <1>0. TypeOK /\ FiniteInv /\ ReleaseInv
    BY DEF IInv
  <1>1. PICK A, B : A = Behind(b, lo, hi) /\ B = Behind(b, k, hi)
    OBVIOUS
  <1>2. ThreadOK(A, B, t) /\ \A n \in Nodes : NodeInv(A, B, n)
    BY <1>1 DEF Shape, Inv
  <1>3. /\ UNCHANGED <<head_, tail_, tail, next, new>> /\ view'[t] = next[t]
        /\ pc[t] = "releaseHead" /\ pc'[t] = "leave"
    BY <1>0 DEF ReleaseHead, Goto, TypeOK, locals
  <1>4. /\ pc[t] \in Viewing /\ pc[t] \in HeadReleasing /\ pc[t] \notin TailReleasing
        /\ pc[t] \in PopView /\ pc'[t] \in Viewing
        /\ pc'[t] \notin HeadReleasing /\ pc'[t] \notin TailReleasing
    BY <1>3 DEF PopView, Viewing, HeadReleasing, TailReleasing
  <1>5. PICK m \in Nodes : /\ view[t].ptr = m /\ t \in Viewers(m) /\ Views(A, B, t, m)
                           /\ \A n : t \in Viewers(n) <=> n = m
    BY <1>2, <1>4, Looking
  <1>6. node[m] # Null /\ m \notin News /\ m \notin A /\ head_.ptr # m
    BY <1>3, <1>4, <1>5 DEF Views
  <1>7. PICK q \in Nodes : q = next[t].ptr
    BY <1>2, <1>4 DEF ThreadOK
  <1>8. \A n : /\ t \in Viewers(n)' <=> n = q
               /\ t \in Takers(n) <=> n = q
               /\ t \notin Takers(n)'
    BY <1>3, <1>4, <1>7, SetsAfter
  <1>9. node[q] # Null /\ q \notin News
    BY <1>2, <1>8 DEF ThreadOK, Takes
  <1>10. PICK a \in Int : a = view[t].count - 2 - kOneCounter /\ Add(m, a)
    BY <1>0, <1>5, Releasing
  <1>11. PICK h \in Int, l \in Int : Owes(A, B, m, h, l)
    BY <1>2, <1>6 DEF NodeInv
  <1>12. HeadOwes(A, m, h) /\ TailOwes(B, m, l) /\ node[m].internal_count + h + l = Users(m)
    BY <1>11 DEF Owes
  <1>13. h = view[t].count - 1 - kOneCounter
    BY <1>4, <1>5, <1>12 DEF HeadOwes
  <1>14. TailOwes(B, m, l)'
    <2>1. \A u \in Threads : AlikeTail(u, m)
      BY <1>4, OthersAlike DEF Alike, AlikeTail
    <2>2. QED
      BY <1>3, <1>12, <2>1, SameTailOwes
  <1>15. PICK z \in Int : z = 0
    OBVIOUS
  <1>16. HeadOwes(A, m, z)'
    <2>1. ASSUME NEW u \in Viewers(m)', pc'[u] \in HeadReleasing PROVE FALSE
      <3>1. u \in Threads /\ u # t
        BY <1>4, <2>1 DEF Viewers
      <3>2. u \in Viewers(m) /\ pc[u] = pc'[u]
        BY <3>1, SetsAfter DEF Others
      <3>3. view[u].ptr = view[t].ptr
        BY <1>5, <3>2 DEF Viewers
      <3>4. QED
        BY <1>0, <1>4, <2>1, <3>1, <3>2, <3>3 DEF ReleaseInv
    <2>2. QED
      BY <1>3, <1>6, <1>15, <2>1 DEF HeadOwes
  <1>17. /\ Users(m)' = Users(m) - 1
         /\ \A n \in Nodes : n # m => Users(n)' = Users(n)
    <2>1. Users(m)' = Users(m) - 1
      <3>1. m = q => /\ t \in Viewers(m)' <=> t \in Viewers(m)
                     /\ t \in Takers(m) /\ t \notin Takers(m)'
        BY <1>5, <1>8
      <3>2. m # q => /\ t \in Takers(m)' <=> t \in Takers(m)
                     /\ t \in Viewers(m) /\ t \notin Viewers(m)'
        BY <1>5, <1>8
      <3>3. QED
        BY <1>0, <3>1, <3>2, UsersAfter
    <2>2. ASSUME NEW n \in Nodes, n # m PROVE Users(n)' = Users(n)
      <3>1. CASE n = q
        BY <1>0, <1>5, <1>8, <2>2, <3>1, UsersAfter
      <3>2. CASE n # q
        <4>1. /\ Takers(n)' = Takers(n) \ {t} /\ t \notin Takers(n)
              /\ Viewers(n)' = Viewers(n) \ {t} /\ t \notin Viewers(n)
          BY <1>5, <1>8, <2>2, <3>2, SetsAfter
        <4>2. Viewers(n)' = Viewers(n) /\ Takers(n)' = Takers(n)
          BY <4>1
        <4>3. QED
          BY <4>2 DEF Users
      <3>3. QED
        BY <3>1, <3>2
    <2>3. QED
      BY <2>1, <2>2
  <1>18. node[m].internal_count + a + z + l = Users(m)'
    <2>1. PICK i \in Int, w \in Nat, c \in Nat :
              i = node[m].internal_count /\ w = Users(m) /\ c = view[t].count
      <3>1. view[t].count \in Nat /\ Users(m) \in Nat /\ node[m].internal_count \in Int
        BY <1>0, <1>6, NodeType, UsersAfter, Counting DEF TypeOK
      <3>2. QED
        BY <3>1
    <2>2. a = c - 2 - kOneCounter /\ h = c - 1 - kOneCounter /\ i + h + l = w
      BY <1>10, <1>12, <1>13, <2>1
    <2>3. i + a + z + l = w - 1
      BY <1>15, <2>2, Constants
    <2>4. QED
      BY <1>17, <2>1, <2>3
  <1>19. NodeInv(A, B, m)
    BY <1>2
  <1>20. /\ \A n \in Nodes : n # m => node'[n] = node[n]
         /\ node'[m] = Null => m \notin A /\ head_.ptr # m /\ Viewers(m)' = {} /\ Takers(m)' = {}
         /\ node'[m] # Null => /\ NodeInv(A, B, m)'
                               /\ node'[m].next = node[m].next
                               /\ node'[m].value = node[m].value
    BY <1>0, <1>3, <1>6, <1>10, <1>14, <1>16, <1>18, <1>19, Deleted
  <1>21. ThreadOK(A, B, t)'
    <2>1. node'[q] # Null
      BY <1>8, <1>9, <1>20
    <2>2. q \notin News'
      BY <1>3, <1>9 DEF News
    <2>3. Views(A, B, t, q)'
      BY <1>3, <2>1, <2>2 DEF Views, TailReleasing, HeadReleasing, PopView
    <2>4. /\ view'[t].ptr = q
          /\ pc'[t] \notin {"idle", "viewHead"} \cup PopView
          /\ pc'[t] \notin {"viewTail", "link", "loadNext"}
      BY <1>3, <1>7 DEF PopView
    <2>5. QED
      BY <1>4, <2>3, <2>4, ThreadAfter
  <1>22. \A n \in News : t \notin Viewers(n)' /\ t \notin Takers(n)'
    BY <1>8, <1>9
  <1>23. QED
    BY <1>1, <1>3, <1>4, <1>5, <1>6, <1>17, <1>20, <1>21, <1>22, Departing

------------------------------------------------------------------------------
\* List and InList describe the list.

IsWalk(f, h, nodes) ==
    f = [i \in 0..Cardinality(Nodes) |->
            IF i = 0 THEN h
            ELSE IF f[i-1] = Null \/ nodes[f[i-1]] = Null THEN Null
            ELSE nodes[f[i-1]].next.ptr]
Walk(h, nodes) == CHOOSE f : IsWalk(f, h, nodes)

LEMMA ListIsWalk == List = Walk(head_.ptr, node)
  BY Zenon DEF List, Walk, IsWalk

\* There is room for the nullptr after all nodes.
LEMMA ShortList ==
    ASSUME NEW lo \in Nat, NEW hi \in Nat, NEW b, NEW h, NEW nodes, Linked(b, lo, hi, h, nodes)
    PROVE  \E L \in Nat : \E N \in Nat : L = hi - lo /\ N = Cardinality(Nodes) /\ L < N
  <1>1. /\ b \in [lo..hi -> Nodes] /\ lo <= hi
        /\ \A i \in lo..hi : \A j \in lo..hi : b[i] = b[j] => i = j
    BY DEF Linked
  <1>2. b \in Injection(lo..hi, Nodes)
    BY <1>1 DEF Injection, IsInjective
  <1>3. Cardinality(lo..hi) <= Cardinality(Nodes)
    BY <1>2, Constants, FS_Injection
  <1>4. Cardinality(lo..hi) = hi - lo + 1
    BY <1>1, FS_Interval
  <1>5. Cardinality(Nodes) \in Nat
    BY Constants, FS_CardinalityType
  <1>6. hi - lo \in Nat /\ hi - lo < Cardinality(Nodes)
    BY <1>1, <1>3, <1>4, <1>5
  <1>7. QED
    BY <1>5, <1>6

LEMMA WalkFinds ==
    ASSUME NEW lo \in Nat, NEW hi \in Nat, NEW b, NEW h, NEW nodes, Linked(b, lo, hi, h, nodes)
    PROVE  /\ DOMAIN Walk(h, nodes) = 0..Cardinality(Nodes)
           /\ \A i \in 0..Cardinality(Nodes) :
                 Walk(h, nodes)[i] = IF i <= hi - lo THEN b[lo + i] ELSE Null
  <1> DEFINE N == Cardinality(Nodes)
  <1>1. PICK L \in Nat : L = hi - lo /\ N \in Nat /\ L < N
    BY ShortList
  <1> HIDE DEF N
  <1>2. PICK g : g = [i \in 0..N |-> IF i <= L THEN b[lo + i] ELSE Null]
    OBVIOUS
  <1>3. /\ b[lo] = h /\ lo + L = hi
        /\ \A i \in lo..hi : b[i] \in Nodes /\ nodes[b[i]] # Null
        /\ \A i \in lo..(hi-1) : nodes[b[i]].next = Counted(b[i+1], 1)
        /\ nodes[b[hi]].next = NullPtr
    BY <1>1 DEF Linked
  <1>4. ASSUME NEW f, f = g \/ IsWalk(f, h, nodes), NEW i \in 1..N, f[i-1] = g[i-1]
        PROVE  g[i] = IF f[i-1] = Null \/ nodes[f[i-1]] = Null THEN Null
                      ELSE nodes[f[i-1]].next.ptr
    <2>1. i \in 0..N /\ i-1 \in 0..N
      BY <1>1
    <2>2. CASE i-1 <= L
      <3>1. PICK j \in lo..hi : j = lo + (i-1)
        <4>1. lo + (i-1) \in lo..hi
          BY <1>3, <2>2
        <4>2. QED
          BY <4>1
      <3>2. g[i-1] = b[j] /\ b[j] # Null /\ nodes[b[j]] # Null
        BY <1>2, <1>3, <2>1, <2>2, <3>1, Constants
      <3>3. g[i] = nodes[b[j]].next.ptr
        <4>1. CASE i <= L
          <5>1. j \in lo..(hi-1) /\ j + 1 = lo + i /\ j + 1 \in lo..hi
            BY <1>3, <3>1, <4>1
          <5>2. nodes[b[j]].next.ptr = b[j+1]
            BY <1>3, <5>1, Constants
          <5>3. QED
            BY <1>2, <2>1, <4>1, <5>1, <5>2
        <4>2. CASE ~(i <= L)
          <5>1. j = hi
            BY <1>3, <2>2, <3>1, <4>2
          <5>2. nodes[b[j]].next.ptr = Null
            BY <1>3, <5>1, Constants
          <5>3. QED
            BY <1>2, <2>1, <4>2, <5>2
        <4>3. QED
          BY <4>1, <4>2
      <3>4. QED
        BY <1>4, <3>2, <3>3
    <2>3. CASE ~(i-1 <= L)
      <3>1. ~(i <= L)
        BY <2>3
      <3>2. g[i] = Null /\ g[i-1] = Null
        BY <1>2, <2>1, <2>3, <3>1
      <3>3. QED
        BY <1>4, <3>2
    <2>4. QED
      BY <2>2, <2>3
  <1>5. g[0] = h
    <2>1. 0 \in 0..N /\ 0 <= L /\ lo + 0 = lo
      BY <1>1
    <2>2. QED
      BY <1>2, <1>3, <2>1
  <1>6. IsWalk(g, h, nodes)
    <2>1. \A i \in 0..N :
              g[i] = IF i = 0 THEN h
                     ELSE IF g[i-1] = Null \/ nodes[g[i-1]] = Null THEN Null
                     ELSE nodes[g[i-1]].next.ptr
      <3>1. \A i \in 0..N : i = 0 \/ i \in 1..N
        OBVIOUS
      <3>2. QED
        BY <1>4, <1>5, <3>1
    <2>2. \E q : g = [i \in 0..N |-> q[i]]
      <3>1. g = [i \in 0..N |-> g[i]]
        BY <1>2
      <3>2. QED
        BY <3>1
    <2>3. g = [i \in 0..N |->
                  IF i = 0 THEN h
                  ELSE IF g[i-1] = Null \/ nodes[g[i-1]] = Null THEN Null
                  ELSE nodes[g[i-1]].next.ptr]
      BY <2>1, <2>2
    <2>4. QED
      BY <2>3, Zenon DEF IsWalk, N
  <1>7. PICK f : f = Walk(h, nodes)
    OBVIOUS
  <1>8. IsWalk(f, h, nodes)
    <2>1. \E x : IsWalk(x, h, nodes)
      BY <1>6
    <2>2. IsWalk(CHOOSE x : IsWalk(x, h, nodes), h, nodes)
      BY <2>1, Zenon
    <2>3. QED
      BY <1>7, <2>2 DEF Walk
  <1>9. f = [i \in 0..N |->
                IF i = 0 THEN h
                ELSE IF f[i-1] = Null \/ nodes[f[i-1]] = Null THEN Null
                ELSE nodes[f[i-1]].next.ptr]
    BY <1>8, Zenon DEF IsWalk, N
  <1>10. DOMAIN f = 0..N
    BY <1>9
  <1>11. f[0] = g[0]
    BY <1>1, <1>5, <1>9
  <1>12. \A i \in 1..N : f[i-1] = g[i-1] => f[i] = g[i]
    <2>1. \A i \in 1..N : f[i] = IF f[i-1] = Null \/ nodes[f[i-1]] = Null THEN Null
                                 ELSE nodes[f[i-1]].next.ptr
      <3>1. \A i \in 1..N : i \in 0..N /\ i # 0
        OBVIOUS
      <3>2. QED
        BY <1>9, <3>1
    <2>2. QED
      BY <1>4, <1>8, <2>1
  <1>13. \A i \in 0..N : f[i] = g[i]
    <2>1. PICK z \in Nat : z = 0
      OBVIOUS
    <2>2. f[z] = g[z] /\ \A i \in (z+1)..N : f[i-1] = g[i-1] => f[i] = g[i]
      BY <1>11, <1>12, <2>1
    <2>3. \A i \in z..N : f[i] = g[i]
      BY <1>1, <2>2, SameFunction
    <2>4. QED
      BY <2>1, <2>3
  <1>14. QED
    BY <1>1, <1>2, <1>7, <1>10, <1>13 DEF N

\* The list is b, then nullptr.
LEMMA ListFacts ==
    ASSUME NEW lo \in Nat, NEW hi \in Nat, NEW b, Linked(b, lo, hi, head_.ptr, node)
    PROVE  /\ InList = 0..(hi - lo) /\ Cardinality(InList) = hi - lo + 1
           /\ \A i \in 0..(hi - lo) : List[i] = b[lo + i]
           /\ hi - lo \in Nat /\ hi - lo < Cardinality(Nodes)
  <1>1. PICK L \in Nat, N \in Nat : L = hi - lo /\ N = Cardinality(Nodes) /\ L < N
    BY ShortList
  <1>2. /\ DOMAIN List = 0..N
        /\ \A i \in 0..N : List[i] = IF i <= L THEN b[lo + i] ELSE Null
    BY <1>1, ListIsWalk, WalkFinds
  <1>3. ASSUME NEW i \in 0..L PROVE i \in 0..N /\ List[i] = b[lo + i] /\ List[i] # Null
    <2>1. i \in 0..N /\ lo + i \in lo..hi /\ i <= L
      BY <1>1
    <2>2. b[lo + i] \in Nodes
      BY <2>1 DEF Linked
    <2>3. QED
      BY <1>2, <2>1, <2>2, Constants
  <1>4. \A i \in 0..N : i <= L <=> i \in 0..L
    OBVIOUS
  <1>5. InList = 0..L
    BY <1>2, <1>3, <1>4 DEF InList
  <1>6. Cardinality(0..L) = L + 1
    BY FS_Interval
  <1>7. QED
    BY <1>1, <1>3, <1>5, <1>6

------------------------------------------------------------------------------
\* The invariant holds at first, and every step preserves it.

LEMMA DestroyInv ==
    ASSUME IInv, Destroy, TypeOK'
    PROVE  IInv'
  <1>1. /\ \A t \in Threads : pc[t] = "idle" /\ todo[t] = << >>
        /\ head_ # NullPtr /\ head_' = NullPtr
        /\ node' = [n \in Nodes |-> IF \E i \in InList : List[i] = n THEN Null ELSE node[n]]
        /\ UNCHANGED <<pc, todo, view, tail, next, new, got>>
    BY DEF Destroy, locals
  <1>2. PICK lo \in Nat, k \in Nat, hi \in Nat :
            \E b \in [lo..hi -> Nodes] : Shape(b, lo, k, hi)
    BY <1>1 DEF IInv
  <1>3. PICK b \in [lo..hi -> Nodes] : Shape(b, lo, k, hi)
    BY <1>2
  <1>4. PICK A, B : A = Behind(b, lo, hi) /\ B = Behind(b, k, hi)
    OBVIOUS
  <1>5. /\ Chain(b, lo, k, hi) /\ \A u \in Threads : ThreadOK(A, B, u)
        /\ \A n \in Nodes : NodeInv(A, B, n)
    BY <1>3, <1>4 DEF Shape, Inv
  <1>6. \A t \in Threads : /\ new[t] = Null /\ pc[t] \notin Viewing
                           /\ pc[t] \notin HeadReleasing /\ pc[t] \notin TailReleasing
    BY <1>1, <1>5 DEF ThreadOK, Viewing, HeadReleasing, TailReleasing
  <1>7. News = {} /\ News' = {}
    <2>1. \A t \in Threads : new[t] \notin Nodes /\ new'[t] \notin Nodes
      BY <1>1, <1>6, Constants
    <2>2. QED
      BY <2>1 DEF News
  <1>8. /\ \A n : Viewers(n) = {} /\ Takers(n) = {} /\ Viewers(n)' = {} /\ Takers(n)' = {}
        /\ \A n : Users(n) = 0
    <2>1. \A n : Viewers(n) = {} /\ Takers(n) = {}
      BY <1>6 DEF Viewers, Takers
    <2>2. \A n : Viewers(n)' = Viewers(n) /\ Takers(n)' = Takers(n)
      BY <1>1 DEF Viewers, Takers
    <2>3. \A n : Users(n) = 0 + 0
      BY <2>1, FS_EmptySet DEF Users
    <2>4. 0 + 0 = 0
      OBVIOUS
    <2>5. QED
      BY <2>1, <2>2, <2>3, <2>4
  <1>9. ASSUME NEW n \in Nodes PROVE node'[n] = Null
    <2>1. CASE n \in A \cup {head_.ptr}
      <3>1. PICK j \in lo..hi : n = b[j]
        BY <1>4, <1>5, <2>1, ChainFacts
      <3>2. j - lo \in 0..(hi - lo) /\ lo + (j - lo) = j
        OBVIOUS
      <3>3. j - lo \in InList /\ List[j - lo] = n
        BY <1>5, <3>1, <3>2, ListFacts DEF Chain
      <3>4. QED
        BY <1>1, <3>3
    <2>2. CASE n \notin A \cup {head_.ptr}
      <3>1. n \notin A /\ head_.ptr # n /\ n \notin B /\ tail_.ptr # n
        BY <1>4, <1>5, <2>2, ChainFacts
      <3>2. SUFFICES ASSUME node[n] # Null PROVE FALSE
        BY <1>1
      <3>3. node[n].internal_count > 0 /\ \E h \in Int : \E l \in Int : Owes(A, B, n, h, l)
        BY <1>5, <1>7, <3>2 DEF NodeInv
      <3>4. PICK h \in Int, l \in Int : Owes(A, B, n, h, l)
        BY <3>3
      <3>5. h = 0 /\ l = 0
        BY <1>8, <3>1, <3>4 DEF Owes, HeadOwes, TailOwes
      <3>6. node[n].internal_count + h + l = 0
        BY <1>8, <3>4 DEF Owes
      <3>7. PICK i \in Int : i = node[n].internal_count
        BY <3>2, NodeType DEF IInv
      <3>8. i > 0 /\ i + h + l = 0
        BY <3>3, <3>6, <3>7
      <3>9. QED
        BY <3>5, <3>8
    <2>3. QED
      BY <2>1, <2>2
  <1>10. Gone'
    BY <1>1, <1>9 DEF Gone
  <1>11. FiniteInv' /\ NewInv' /\ ReleaseInv'
    <2>1. FiniteInv'
      BY <1>8, FS_EmptySet DEF FiniteInv
    <2>2. NewInv'
      BY <1>1, <1>6, <1>7 DEF NewInv
    <2>3. ReleaseInv'
      BY <1>1, <1>6 DEF ReleaseInv
    <2>4. QED
      BY <2>1, <2>2, <2>3
  <1>12. QED
    BY <1>1, <1>10, <1>11 DEF IInv

LEMMA Initially == Init => IInv
  <1> SUFFICES ASSUME Init PROVE IInv
    OBVIOUS
  <1>1. PICK first \in Nodes : first = CHOOSE n \in Nodes : TRUE
    BY QueueAssumption
  <1>2. /\ head_ = Counted(first, 1) /\ tail_ = Counted(first, 1)
        /\ node = [n \in Nodes |-> IF n = first THEN NewNode(Null) ELSE Null]
        /\ pc = [t \in Threads |-> "idle"] /\ todo \in Programs
        /\ view = [t \in Threads |-> NullPtr] /\ tail = [t \in Threads |-> NullPtr]
        /\ next = [t \in Threads |-> NullPtr] /\ new = [t \in Threads |-> Null]
        /\ got = [t \in Threads |-> << >>]
    BY <1>1 DEF Init
  <1>3. PICK r : r = NewNode(Null)
    OBVIOUS
  <1>4. /\ r \in NodeRecords /\ r # Null
        /\ r.internal_count = 2 * kOneCounter /\ r.next = NullPtr
    <2>1. /\ r = [value |-> Null, internal_count |-> 2 * kOneCounter, next |-> NullPtr]
          /\ 2 * kOneCounter \in Int /\ NullPtr \in CountedPtrs
      BY <1>3, Constants DEF NewNode
    <2>2. r \in NodeRecords
      BY <2>1 DEF NodeRecords
    <2>3. QED
      BY <2>1, <2>2, Constants
  <1>5. /\ head_.ptr = first /\ head_.count = 1 /\ tail_.ptr = first /\ tail_.count = 1
        /\ head_ \in CountedPtrs /\ tail_ \in CountedPtrs
        /\ node[first] = r /\ \A n \in Nodes : n # first => node[n] = Null
    BY <1>2, <1>3, Constants
  <1>6. TypeOK
    <2>1. << >> \in Seq(Items) /\ Programs \subseteq [Threads -> Seq(Items \cup {"TryPop"})]
      BY Constants
    <2>2. node \in [Nodes -> NodeRecords \cup {Null}]
      BY <1>2, <1>3, <1>4
    <2>3. QED
      BY <1>2, <1>5, <2>1, <2>2, Constants DEF TypeOK
  <1>7. \A t \in Threads : /\ pc[t] = "idle" /\ pc[t] \notin Viewing /\ pc[t] \notin PopView
                           /\ pc[t] \notin HeadReleasing /\ pc[t] \notin TailReleasing
    BY <1>2 DEF Viewing, HeadReleasing, TailReleasing, PopView
  <1>8. (\A n : Viewers(n) = {} /\ Takers(n) = {}) /\ News = {}
    <2>1. \A t \in Threads : new[t] \notin Nodes
      BY <1>2, Constants
    <2>2. QED
      BY <1>7, <2>1 DEF Viewers, Takers, News
  <1>9. FiniteInv /\ NewInv /\ ReleaseInv
    <2>1. FiniteInv
      BY <1>8, FS_EmptySet DEF FiniteInv
    <2>2. NewInv
      BY <1>2, <1>8 DEF NewInv
    <2>3. ReleaseInv
      BY <1>7 DEF ReleaseInv
    <2>4. QED
      BY <2>1, <2>2, <2>3
  <1>10. PICK b : b = [i \in 0..0 |-> first]
    OBVIOUS
  <1>11. b \in [0..0 -> Nodes] /\ b[0] = first
    BY <1>10
  <1>12. Behind(b, 0, 0) = {}
    BY DEF Behind
  <1>13. Chain(b, 0, 0, 0)
    <2>1. Linked(b, 0, 0, first, node)
      BY <1>4, <1>5, <1>11 DEF Linked
    <2>2. QED
      BY <1>5, <1>8, <1>11, <2>1 DEF Chain
  <1>14. ASSUME NEW t \in Threads PROVE ThreadOK({}, {}, t)
    BY <1>2, <1>7, <1>8 DEF ThreadOK
  <1>15. ASSUME NEW n \in Nodes PROVE NodeInv({}, {}, n)
    <2>1. CASE n = first
      <3>1. PICK h \in Int : h = -kOneCounter /\ h = 1 - 1 - kOneCounter
        BY Constants
      <3>2. HeadOwes({}, n, h) /\ TailOwes({}, n, h)
        BY <1>5, <1>8, <2>1, <3>1 DEF HeadOwes, TailOwes
      <3>3. Users(n) = 0
        BY <1>8, FS_EmptySet DEF Users
      <3>4. 2 * kOneCounter > 0 /\ 2 * kOneCounter + h + h = 0
        BY <3>1, Constants
      <3>5. Owes({}, {}, n, h, h)
        BY <1>4, <1>5, <2>1, <3>2, <3>3, <3>4 DEF Owes
      <3>6. QED
        BY <1>4, <1>5, <2>1, <3>4, <3>5 DEF NodeInv
    <2>2. CASE n # first
      BY <1>5, <2>2 DEF NodeInv
    <2>3. QED
      BY <2>1, <2>2
  <1>16. Shape(b, 0, 0, 0) /\ 0 \in Nat
    BY <1>12, <1>13, <1>14, <1>15 DEF Shape, Inv
  <1>17. head_ # NullPtr
    BY <1>5, Constants
  <1>18. \E lo \in Nat : \E k \in Nat : \E hi \in Nat :
             \E c \in [lo..hi -> Nodes] : Shape(c, lo, k, hi)
    BY <1>11, <1>16
  <1>19. QED
    BY <1>6, <1>9, <1>17, <1>18 DEF IInv

LEMMA StepInv ==
    ASSUME IInv, CountsFit, NEW t \in Threads, Step(t)
    PROVE  IInv'
  <1>1. TypeOK' /\ TypeOK /\ Others(t)
    BY Types, OthersKept DEF IInv, Next
  <1>2. pc[t] # "idle" \/ todo[t] # << >>
    BY DEF Step, Push, ViewTail, Link, LoadNextTail, Swing, ReleaseTail, TryPop, ViewHead,
           LoadTail, LoadNextHead, Help, ReleaseHelped, SwingHead, Read, ReleaseHead,
           ReleaseRef, Goto, Calls
  <1>3. PICK lo \in Nat, k \in Nat, hi \in Nat :
            \E b \in [lo..hi -> Nodes] : Shape(b, lo, k, hi)
    BY <1>2, InUse
  <1>4. PICK b \in [lo..hi -> Nodes] : Shape(b, lo, k, hi)
    BY <1>3
  <1>5. CASE Push(t) \/ TryPop(t) \/ ViewTail(t) \/ ViewHead(t)
    BY <1>1, <1>4, <1>5, PushInv, TryPopInv, ViewInv
  <1>6. CASE Loading(t)
    BY <1>1, <1>4, <1>6, LoadingInv
  <1>7. CASE Link(t) /\ At(view[t]).next = NullPtr
    BY <1>1, <1>4, <1>7, LinkInv
  <1>8. CASE TailMoves(t)
    BY <1>1, <1>4, <1>8, TailInv
  <1>9. CASE SwingHead(t) /\ head_ = view[t]
    BY <1>1, <1>4, <1>9, SwingHeadInv
  <1>10. CASE ReleaseTail(t) \/ ReleaseHelped(t) \/ ReleaseHead(t) \/ ReleaseRef(t)
    BY <1>1, <1>4, <1>10, ReleaseTailInv, ReleaseHelpedInv, ReleaseHeadInv, ReleaseRefInv
  <1>11. QED
    BY <1>5, <1>6, <1>7, <1>8, <1>9, <1>10 DEF Step, Loading, TailMoves

\* Nothing depends on anything but the variables.
LEMMA Stuttering ==
    ASSUME IInv, UNCHANGED vars
    PROVE  IInv'
  <1>1. /\ UNCHANGED <<head_, tail_, node, pc, todo, view, tail, next, new, got>>
    BY DEF vars, locals
  <1>2. TypeOK'
    BY <1>1 DEF TypeOK, IInv
  <1>3. News' = News /\ \A n : /\ Viewers(n)' = Viewers(n) /\ Takers(n)' = Takers(n)
                               /\ Users(n)' = Users(n)
    BY <1>1 DEF News, Viewers, Takers, Users
  <1>4. FiniteInv' /\ NewInv' /\ ReleaseInv'
    BY <1>1, <1>3 DEF FiniteInv, NewInv, NewNodeInv, ReleaseInv, IInv
  <1>5. \A A, B : \A n \in Nodes : NodeInv(A, B, n) => NodeInv(A, B, n)'
    <2>1. ASSUME NEW A, NEW n, NEW i
          PROVE  HeadOwes(A, n, i)' = HeadOwes(A, n, i) /\ TailOwes(A, n, i)' = TailOwes(A, n, i)
      BY <1>1, <1>3 DEF HeadOwes, TailOwes, Replaced
    <2>2. \A A, B, n, h, l : Owes(A, B, n, h, l)' = Owes(A, B, n, h, l)
      BY <1>1, <1>3, <2>1 DEF Owes
    <2>3. QED
      BY <1>1, <1>3, <2>2 DEF NodeInv
  <1>6. \A A, B : \A t \in Threads : ThreadOK(A, B, t) => ThreadOK(A, B, t)'
    <2>1. \A A, B, t, n : Views(A, B, t, n)' = Views(A, B, t, n)
      BY <1>1, <1>3 DEF Views
    <2>2. \A A, n : Takes(A, n)' = Takes(A, n)
      BY <1>1, <1>3 DEF Takes
    <2>3. QED
      BY <1>1, <1>3, <2>1, <2>2 DEF ThreadOK
  <1>7. \A b, lo, k, hi : Shape(b, lo, k, hi) => Shape(b, lo, k, hi)'
    BY <1>1, <1>3, <1>5, <1>6 DEF Shape, Chain, Inv
  <1>8. Gone => Gone'
    BY <1>1 DEF Gone
  <1>9. QED
    BY <1>1, <1>2, <1>4, <1>7, <1>8 DEF IInv

LEMMA Inductive == IInv /\ CountsFit /\ [Next]_vars => IInv'
  <1> SUFFICES ASSUME IInv, CountsFit, [Next]_vars PROVE IInv'
    OBVIOUS
  <1>1. CASE UNCHANGED vars
    BY <1>1, Stuttering
  <1>2. CASE Destroy
    <2>1. TypeOK'
      BY <1>2, Types DEF Next
    <2>2. QED
      BY <1>2, <2>1, DestroyInv
  <1>3. QED
    BY <1>1, <1>2, StepInv DEF Next

LEMMA Invariance == Spec /\ []CountsFit => []IInv
  BY Initially, Inductive, PTL DEF Spec

------------------------------------------------------------------------------
\* While the counts fit, everything has its type: no thread reads a node that
\* has been deleted.
THEOREM TypeCorrect == Spec /\ []CountsFit => []TypeOK
  <1>1. IInv => TypeOK
    BY DEF IInv
  <1>2. QED
    BY <1>1, Invariance, PTL

\* While the counts fit, the last who looks at a node deletes it, nobody looks at
\* a deleted one, and ~Queue leaves nothing behind.
THEOREM Reclaimed == Spec /\ []CountsFit => []NodesReclaimed
  <1>1. ASSUME IInv PROVE NodesReclaimed
    <2>1. CASE head_ = NullPtr
      <3>1. \A t \in Threads : pc[t] = "idle"
        BY <1>1, <2>1 DEF IInv, Gone
      <3>2. \A n \in Nodes : node[n] = Null
        BY <1>1, <2>1 DEF IInv, Gone
      <3>3. QED
        BY <2>1, <3>1, <3>2 DEF NodesReclaimed, OnlyLiveNodes, NothingLeaks, Viewing
    <2>2. CASE head_ # NullPtr
      <3>1. PICK lo \in Nat, k \in Nat, hi \in Nat :
                \E b \in [lo..hi -> Nodes] : Shape(b, lo, k, hi)
        BY <1>1, <2>2 DEF IInv
      <3>2. PICK b \in [lo..hi -> Nodes] : Shape(b, lo, k, hi)
        BY <3>1
      <3>3. PICK A, B : A = Behind(b, lo, hi) /\ B = Behind(b, k, hi)
        OBVIOUS
      <3>4. Chain(b, lo, k, hi) /\ \A t \in Threads : ThreadOK(A, B, t)
        BY <3>2, <3>3 DEF Shape, Inv
      <3>5. node[head_.ptr] # Null /\ node[tail_.ptr] # Null
        BY <3>3, <3>4, ChainFacts
      <3>6. ASSUME NEW n \in Nodes, node[n].next # NullPtr, NEW i \in InList, List[i] = n
            PROVE  node[node[n].next.ptr] # Null
        <4>1. i \in 0..(hi - lo) /\ n = b[lo + i] /\ hi - lo \in Nat
          BY <3>4, <3>6, ListFacts DEF Chain
        <4>2. PICK j \in lo..hi : n = b[j]
          <5>1. lo + i \in lo..hi
            BY <4>1
          <5>2. QED
            BY <4>1, <5>1
        <4>3. j # hi
          BY <3>4, <3>6, <4>2 DEF Chain, Linked
        <4>4. j + 1 \in lo..hi /\ b[j+1] \in Nodes /\ node[b[j]].next = Counted(b[j+1], 1)
          BY <3>4, <4>2, <4>3, Beyond
        <4>5. node[b[j+1]] # Null
          BY <3>4, <4>4 DEF Chain, Linked
        <4>6. node[n].next.ptr = b[j+1]
          BY <4>2, <4>4, Constants
        <4>7. QED
          BY <4>5, <4>6
      <3>7. ASSUME NEW t \in Threads
            PROVE  /\ pc[t] \in Viewing => node[view[t].ptr] # Null
                   /\ pc[t] = "releaseHelped" => node[tail[t].ptr] # Null
                   /\ pc[t] \in {"read", "releaseHead"} => node[next[t].ptr] # Null
        <4>1. ASSUME pc[t] \in Viewing
              PROVE  /\ node[view[t].ptr] # Null
                     /\ pc[t] = "releaseHelped" => node[tail[t].ptr] # Null
          <5>1. PICK m \in Nodes : view[t].ptr = m /\ Views(A, B, t, m)
            BY <3>4, <4>1, Looking
          <5>2. QED
            BY <5>1 DEF Views
        <4>2. ASSUME pc[t] \in {"read", "releaseHead"} PROVE node[next[t].ptr] # Null
          <5>1. PICK q \in Nodes : q = next[t].ptr
            BY <3>4, <4>2 DEF ThreadOK, HeadReleasing
          <5>2. t \in Takers(q)
            BY <4>2, <5>1 DEF Takers, HeadReleasing
          <5>3. QED
            BY <3>4, <5>1, <5>2 DEF ThreadOK, Takes
        <4>3. QED
          BY <4>1, <4>2 DEF Viewing
      <3>8. OnlyLiveNodes
        BY <3>5, <3>6, <3>7 DEF OnlyLiveNodes
      <3>9. QED
        BY <2>2, <3>8 DEF NodesReclaimed, NothingLeaks
    <2>3. QED
      BY <2>1, <2>2
  <1>2. QED
    BY <1>1, Invariance, PTL

\* While the counts fit, TryPop reports an empty queue only when it has found one:
\* the node that it looks at is both in head_ and the last, whatever tail_ was.
THEOREM EmptyMeansEmpty == Spec /\ []CountsFit => NothingMeansEmpty
  <1>1. ASSUME IInv, [Next]_vars, NEW t \in Threads, pc[t] # "empty", pc'[t] = "empty"
        PROVE  Cardinality(InList) = 1
    <2>0. TypeOK
      BY <1>1 DEF IInv
    <2>1. LoadNextHead(t)
      <3>1. PICK u \in Threads : Step(u)
        BY <1>1 DEF Next, Destroy, vars
      <3>2. u = t
        BY <1>1, <2>0, <3>1, OthersKept DEF Others
      <3>3. \A from, to : Goto(t, from, to) => pc'[t] = to
        BY <2>0 DEF Goto, TypeOK
      <3>4. AfterPush(t) # "empty"
        BY DEF AfterPush
      <3>5. ~ReleaseRef(t)
        BY <1>1, <2>0, <3>4 DEF ReleaseRef, TypeOK
      <3>6. QED
        BY <1>1, <3>1, <3>2, <3>3, <3>4, <3>5
           DEF Step, Push, ViewTail, Link, LoadNextTail, Swing, ReleaseTail, TryPop, ViewHead,
               LoadTail, Help, ReleaseHelped, SwingHead, Read, ReleaseHead
    <2>2. /\ pc[t] = "loadNextHead" /\ pc[t] # "idle" /\ pc[t] \in Viewing /\ pc[t] \in PopView
          /\ At(view[t]).next = NullPtr
      <3>1. pc'[t] = IF view[t].ptr # tail[t].ptr THEN "swingHead"
                     ELSE IF At(view[t]).next = NullPtr THEN "empty" ELSE "help"
        BY <2>0, <2>1 DEF LoadNextHead, Goto, TypeOK
      <3>2. QED
        BY <1>1, <2>1, <3>1 DEF LoadNextHead, Goto, Viewing, PopView
    <2>3. PICK lo \in Nat, k \in Nat, hi \in Nat :
              \E b \in [lo..hi -> Nodes] : Shape(b, lo, k, hi)
      BY <1>1, <2>2, InUse
    <2>4. PICK b \in [lo..hi -> Nodes] : Shape(b, lo, k, hi)
      BY <2>3
    <2>5. PICK A, B : A = Behind(b, lo, hi) /\ B = Behind(b, k, hi)
      OBVIOUS
    <2>6. Chain(b, lo, k, hi) /\ ThreadOK(A, B, t) /\ \A n \in Nodes : NodeInv(A, B, n)
      BY <2>4, <2>5 DEF Shape, Inv
    <2>7. PICK m \in Nodes : view[t].ptr = m /\ Views(A, B, t, m)
      BY <2>2, <2>6, Looking
    <2>8. node[m] # Null /\ m \notin News /\ m \notin A /\ node[m].next = NullPtr
      BY <2>2, <2>7 DEF Views, At
    <2>9. head_.ptr = m
      BY <2>6, <2>8 DEF NodeInv
    <2>10. m = b[hi]
      BY <2>5, <2>6, <2>8, <2>9, ChainFacts
    <2>11. lo = hi
      <3>1. lo \in lo..hi /\ hi \in lo..hi /\ b[lo] = m
        BY <2>6, <2>9 DEF Chain, Linked
      <3>2. QED
        BY <2>6, <2>10, <3>1 DEF Chain, Linked
    <2>12. Cardinality(InList) = hi - lo + 1
      BY <2>6, ListFacts DEF Chain
    <2>13. QED
      BY <2>11, <2>12
  <1>2. IInv /\ [Next]_vars =>
            [\A t \in Threads : pc[t] # "empty" /\ pc'[t] = "empty" => Cardinality(InList) = 1]_vars
    BY <1>1
  <1>3. QED
    BY <1>2, Invariance, PTL DEF Spec, NothingMeansEmpty

------------------------------------------------------------------------------
\* The queue is a FIFO.

ItemsNow == [i \in 1..(Cardinality(InList) - 1) |-> node[List[i]].value]
GotNow == [t \in Threads |-> got[t] \o Popping(t)]

\* What the list b holds.
Holds(b, lo, hi) ==
    /\ ItemsNow \in Seq(Items) /\ Len(ItemsNow) = hi - lo
    /\ \A i \in 1..(hi - lo) : ItemsNow[i] = node[b[lo+i]].value
    /\ hi - lo \in Nat /\ hi - lo < Cardinality(Nodes)

LEMMA ItemsFound ==
    \A lo \in Nat : \A hi \in Nat : \A b :
        TypeOK /\ Linked(b, lo, hi, head_.ptr, node) => Holds(b, lo, hi)
  <1>1. SUFFICES ASSUME NEW lo \in Nat, NEW hi \in Nat, NEW b, TypeOK,
                        Linked(b, lo, hi, head_.ptr, node)
                 PROVE  Holds(b, lo, hi)
    OBVIOUS
  <1>2. /\ Cardinality(InList) = hi - lo + 1
        /\ \A i \in 0..(hi - lo) : List[i] = b[lo + i]
        /\ hi - lo \in Nat /\ hi - lo < Cardinality(Nodes)
    BY <1>1, ListFacts
  <1>3. PICK L \in Nat : L = hi - lo
    BY <1>2
  <1>4. Cardinality(InList) - 1 = L
    BY <1>2, <1>3
  <1>5. ItemsNow = [i \in 1..L |-> node[List[i]].value]
    BY <1>4 DEF ItemsNow
  <1>6. ASSUME NEW i \in 1..L
        PROVE  List[i] = b[lo+i] /\ node[b[lo+i]].value \in Items
    <2>1. i \in 0..(hi - lo) /\ lo + i \in (lo+1)..hi
      BY <1>3
    <2>2. QED
      BY <1>1, <1>2, <2>1 DEF Linked
  <1>7. PICK s : s = ItemsNow
    OBVIOUS
  <1>8. s \in [1..L -> Items] /\ \A i \in 1..L : s[i] = node[b[lo+i]].value
    BY <1>5, <1>6, <1>7
  <1>9. s \in Seq(Items) /\ Len(s) = L
    BY <1>8
  <1>10. QED
    BY <1>2, <1>3, <1>7, <1>8, <1>9 DEF Holds

LEMMA ItemsFoundNext ==
    (\A lo \in Nat : \A hi \in Nat : \A b :
        TypeOK /\ Linked(b, lo, hi, head_.ptr, node) => Holds(b, lo, hi))'
  BY ItemsFound, PTL

\* The value of a node does not change.
LEMMA ValueKept ==
    ASSUME IInv, NEW t \in Threads, Step(t), NEW n \in Nodes, node[n] # Null, node'[n] # Null
    PROVE  node'[n].value = node[n].value
  <1>0. TypeOK
    BY DEF IInv
  <1>1. CASE Push(t)
    BY <1>0, <1>1 DEF Push, TypeOK
  <1>2. CASE Link(t) /\ At(view[t]).next = NullPtr
    <2>1. pc[t] # "idle"
      BY <1>2 DEF Link, Goto
    <2>2. PICK lo \in Nat, k \in Nat, hi \in Nat :
              \E b \in [lo..hi -> Nodes] : Shape(b, lo, k, hi)
      BY <2>1, InUse
    <2>3. PICK b \in [lo..hi -> Nodes] : Shape(b, lo, k, hi)
      BY <2>2
    <2>4. /\ node'[b[hi]].value = node[b[hi]].value
          /\ \A m \in Nodes : m # b[hi] => node'[m] = node[m]
      BY <1>2, <2>3, LinkFinds
    <2>5. QED
      BY <2>4
  <1>3. CASE ReleaseTail(t) \/ ReleaseHelped(t) \/ ReleaseHead(t) \/ ReleaseRef(t)
    <2>1. pc[t] \in Viewing
      BY <1>3 DEF ReleaseTail, ReleaseHelped, ReleaseHead, ReleaseRef, Goto, Viewing
    <2>2. PICK m \in Nodes : view[t].ptr = m /\ t \in Viewers(m) /\ node[m] # Null
      BY <2>1, LookedAt
    <2>3. \E a \in Int : Add(m, a)
      <3>1. CASE ReleaseHelped(t)
        <4>1. pc[t] = "releaseHelped" /\ pc[t] # "idle"
          BY <3>1 DEF ReleaseHelped, Goto
        <4>2. PICK A, B : Inv(A, B)
          BY <4>1, InUse
        <4>3. tail[t].ptr = m
          BY <2>2, <4>1, <4>2 DEF Inv, ThreadOK, Views
        <4>4. QED
          BY <1>0, <3>1, <4>3, Releasing
      <3>2. CASE ~ReleaseHelped(t)
        BY <1>0, <1>3, <2>2, <3>2, Releasing
      <3>3. QED
        BY <3>1, <3>2
    <2>4. PICK a \in Int : Add(m, a)
      BY <2>3
    <2>5. QED
      BY <1>0, <2>2, <2>4, Adding
  <1>4. CASE UNCHANGED node
    BY <1>4
  <1>5. QED
    BY <1>1, <1>2, <1>3, <1>4
       DEF Step, ViewTail, Link, LoadNextTail, Swing, TryPop, ViewHead, LoadTail, LoadNextHead,
           Help, SwingHead, Read

\* The node whose value a thread takes is there.
LEMMA Taken ==
    \A t \in Threads : IInv /\ pc[t] = "read" =>
        \E n \in Nodes : next[t].ptr = n /\ node[n] # Null /\ node[n].value \in Items
  <1>1. SUFFICES ASSUME NEW t \in Threads, IInv, pc[t] = "read"
                 PROVE  \E n \in Nodes : /\ next[t].ptr = n /\ node[n] # Null
                                         /\ node[n].value \in Items
    OBVIOUS
  <1>2. pc[t] # "idle" /\ pc[t] \in HeadReleasing
    BY <1>1 DEF HeadReleasing
  <1>3. PICK A, B : Inv(A, B)
    BY <1>1, <1>2, InUse
  <1>4. PICK n \in Nodes : n = next[t].ptr
    BY <1>2, <1>3 DEF Inv, ThreadOK
  <1>5. t \in Takers(n)
    BY <1>2, <1>4 DEF Takers
  <1>6. Takes(A, n)
    BY <1>3, <1>5 DEF Inv, ThreadOK
  <1>7. QED
    BY <1>4, <1>6 DEF Takes

LEMMA TakenNext ==
    (\A t \in Threads : IInv /\ pc[t] = "read" =>
        \E n \in Nodes : next[t].ptr = n /\ node[n] # Null /\ node[n].value \in Items)'
  BY Taken, PTL

\* A step that does not change which nodes are in the list.
LEMMA SameItems ==
    ASSUME IInv, IInv', CountsFit, NEW t \in Threads, Step(t),
           ~(Link(t) /\ At(view[t]).next = NullPtr), ~(SwingHead(t) /\ head_ = view[t])
    PROVE  ItemsNow' = ItemsNow
  <1>1. TypeOK /\ TypeOK' /\ Others(t)
    BY OthersKept DEF IInv
  <1>2. pc[t] # "idle" \/ todo[t] # << >>
    BY DEF Step, Push, ViewTail, Link, LoadNextTail, Swing, ReleaseTail, TryPop, ViewHead,
           LoadTail, LoadNextHead, Help, ReleaseHelped, SwingHead, Read, ReleaseHead,
           ReleaseRef, Goto, Calls
  <1>3. PICK lo \in Nat, k \in Nat, hi \in Nat :
            \E b \in [lo..hi -> Nodes] : Shape(b, lo, k, hi)
    BY <1>2, InUse
  <1>4. PICK b \in [lo..hi -> Nodes] : Shape(b, lo, k, hi)
    BY <1>3
  <1>5. Linked(b, lo, hi, head_.ptr, node)'
    <2>1. CASE Push(t) \/ TryPop(t) \/ ViewTail(t) \/ ViewHead(t)
      BY <1>1, <1>4, <2>1, PushInv, TryPopInv, ViewInv
    <2>2. CASE Loading(t)
      BY <1>1, <1>4, <2>2, LoadingInv
    <2>3. CASE TailMoves(t)
      BY <1>1, <1>4, <2>3, TailInv
    <2>4. CASE ReleaseTail(t) \/ ReleaseHelped(t) \/ ReleaseHead(t) \/ ReleaseRef(t)
      BY <1>1, <1>4, <2>4, ReleaseTailInv, ReleaseHelpedInv, ReleaseHeadInv, ReleaseRefInv
    <2>5. QED
      BY <2>1, <2>2, <2>3, <2>4 DEF Step, Loading, TailMoves
  <1>6. Linked(b, lo, hi, head_.ptr, node)
    BY <1>4 DEF Shape, Chain
  <1>7. Holds(b, lo, hi)
    BY <1>1, <1>6, ItemsFound
  <1>8. Holds(b, lo, hi)'
    BY <1>1, <1>5, ItemsFoundNext
  <1>9. \A i \in lo..hi : b[i] \in Nodes /\ node[b[i]] # Null
    BY <1>6 DEF Linked
  <1>10. \A i \in lo..hi : node'[b[i]] # Null
    BY <1>5 DEF Linked
  <1>11. \A i \in lo..hi : node'[b[i]].value = node[b[i]].value
    BY <1>9, <1>10, ValueKept
  <1>12. PICK s, r : s = ItemsNow /\ r = ItemsNow'
    OBVIOUS
  <1>13. s \in Seq(Items) /\ r \in Seq(Items) /\ Len(s) = hi - lo /\ Len(r) = hi - lo
    BY <1>7, <1>8, <1>12 DEF Holds
  <1>14. ASSUME NEW i \in 1..(hi - lo) PROVE s[i] = r[i]
    <2>1. lo + i \in lo..hi
      OBVIOUS
    <2>2. node'[b[lo+i]].value = node[b[lo+i]].value
      BY <1>11, <2>1
    <2>3. QED
      BY <1>7, <1>8, <1>12, <2>2 DEF Holds
  <1>15. QED
    BY <1>12, <1>13, <1>14, SeqEqual

LEMMA LinkPushes ==
    ASSUME IInv, IInv', NEW t \in Threads, Link(t), At(view[t]).next = NullPtr
    PROVE  /\ Len(ItemsNow) < Cardinality(Nodes)
           /\ \E x \in Items : ItemsNow' = Append(ItemsNow, x)
  <1>1. TypeOK /\ TypeOK' /\ Step(t) /\ Others(t) /\ pc[t] # "idle"
    BY OthersKept DEF IInv, Step, Link, Goto
  <1>2. PICK lo \in Nat, k \in Nat, hi \in Nat :
            \E b \in [lo..hi -> Nodes] : Shape(b, lo, k, hi)
    BY <1>1, InUse
  <1>3. PICK b \in [lo..hi -> Nodes] : Shape(b, lo, k, hi)
    BY <1>2
  <1>4. PICK s \in Nodes : new[t] = s /\ NewNodeInv(s)
    BY <1>3, LinkFinds
  <1>5. PICK c \in [lo..(hi+1) -> Nodes] : Lengthened(c, b, lo, hi, s)
    BY <1>1, <1>3, <1>4, LinkInv
  <1>6. Linked(b, lo, hi, head_.ptr, node)
    BY <1>3 DEF Shape, Chain
  <1>7. Holds(b, lo, hi)
    BY <1>1, <1>6, ItemsFound
  <1>8. Holds(c, lo, hi + 1)'
    <2>1. hi + 1 \in Nat /\ Linked(c, lo, hi + 1, head_.ptr, node)'
      BY <1>5 DEF Lengthened
    <2>2. QED
      BY <1>1, <2>1, ItemsFoundNext
  <1>9. \A i \in lo..(hi+1) : c[i] \in Nodes /\ node'[c[i]] # Null
    BY <1>5 DEF Lengthened, Linked
  <1>10. /\ \A i \in lo..hi : c[i] = b[i] /\ b[i] \in Nodes /\ node[b[i]] # Null
         /\ c[hi+1] = s /\ node[s] # Null /\ node[s].value \in Items
    BY <1>4, <1>5, <1>6 DEF Lengthened, Linked, NewNodeInv
  <1>11. \A i \in lo..hi : i \in lo..(hi+1)
    OBVIOUS
  <1>12. \A i \in lo..hi : node'[c[i]].value = node[b[i]].value
    BY <1>1, <1>9, <1>10, <1>11, ValueKept
  <1>13. node'[s].value = node[s].value
    <2>1. lo <= hi
      BY <1>6 DEF Linked
    <2>2. hi + 1 \in lo..(hi+1)
      BY <2>1
    <2>3. QED
      BY <1>1, <1>9, <1>10, <2>2, ValueKept
  <1>14. PICK L \in Nat : L = hi - lo
    BY <1>7 DEF Holds
  <1>15. PICK x \in Items : x = node[s].value
    BY <1>10
  <1>16. PICK q, r : q = ItemsNow /\ r = ItemsNow'
    OBVIOUS
  <1>17. /\ q \in Seq(Items) /\ Len(q) = L /\ L < Cardinality(Nodes)
         /\ \A i \in 1..L : q[i] = node[b[lo+i]].value
    BY <1>7, <1>14, <1>16 DEF Holds
  <1>18. /\ r \in Seq(Items) /\ Len(r) = L + 1
         /\ \A i \in 1..(L+1) : r[i] = node'[c[lo+i]].value
    <2>1. hi + 1 - lo = L + 1
      BY <1>14
    <2>2. QED
      BY <1>8, <1>16, <2>1 DEF Holds
  <1>19. PICK p : p = Append(q, x)
    OBVIOUS
  <1>20. p \in Seq(Items) /\ Len(p) = L + 1 /\ (\A i \in 1..L : p[i] = q[i]) /\ p[L+1] = x
    BY <1>17, <1>19, AppendProperties
  <1>21. ASSUME NEW i \in 1..(L+1) PROVE r[i] = p[i]
    <2>1. CASE i = L + 1
      <3>1. lo + i = hi + 1
        BY <1>14, <2>1
      <3>2. r[i] = node'[s].value
        BY <1>10, <1>18, <3>1
      <3>3. QED
        BY <1>13, <1>15, <1>20, <2>1, <3>2
    <2>2. CASE i # L + 1
      <3>1. i \in 1..L /\ lo + i \in lo..hi
        BY <1>14, <2>2
      <3>2. r[i] = node[b[lo+i]].value
        BY <1>12, <1>18, <3>1
      <3>3. QED
        BY <1>17, <1>20, <3>1, <3>2
    <2>3. QED
      BY <2>1, <2>2
  <1>22. r = p
    BY <1>18, <1>20, <1>21, SeqEqual
  <1>23. QED
    BY <1>16, <1>17, <1>19, <1>22

LEMMA SwingPops ==
    ASSUME IInv, IInv', NEW t \in Threads, SwingHead(t), head_ = view[t]
    PROVE  /\ ItemsNow \in Seq(Items) /\ 1 <= Len(ItemsNow) /\ 1 <= Cardinality(Nodes)
           /\ ItemsNow[1] = node[next[t].ptr].value
           /\ ItemsNow' = SubSeq(ItemsNow, 2, Len(ItemsNow))
  <1>1. TypeOK /\ TypeOK' /\ pc[t] # "idle"
    BY DEF IInv, SwingHead, Goto
  <1>2. PICK lo \in Nat, k \in Nat, hi \in Nat :
            \E b \in [lo..hi -> Nodes] : Shape(b, lo, k, hi)
    BY <1>1, InUse
  <1>3. PICK b \in [lo..hi -> Nodes] : Shape(b, lo, k, hi)
    BY <1>2
  <1>4. /\ node' = node /\ lo # hi /\ k \in (lo+1)..hi
        /\ next[t] = Counted(b[lo+1], 1) /\ head_'.ptr = b[lo+1]
    BY <1>3, SwingHeadFinds
  <1>5. Chain(b, lo, k, hi) /\ Linked(b, lo, hi, head_.ptr, node) /\ lo < hi
    BY <1>3, <1>4 DEF Shape, Chain, Linked
  <1>6. PICK c \in [(lo+1)..hi -> Nodes] : Shortens(c, b, lo, k, hi)
    BY <1>4, <1>5, Shorter
  <1>7. Holds(b, lo, hi)
    BY <1>1, <1>5, ItemsFound
  <1>8. Holds(c, lo + 1, hi)'
    <2>1. lo + 1 \in Nat /\ Linked(c, lo + 1, hi, head_.ptr, node)'
      BY <1>4, <1>6 DEF Shortens, Linked
    <2>2. QED
      BY <1>1, <2>1, ItemsFoundNext
  <1>9. PICK L \in Nat : L = hi - lo /\ 1 <= L
    <2>1. hi - lo \in Nat /\ 1 <= hi - lo
      BY <1>5
    <2>2. QED
      BY <2>1
  <1>10. PICK q, r, p : q = ItemsNow /\ r = ItemsNow' /\ p = SubSeq(q, 2, L)
    OBVIOUS
  <1>11. /\ q \in Seq(Items) /\ Len(q) = L /\ L < Cardinality(Nodes)
         /\ \A i \in 1..L : q[i] = node[b[lo+i]].value
    BY <1>7, <1>9, <1>10 DEF Holds
  <1>12. /\ r \in Seq(Items) /\ Len(r) = L - 1
         /\ \A i \in 1..(L-1) : r[i] = node[c[lo+1+i]].value
    <2>1. hi - (lo + 1) = L - 1
      BY <1>9
    <2>2. QED
      BY <1>4, <1>8, <1>10, <2>1 DEF Holds
  <1>13. /\ p \in Seq(Items) /\ Len(p) = L - 1
         /\ \A i \in 1..(L-1) : p[i] = q[i+1]
    <2>1. \A i \in 2..L : q[i] \in Items
      BY <1>11
    <2>2. /\ p \in Seq(Items) /\ Len(p) = IF 2 <= L THEN L - 2 + 1 ELSE 0
          /\ \A i \in 1..(L-2+1) : p[i] = q[2+i-1]
      BY <1>10, <2>1, SubSeqProperties
    <2>3. L - 2 + 1 = L - 1 /\ (~(2 <= L) => L - 1 = 0)
      BY <1>9
    <2>4. \A i \in 1..(L-1) : 2 + i - 1 = i + 1
      OBVIOUS
    <2>5. QED
      BY <2>2, <2>3, <2>4
  <1>14. ASSUME NEW i \in 1..(L-1) PROVE r[i] = p[i]
    <2>1. /\ i + 1 \in 1..L /\ lo + 1 + i = lo + (i + 1)
          /\ lo + (i + 1) \in (lo+1)..hi
      BY <1>9
    <2>2. c[lo+1+i] = b[lo+(i+1)]
      BY <1>6, <2>1 DEF Shortens
    <2>3. r[i] = node[b[lo+(i+1)]].value
      BY <1>12, <2>2
    <2>4. QED
      BY <1>11, <1>13, <2>1, <2>3
  <1>15. r = p
    BY <1>12, <1>13, <1>14, SeqEqual
  <1>16. q[1] = node[next[t].ptr].value
    <2>1. 1 \in 1..L /\ lo + 1 \in lo..hi
      BY <1>5, <1>9
    <2>2. next[t].ptr = b[lo+1]
      BY <1>4, <1>5, <2>1, Constants DEF Linked
    <2>3. QED
      BY <1>11, <2>1, <2>2
  <1>17. 1 <= Cardinality(Nodes)
    BY <1>9, <1>11, Constants, FS_CardinalityType
  <1>18. QED
    BY <1>9, <1>10, <1>11, <1>15, <1>16, <1>17

\* What a thread has popped, when the step is not its own.
LEMMA SamePopped ==
    ASSUME IInv, IInv', NEW t \in Threads, Step(t), NEW u \in Threads \ {t}
    PROVE  got'[u] = got[u] /\ Popping(u)' = Popping(u)
  <1>1. pc'[u] = pc[u] /\ got'[u] = got[u] /\ next'[u] = next[u]
    BY OthersKept DEF IInv, Others
  <1>2. ASSUME pc[u] = "read" PROVE node'[next[u].ptr].value = node[next[u].ptr].value
    <2>1. PICK n \in Nodes : next[u].ptr = n /\ node[n] # Null
      BY <1>2, Taken
    <2>2. node'[n] # Null
      BY <1>1, <1>2, <2>1, TakenNext
    <2>3. QED
      BY <2>1, <2>2, ValueKept
  <1>3. QED
    BY <1>1, <1>2 DEF Popping, At

LEMMA StepRefines ==
    ASSUME IInv, IInv', CountsFit, NEW t \in Threads, Step(t)
    PROVE  \/ ItemsNow' = ItemsNow /\ GotNow' = GotNow
           \/ /\ GotNow' = GotNow /\ Len(ItemsNow) < Cardinality(Nodes)
              /\ \E x \in Items : ItemsNow' = Append(ItemsNow, x)
           \/ /\ 1 <= Len(ItemsNow) /\ 1 <= Cardinality(Nodes)
              /\ ItemsNow' = SubSeq(ItemsNow, 2, Len(ItemsNow))
              /\ GotNow' = [GotNow EXCEPT ![t] = GotNow[t] \o SubSeq(ItemsNow, 1, 1)]
  <1>0. TypeOK /\ TypeOK'
    BY DEF IInv
  <1>1. \A u \in Threads \ {t} : got'[u] = got[u] /\ Popping(u)' = Popping(u)
    BY SamePopped
  <1>2. got[t] \in Seq(Items)
    BY <1>0 DEF TypeOK
  <1>3. ASSUME got'[t] \o Popping(t)' = got[t] \o Popping(t)
        PROVE  GotNow' = GotNow
    BY <1>1, <1>3 DEF GotNow
  <1>4. CASE Link(t) /\ At(view[t]).next = NullPtr
    <2>1. got' = got /\ Popping(t)' = << >> /\ Popping(t) = << >>
      BY <1>0, <1>4 DEF Link, Goto, Popping, TypeOK
    <2>2. QED
      BY <1>3, <1>4, <2>1, LinkPushes
  <1>5. CASE SwingHead(t) /\ head_ = view[t]
    <2>1. /\ ItemsNow \in Seq(Items) /\ 1 <= Len(ItemsNow) /\ 1 <= Cardinality(Nodes)
          /\ ItemsNow[1] = node[next[t].ptr].value
          /\ ItemsNow' = SubSeq(ItemsNow, 2, Len(ItemsNow))
      BY <1>5, SwingPops
    <2>2. /\ pc[t] = "swingHead" /\ pc'[t] = "read" /\ got' = got /\ node' = node
          /\ next' = next
      BY <1>0, <1>5 DEF SwingHead, Goto, TypeOK, locals
    <2>3. PICK q, p : q = ItemsNow /\ p = SubSeq(q, 1, 1)
      OBVIOUS
    <2>4. PICK x \in Items : x = q[1]
      BY <2>1, <2>3
    <2>5. p = << x >>
      <3>1. \A i \in 1..1 : q[i] \in Items
        BY <2>4
      <3>2. p \in Seq(Items) /\ Len(p) = 1 /\ p[1] = x
        <4>1. /\ p \in Seq(Items) /\ Len(p) = IF 1 <= 1 THEN 1 - 1 + 1 ELSE 0
              /\ \A i \in 1..(1-1+1) : p[i] = q[1+i-1]
          BY <2>3, <3>1, SubSeqProperties
        <4>2. QED
          BY <2>4, <4>1
      <3>3. << x >> \in Seq(Items) /\ Len(<< x >>) = 1 /\ << x >>[1] = x
        BY <2>4
      <3>4. \A i \in 1..1 : p[i] = << x >>[i]
        BY <3>2, <3>3
      <3>5. QED
        BY <3>2, <3>3, <3>4, SeqEqual
    <2>6. Popping(t) = << >> /\ Popping(t)' = << x >>
      BY <2>1, <2>2, <2>3, <2>4 DEF Popping, At
    <2>7. GotNow[t] = got[t]
      BY <1>2, <2>6, ConcatEmptySeq DEF GotNow
    <2>8. \A u \in Threads : GotNow'[u] = IF u = t THEN GotNow[t] \o p ELSE GotNow[u]
      BY <1>1, <2>2, <2>5, <2>6, <2>7 DEF GotNow
    <2>9. GotNow' = [GotNow EXCEPT ![t] = GotNow[t] \o p]
      BY <2>8 DEF GotNow
    <2>10. QED
      BY <2>1, <2>3, <2>9
  <1>6. CASE Read(t)
    <2>1. /\ pc[t] = "read" /\ pc'[t] = "releaseHead"
          /\ got'[t] = Append(got[t], node[next[t].ptr].value)
      BY <1>0, <1>6 DEF Read, Goto, At, TypeOK
    <2>2. PICK x \in Items : x = node[next[t].ptr].value
      BY <2>1, Taken
    <2>3. Popping(t) = << x >> /\ Popping(t)' = << >> /\ got'[t] = Append(got[t], x)
      BY <2>1, <2>2 DEF Popping, At
    <2>4. got[t] \o << x >> = Append(got[t], x) /\ Append(got[t], x) \in Seq(Items)
      BY <1>2, AppendIsConcat, AppendProperties
    <2>5. Append(got[t], x) \o << >> = Append(got[t], x)
      BY <2>4, ConcatEmptySeq
    <2>6. GotNow' = GotNow
      BY <1>3, <2>3, <2>4, <2>5
    <2>7. ItemsNow' = ItemsNow
      BY <2>1, SameItems DEF Link, SwingHead, Goto
    <2>8. QED
      BY <2>6, <2>7
  <1>7. CASE /\ ~(Link(t) /\ At(view[t]).next = NullPtr)
             /\ ~(SwingHead(t) /\ head_ = view[t]) /\ ~Read(t)
    <2>1. ItemsNow' = ItemsNow
      BY <1>7, SameItems
    <2>2. got' = got /\ pc[t] # "read" /\ pc'[t] # "read"
      <3>1. \A from, to : Goto(t, from, to) => pc[t] = from /\ pc'[t] = to
        BY <1>0 DEF Goto, TypeOK
      <3>2. AfterPush(t) # "read"
        BY DEF AfterPush
      <3>3. ReleaseRef(t) => got' = got /\ pc[t] # "read" /\ pc'[t] # "read"
        BY <1>0, <3>2 DEF ReleaseRef, TypeOK
      <3>4. QED
        BY <1>7, <3>1, <3>2, <3>3
           DEF Step, Push, ViewTail, Link, LoadNextTail, Swing, ReleaseTail, TryPop, ViewHead,
               LoadTail, LoadNextHead, Help, ReleaseHelped, SwingHead, ReleaseHead
    <2>3. Popping(t)' = Popping(t)
      BY <2>2 DEF Popping
    <2>4. QED
      BY <1>3, <2>1, <2>2, <2>3
  <1>8. QED
    BY <1>4, <1>5, <1>6, <1>7

\* While the counts fit, Push and TryPop take effect at one instant each, where a
\* node is linked and where head_ moves on, as those of a FIFO, whoever moves
\* tail_ and whatever addresses are used again.
THEOREM Linearizable == Spec /\ []CountsFit => ImplementsFifo
  <1>1. Init => Fifo!Init
    <2>1. SUFFICES ASSUME Init PROVE Fifo!Init
      OBVIOUS
    <2>2. IInv /\ TypeOK /\ head_ # NullPtr
      <3>1. IInv /\ TypeOK
        BY <2>1, Initially DEF IInv
      <3>2. head_ # NullPtr
        BY <2>1, QueueAssumption DEF Init, Counted, NullPtr
      <3>3. QED
        BY <3>1, <3>2
    <2>3. PICK lo \in Nat, k \in Nat, hi \in Nat :
              \E b \in [lo..hi -> Nodes] : Shape(b, lo, k, hi)
      BY <2>2 DEF IInv
    <2>4. PICK b \in [lo..hi -> Nodes] : Shape(b, lo, k, hi)
      BY <2>3
    <2>5. Linked(b, lo, hi, head_.ptr, node)
      BY <2>4 DEF Shape, Chain
    <2>6. ItemsNow \in Seq(Items) /\ Len(ItemsNow) = hi - lo
      BY <2>2, <2>5, ItemsFound DEF Holds
    <2>7. hi = lo
      <3>1. node[b[lo]].next = NullPtr
        <4>1. PICK n \in Nodes : n = head_.ptr /\ node[n] = NewNode(Null)
          BY <2>1, QueueAssumption DEF Init, Counted
        <4>2. QED
          BY <2>5, <4>1 DEF Linked, NewNode
      <3>2. lo <= hi /\ \A i \in lo..(hi-1) : node[b[i]].next = Counted(b[i+1], 1)
        BY <2>5 DEF Linked
      <3>3. Counted(b[lo+1], 1) # NullPtr
        BY DEF Counted, NullPtr
      <3>4. QED
        BY <3>1, <3>2, <3>3
    <2>8. ItemsNow = << >>
      BY <2>6, <2>7, EmptySeq
    <2>9. GotNow = [t \in Threads |-> << >>]
      <3>1. \A t \in Threads : got[t] \o Popping(t) = << >>
        <4>1. \A t \in Threads : got[t] = << >> /\ Popping(t) = << >>
          BY <2>1 DEF Init, Popping
        <4>2. << >> \o << >> = << >>
          BY EmptySeq, ConcatEmptySeq
        <4>3. QED
          BY <4>1, <4>2
      <3>2. QED
        BY <3>1 DEF GotNow
    <2>10. QED
      BY <2>8, <2>9 DEF Fifo!Init, ItemsNow, GotNow
  <1>2. ASSUME IInv, IInv', CountsFit, [Next]_vars PROVE [Fifo!Next \/ Destroy]_(Fifo!vars)
    <2>1. CASE UNCHANGED vars
      <3>1. List' = List
        BY <2>1 DEF vars, List
      <3>2. InList' = InList
        BY <3>1 DEF InList
      <3>3. ItemsNow' = ItemsNow
        BY <2>1, <3>1, <3>2 DEF vars, ItemsNow
      <3>4. GotNow' = GotNow
        BY <2>1 DEF vars, locals, GotNow, Popping, At
      <3>5. QED
        BY <3>3, <3>4 DEF Fifo!vars, ItemsNow, GotNow
    <2>2. CASE Destroy
      BY <2>2
    <2>3. ASSUME NEW t \in Threads, Step(t) PROVE [Fifo!Next \/ Destroy]_(Fifo!vars)
      <3>1. CASE ItemsNow' = ItemsNow /\ GotNow' = GotNow
        BY <3>1 DEF Fifo!vars, ItemsNow, GotNow
      <3>2. CASE /\ GotNow' = GotNow /\ Len(ItemsNow) < Cardinality(Nodes)
                 /\ \E x \in Items : ItemsNow' = Append(ItemsNow, x)
        BY <3>2 DEF Fifo!Next, Fifo!Push, ItemsNow, GotNow
      <3>3. CASE /\ 1 <= Len(ItemsNow) /\ 1 <= Cardinality(Nodes)
                 /\ ItemsNow' = SubSeq(ItemsNow, 2, Len(ItemsNow))
                 /\ GotNow' = [GotNow EXCEPT ![t] = GotNow[t] \o SubSeq(ItemsNow, 1, 1)]
        <4>1. ItemsNow' = SubSeq(ItemsNow, 1 + 1, Len(ItemsNow))
          BY <3>3
        <4>2. Fifo!Take(t, 1)
          BY <3>3, <4>1 DEF Fifo!Take, ItemsNow, GotNow
        <4>3. 1 \in 1..Cardinality(Nodes) /\ 1 <= Len(ItemsNow)
          BY <3>3, FS_CardinalityType, Constants
        <4>4. QED
          BY <4>2, <4>3 DEF Fifo!Next, ItemsNow
      <3>4. QED
        BY <1>2, <2>3, <3>1, <3>2, <3>3, StepRefines
    <2>4. QED
      BY <1>2, <2>1, <2>2, <2>3 DEF Next
  <1>3. QED
    BY <1>1, <1>2, Invariance, PTL DEF Spec, ImplementsFifo
=============================================================================
