------------------------ MODULE LockFreeStackProofs ------------------------
(***************************************************************************)
(* Proofs about LockFree::Stack for any threads, addresses and calls: the  *)
(* last viewer of a node deletes it, and the stack is a LIFO although      *)
(* addresses are used again.                                               *)
(*                                                                         *)
(* The counts have 16 bits.  CountsFit says of an execution that no node   *)
(* is viewed so often while it is head_ that its count wraps around; the   *)
(* theorems are about the executions in which it holds throughout.  That   *)
(* the count of a nullptr wraps around does no harm, and is allowed.       *)
(*                                                                         *)
(* The inductive invariant follows the nodes of the stack from the oldest, *)
(* b[1], to the head, b[L]; b[0] is the nullptr that ends the list.  Of a  *)
(* listed node it compares the count of the pointer to it, of a node that  *)
(* is being popped the count that the thread which pops it has seen, with  *)
(* the number of threads that look at the node.                            *)
(***************************************************************************)
EXTENDS LockFreeStack, SequenceFacts, TLAPS

CountsFit == head_.ptr # Null => head_.count + 1 < kCounts

\* Who looks at a node, and whether one of them puts it in or takes it out.
Users(n) == {t \in Threads : view[t].ptr = n}
Owning == {"link", "read", "release"}
Owned(n) == \E t \in Users(n) : pc[t] \in Owning

\* What is true of a node n that t looks at.
Looks(t, n) ==
    /\ node[n] # Null
    /\ pc[t] = "link" => /\ view[t].count = 1 /\ Users(n) = {t}
                         /\ node[n].internal_count = 0
    /\ pc[t] = "swing" => next[t] = node[n].next
    /\ pc[t] \in {"read", "release"} =>
          /\ node[n].internal_count <= 0
          /\ Cardinality(Users(n)) = node[n].internal_count + view[t].count - 1

UserInv ==
    \A t \in Threads :
        /\ pc[t] = "idle" => view[t] = NullPtr
        /\ pc[t] # "idle" => todo[t] # << >>
        /\ \A n \in Nodes : view[t].ptr = n => Looks(t, n)

OwnerInv == \A t \in Threads : \A u \in Threads :
                pc[t] \in Owning /\ pc[u] \in Owning /\ view[t].ptr = view[u].ptr => t = u

FiniteInv == \A n \in Nodes : IsFiniteSet(Users(n))

\* From the head h on, the nodes are b[L], ..., b[1].
Linked(b, L, h, nodes) ==
    /\ b \in [0..L -> Nodes \cup {Null}]
    /\ b[0] = Null /\ b[L] = h
    /\ \A i \in 1..L : b[i] \in Nodes /\ nodes[b[i]] # Null /\ nodes[b[i]].next.ptr = b[i-1]
    /\ \A i \in 0..L : \A j \in 0..L : b[i] = b[j] => i = j
Chain(b, L) == Linked(b, L, head_.ptr, node)

Listed(b, L) == {b[i] : i \in 1..L}

\* As many look at n as the pointer p has counted, less those that have left.
Counts(n, p) == Cardinality(Users(n)) = p.count - 1 + node[n].internal_count

ListedNode(S, n) ==
    /\ ~Owned(n)
    /\ node[n].internal_count <= 0
    /\ head_.ptr = n => Counts(n, head_)
    /\ \A m \in S : node[m].next.ptr = n => Counts(n, node[m].next)

\* A node that has been popped and released waits for its last viewers.
UnlistedNode(n) ==
    node[n] # Null /\ ~Owned(n) => /\ node[n].internal_count > 0
                                   /\ Cardinality(Users(n)) = node[n].internal_count

NodeInv(S) == \A n \in Nodes : IF n \in S THEN ListedNode(S, n) ELSE UnlistedNode(n)

Shape(b, L) == Chain(b, L) /\ NodeInv(Listed(b, L))

Gone == /\ \A t \in Threads : pc[t] = "idle" /\ todo[t] = << >>
        /\ \A n \in Nodes : node[n] = Null

IInv == /\ TypeOK /\ UserInv /\ OwnerInv /\ FiniteInv
        /\ destroyed => Gone
        /\ ~destroyed => \E L \in Nat : \E b \in [0..L -> Nodes \cup {Null}] : Shape(b, L)

------------------------------------------------------------------------------
\* Types.

LEMMA Constants ==
    /\ IsFiniteSet(Nodes) /\ Null \notin Nodes \cup NodeRecords /\ kCounts \in Nat /\ kCounts > 1
    /\ Programs \subseteq [Threads -> Seq(Items \cup {"TryPop", "Clear"})]
    /\ NullPtr \in CountedPtrs /\ NullPtr.ptr = Null
    /\ \A n \in Nodes : Counted(n, 1) \in CountedPtrs /\ Counted(n, 1).ptr = n
                        /\ Counted(n, 1).count = 1
  BY StackAssumption DEF CountedPtrs, NullPtr, Counted

LEMMA Counting ==
    ASSUME NEW p \in CountedPtrs
    PROVE  /\ Increased(p) \in CountedPtrs /\ Increased(p).ptr = p.ptr
           /\ p.count + 1 < kCounts => Increased(p).count = p.count + 1
           /\ p.ptr \in Nodes \cup {Null} /\ p.count \in Nat
  <1>1. p.count \in 0..(kCounts - 1) /\ p.ptr \in Nodes \cup {Null}
    BY DEF CountedPtrs
  <1>2. (p.count + 1) % kCounts \in 0..(kCounts - 1)
    BY <1>1, Constants
  <1>3. p.count + 1 < kCounts => (p.count + 1) % kCounts = p.count + 1
    BY <1>1, Constants
  <1>4. Increased(p) = [p EXCEPT !.count = (p.count + 1) % kCounts]
    BY DEF Increased
  <1>5. QED
    BY <1>1, <1>2, <1>3, <1>4 DEF CountedPtrs

LEMMA NodeType ==
    ASSUME TypeOK, NEW n \in Nodes, node[n] # Null
    PROVE  /\ node[n] \in NodeRecords
           /\ node[n].value \in Items /\ node[n].internal_count \in Int
           /\ node[n].next \in CountedPtrs
  BY DEF TypeOK, NodeRecords

LEMMA Adding ==
    ASSUME TypeOK, NEW n \in Nodes, node[n] # Null, NEW a \in Int, Add(n, a)
    PROVE  /\ node' \in [Nodes -> NodeRecords \cup {Null}]
           /\ \A m \in Nodes : m # n => node'[m] = node[m]
           /\ node[n].internal_count + a = 0 => node'[n] = Null
           /\ node[n].internal_count + a # 0 =>
                 /\ node'[n] # Null
                 /\ node'[n].internal_count = node[n].internal_count + a
                 /\ node'[n].next = node[n].next /\ node'[n].value = node[n].value
  <1>1. /\ node[n] \in NodeRecords
        /\ node \in [Nodes -> NodeRecords \cup {Null}]
    BY NodeType DEF TypeOK
  <1>2. PICK r : r = [node[n] EXCEPT !.internal_count = node[n].internal_count + a]
    OBVIOUS
  <1>3. /\ r \in NodeRecords
        /\ r.internal_count = node[n].internal_count + a
        /\ r.next = node[n].next /\ r.value = node[n].value
    BY <1>1, <1>2 DEF NodeRecords
  <1>4. node' = [node EXCEPT ![n] = IF node[n].internal_count + a = 0 THEN Null ELSE r]
    BY <1>2 DEF Add
  <1>5. r # Null
    BY <1>3, Constants
  <1>6. QED
    BY <1>1, <1>3, <1>4, <1>5

\* Whoever is in the middle of a call looks at a node.
LEMMA LookedAt ==
    ASSUME TypeOK, UserInv, NEW t \in Threads, pc[t] # "idle"
    PROVE  \E n \in Nodes : view[t].ptr = n /\ Looks(t, n) /\ node[n] # Null
  <1>1. view[t].ptr \in Nodes
    BY DEF TypeOK, CountedPtrs
  <1>2. QED
    BY <1>1 DEF UserInv, Looks

LEMMA Calling ==
    ASSUME TypeOK, NEW t \in Threads, todo[t] # << >>
    PROVE  /\ Head(todo[t]) \in Items \cup {"TryPop", "Clear"}
           /\ Return(t) => todo' \in [Threads -> Seq(Items \cup {"TryPop", "Clear"})]
  <1>1. todo[t] \in Seq(Items \cup {"TryPop", "Clear"})
    BY DEF TypeOK
  <1>2. Head(todo[t]) \in Items \cup {"TryPop", "Clear"}
    BY <1>1
  <1>3. Tail(todo[t]) \in Seq(Items \cup {"TryPop", "Clear"})
    BY <1>1
  <1>4. QED
    BY <1>2, <1>3 DEF TypeOK, Return

LEMMA Types ==
    ASSUME TypeOK, UserInv, Next
    PROVE  TypeOK'
  <1> DEFINE PCs == {"idle", "link", "loadNext", "swing", "read", "release", "leave"}
             Todos == [Threads -> Seq(Items \cup {"TryPop", "Clear"})]
  <1>0. /\ head_ \in CountedPtrs /\ node \in [Nodes -> NodeRecords \cup {Null}]
        /\ pc \in [Threads -> PCs] /\ todo \in Todos
        /\ view \in [Threads -> CountedPtrs]
        /\ \A u \in Threads : pc[u] # "idle" => view[u].ptr # Null
        /\ next \in [Threads -> CountedPtrs] /\ got \in [Threads -> Seq(Items)]
        /\ destroyed \in BOOLEAN
    BY DEF TypeOK
  <1>a. ASSUME NEW t \in Threads, Forget(t)
        PROVE  /\ view' \in [Threads -> CountedPtrs] /\ next' \in [Threads -> CountedPtrs]
               /\ \A u \in Threads \ {t} : view'[u] = view[u]
    BY <1>0, <1>a, Constants DEF Forget
  <1>b. ASSUME NEW t \in Threads, NEW from, NEW to \in PCs, Goto(t, from, to)
        PROVE  /\ pc' \in [Threads -> PCs] /\ pc[t] = from /\ pc'[t] = to
               /\ \A u \in Threads \ {t} : pc'[u] = pc[u]
    BY <1>0, <1>b DEF Goto
  <1>c. ASSUME NEW t \in Threads, NEW n \in Nodes, node[n] # Null, NEW p \in CountedPtrs,
               node' = [node EXCEPT ![n].next = p]
        PROVE  node' \in [Nodes -> NodeRecords \cup {Null}]
    <2>1. node[n] \in NodeRecords
      BY <1>0, <1>c
    <2>2. [node[n] EXCEPT !.next = p] \in NodeRecords
      BY <2>1 DEF NodeRecords
    <2>3. QED
      BY <1>0, <1>c, <2>2
  <1>1. ASSUME NEW t \in Threads, Push(t) PROVE TypeOK'
    <2>1. PICK n \in Nodes :
              /\ node' = [node EXCEPT ![n] = [value |-> Head(todo[t]), internal_count |-> 0,
                                              next |-> NullPtr]]
              /\ view' = [view EXCEPT ![t] = Counted(n, 1)]
      BY <1>1 DEF Push
    <2>2. todo[t] # << >> /\ Head(todo[t]) \in Items
      BY <1>1 DEF Push, Begins
    <2>3. [value |-> Head(todo[t]), internal_count |-> 0, next |-> NullPtr] \in NodeRecords
      BY <2>2, Constants DEF NodeRecords
    <2>4. node' \in [Nodes -> NodeRecords \cup {Null}]
      BY <1>0, <2>1, <2>3
    <2>5. n # Null
      BY Constants
    <2>6. /\ view' \in [Threads -> CountedPtrs] /\ view'[t].ptr # Null
          /\ \A u \in Threads \ {t} : view'[u] = view[u]
      BY <1>0, <2>1, <2>5, Constants
    <2>7. Goto(t, "idle", "link") /\ UNCHANGED <<head_, todo, next, got, destroyed>>
      BY <1>1 DEF Push
    <2>8. QED
      BY <1>0, <1>b, <2>4, <2>6, <2>7 DEF TypeOK
  <1>2. ASSUME NEW t \in Threads, Link(t) PROVE TypeOK'
    <2>1. Goto(t, "link", "idle") /\ Return(t) /\ Forget(t)
      BY <1>2 DEF Link
    <2>2. pc[t] # "idle"
      BY <2>1 DEF Goto
    <2>3. PICK n \in Nodes : view[t].ptr = n /\ Looks(t, n) /\ node[n] # Null
      BY <2>2, LookedAt
    <2>4. todo' \in Todos
      BY <2>1, <2>2, Calling DEF UserInv
    <2>5. node' \in [Nodes -> NodeRecords \cup {Null}]
      BY <1>0, <1>2, <1>c, <2>3 DEF Link
    <2>6. head_' = view[t] /\ UNCHANGED <<got, destroyed>>
      BY <1>2 DEF Link
    <2>7. head_' \in CountedPtrs
      BY <1>0, <2>6
    <2>8. /\ view' \in [Threads -> CountedPtrs] /\ next' \in [Threads -> CountedPtrs]
          /\ \A u \in Threads \ {t} : view'[u] = view[u]
      BY <1>a, <2>1
    <2>9. /\ pc' \in [Threads -> PCs] /\ pc'[t] = "idle"
          /\ \A u \in Threads \ {t} : pc'[u] = pc[u]
      BY <1>b, <2>1
    <2>10. QED
      BY <1>0, <2>4, <2>5, <2>6, <2>7, <2>8, <2>9 DEF TypeOK
  <1>3. ASSUME NEW t \in Threads, ViewHead(t) PROVE TypeOK'
    <2>1. /\ Goto(t, "idle", "loadNext") /\ head_.ptr # Null
          /\ head_' = Increased(head_) /\ view' = [view EXCEPT ![t] = head_']
          /\ UNCHANGED <<node, todo, next, got, destroyed>>
      BY <1>3 DEF ViewHead
    <2>2. head_' \in CountedPtrs /\ head_'.ptr # Null
      BY <1>0, <2>1, Counting
    <2>3. /\ view' \in [Threads -> CountedPtrs] /\ view'[t].ptr # Null
          /\ \A u \in Threads \ {t} : view'[u] = view[u]
      BY <1>0, <2>1, <2>2
    <2>4. QED
      BY <1>0, <1>b, <2>1, <2>2, <2>3 DEF TypeOK
  <1>4. ASSUME NEW t \in Threads, FindsNothing(t) PROVE TypeOK'
    <2>1. /\ Goto(t, "idle", "idle") /\ Return(t) /\ todo[t] # << >>
          /\ head_' = Increased(head_)
          /\ UNCHANGED <<node, view, next, got, destroyed>>
      BY <1>4 DEF FindsNothing, Begins
    <2>2. head_' \in CountedPtrs /\ todo' \in Todos
      BY <1>0, <2>1, Counting, Calling
    <2>3. QED
      BY <1>0, <1>b, <2>1, <2>2 DEF TypeOK
  <1>5. ASSUME NEW t \in Threads, LoadNext(t) PROVE TypeOK'
    <2>1. /\ Goto(t, "loadNext", "swing")
          /\ next' = [next EXCEPT ![t] = node[view[t].ptr].next]
          /\ UNCHANGED <<head_, node, todo, view, got, destroyed>>
      BY <1>5 DEF LoadNext
    <2>2. pc[t] # "idle"
      BY <2>1 DEF Goto
    <2>3. PICK n \in Nodes : view[t].ptr = n /\ Looks(t, n) /\ node[n] # Null
      BY <2>2, LookedAt
    <2>4. next' \in [Threads -> CountedPtrs]
      BY <1>0, <2>1, <2>3, NodeType
    <2>5. QED
      BY <1>0, <1>b, <2>1, <2>2, <2>4 DEF TypeOK
  <1>6. ASSUME NEW t \in Threads, Swing(t) PROVE TypeOK'
    <2>1. PICK to \in PCs : /\ to # "idle" /\ Goto(t, "swing", to)
      BY <1>6 DEF Swing
    <2>2. head_' = (IF head_ = view[t] THEN next[t] ELSE head_)
          /\ UNCHANGED <<node, todo, view, next, got, destroyed>>
      BY <1>6 DEF Swing
    <2>3. head_' \in CountedPtrs
      BY <1>0, <2>2
    <2>4. pc[t] # "idle"
      BY <2>1 DEF Goto
    <2>5. QED
      BY <1>0, <1>b, <2>1, <2>2, <2>3, <2>4 DEF TypeOK
  <1>7. ASSUME NEW t \in Threads, Read(t) PROVE TypeOK'
    <2>1. /\ Goto(t, "read", "release")
          /\ got' = [got EXCEPT ![t] = Append(got[t], node[view[t].ptr].value)]
          /\ UNCHANGED <<head_, node, todo, view, next, destroyed>>
      BY <1>7 DEF Read
    <2>2. pc[t] # "idle"
      BY <2>1 DEF Goto
    <2>3. PICK n \in Nodes : view[t].ptr = n /\ Looks(t, n) /\ node[n] # Null
      BY <2>2, LookedAt
    <2>4. node[view[t].ptr].value \in Items
      BY <2>3, NodeType
    <2>5. Append(got[t], node[view[t].ptr].value) \in Seq(Items)
      BY <1>0, <2>4
    <2>6. got' \in [Threads -> Seq(Items)]
      BY <1>0, <2>1, <2>5
    <2>7. QED
      BY <1>0, <1>b, <2>1, <2>2, <2>6 DEF TypeOK
  <1>8. ASSUME NEW t \in Threads, Release(t) \/ Leave(t) PROVE TypeOK'
    <2>1. PICK from \in PCs, a \in Int :
              /\ from # "idle" /\ Goto(t, from, "idle") /\ Add(view[t].ptr, a)
      <3>1. view[t].count - 2 \in Int /\ -1 \in Int
        BY <1>0, Counting
      <3>2. CASE Release(t)
        <4>1. Goto(t, "release", "idle") /\ Add(view[t].ptr, view[t].count - 2)
          BY <3>2 DEF Release
        <4>2. QED
          BY <3>1, <4>1
      <3>3. CASE Leave(t)
        <4>1. Goto(t, "leave", "idle") /\ Add(view[t].ptr, -1)
          BY <3>3 DEF Leave
        <4>2. QED
          BY <3>1, <4>1
      <3>4. QED
        BY <1>8, <3>2, <3>3
    <2>2. /\ Forget(t) /\ UNCHANGED <<head_, got, destroyed>>
          /\ Return(t) \/ UNCHANGED todo
      BY <1>8 DEF Release, Leave
    <2>3. pc[t] # "idle"
      BY <2>1 DEF Goto
    <2>4. PICK n \in Nodes : view[t].ptr = n /\ Looks(t, n) /\ node[n] # Null
      BY <2>3, LookedAt
    <2>5. node' \in [Nodes -> NodeRecords \cup {Null}]
      BY <2>1, <2>4, Adding
    <2>6. todo' \in Todos
      BY <1>0, <2>2, <2>3, Calling DEF UserInv
    <2>7. /\ view' \in [Threads -> CountedPtrs] /\ next' \in [Threads -> CountedPtrs]
          /\ \A u \in Threads \ {t} : view'[u] = view[u]
      BY <1>a, <2>2
    <2>8. /\ pc' \in [Threads -> PCs] /\ pc'[t] = "idle"
          /\ \A u \in Threads \ {t} : pc'[u] = pc[u]
      BY <1>b, <2>1
    <2>9. QED
      BY <1>0, <2>2, <2>5, <2>6, <2>7, <2>8 DEF TypeOK
  <1>9. ASSUME Destroy PROVE TypeOK'
    <2>1. /\ destroyed' = TRUE
          /\ node' = [n \in Nodes |-> IF \E i \in InList : List[i] = n THEN Null ELSE node[n]]
          /\ UNCHANGED <<head_, pc, todo, view, next, got>>
      BY <1>9 DEF Destroy
    <2>2. node' \in [Nodes -> NodeRecords \cup {Null}]
      BY <1>0, <2>1
    <2>3. QED
      BY <1>0, <2>1, <2>2 DEF TypeOK
  <1>10. QED
    BY <1>1, <1>2, <1>3, <1>4, <1>5, <1>6, <1>7, <1>8, <1>9 DEF Next, Step

------------------------------------------------------------------------------
\* What a step leaves as it was.

LEMMA UsersAfter ==
    ASSUME TypeOK, NEW t \in Threads, NEW p, view' = [view EXCEPT ![t] = p], NEW n
    PROVE  /\ p.ptr = n => Users(n)' = Users(n) \cup {t}
           /\ p.ptr # n => Users(n)' = Users(n) \ {t}
           /\ t \in Users(n) <=> view[t].ptr = n
  BY DEF TypeOK, Users

LEMMA SameLooks ==
    ASSUME NEW u \in Threads, NEW n \in Nodes, Looks(u, n), node'[n] = node[n],
           Users(n)' = Users(n), pc'[u] = pc[u], view'[u] = view[u], next'[u] = next[u]
    PROVE  Looks(u, n)'
  BY DEF Looks

LEMMA SameOwned ==
    ASSUME NEW n \in Nodes, Users(n)' = Users(n),
           \A u \in Users(n) : pc'[u] \in Owning <=> pc[u] \in Owning
    PROVE  Owned(n)' <=> Owned(n)
  BY DEF Owned

LEMMA SameUnlisted ==
    ASSUME NEW n \in Nodes, UnlistedNode(n), Users(n)' = Users(n), node'[n] = node[n],
           \A u \in Users(n) : pc'[u] \in Owning <=> pc[u] \in Owning
    PROVE  UnlistedNode(n)'
  BY SameOwned DEF UnlistedNode

\* A node of the list to which the pointers are the same, or fewer.
LEMMA SameListed ==
    ASSUME NEW S, NEW T, NEW n \in Nodes, ListedNode(S, n), Users(n)' = Users(n),
           node'[n] = node[n],
           \A u \in Users(n) : pc'[u] \in Owning <=> pc[u] \in Owning,
           head_'.ptr = n => \/ head_' = head_
                             \/ \E m \in S : head_' = node[m].next,
           \A m \in T : node'[m].next.ptr = n => \/ node'[m].next = head_
                                                 \/ \E k \in S : node'[m].next = node[k].next
    PROVE  ListedNode(T, n)'
  <1>1. ~Owned(n)' /\ node'[n].internal_count <= 0
    BY SameOwned DEF ListedNode
  <1>2. head_'.ptr = n => Counts(n, head_)'
    BY DEF ListedNode, Counts
  <1>3. ASSUME NEW m \in T, node'[m].next.ptr = n
        PROVE  Counts(n, node[m].next)'
    BY <1>3 DEF ListedNode, Counts
  <1>4. QED
    BY <1>1, <1>2, <1>3 DEF ListedNode

LEMMA Alive ==
    ASSUME IInv, NEW t \in Threads, Step(t)
    PROVE  ~destroyed /\ ~destroyed'
  <1>1. pc[t] # "idle" \/ todo[t] # << >>
    BY DEF Step, Push, Link, ViewHead, FindsNothing, LoadNext, Swing, Read, Release, Leave,
           Goto, Begins
  <1>2. ~destroyed
    BY <1>1 DEF IInv, Gone
  <1>3. destroyed' = destroyed
    BY DEF Step, Push, Link, ViewHead, FindsNothing, LoadNext, Swing, Read, Release, Leave
  <1>4. QED
    BY <1>2, <1>3

LEMMA ListedFacts ==
    ASSUME TypeOK, NEW L \in Nat, NEW b, Chain(b, L)
    PROVE  /\ \A n \in Listed(b, L) : n \in Nodes /\ node[n] # Null
           /\ head_.ptr # Null => L > 0 /\ head_.ptr \in Listed(b, L)
           /\ \A m \in Listed(b, L) : node[m].next.ptr # head_.ptr
           /\ \A m \in Listed(b, L) : node[m].next.ptr \in Listed(b, L) \cup {Null}
  <1>1. /\ b[0] = Null /\ b[L] = head_.ptr
        /\ \A i \in 1..L : b[i] \in Nodes /\ node[b[i]] # Null /\ node[b[i]].next.ptr = b[i-1]
        /\ \A i \in 0..L : \A j \in 0..L : b[i] = b[j] => i = j
    BY DEF Chain, Linked
  <1>2. \A n \in Listed(b, L) : n \in Nodes /\ node[n] # Null
    BY <1>1 DEF Listed
  <1>3. head_.ptr # Null => L > 0 /\ head_.ptr \in Listed(b, L)
    <2>1. L = 0 \/ L \in 1..L
      OBVIOUS
    <2>2. QED
      BY <1>1, <2>1 DEF Listed
  <1>4. ASSUME NEW m \in Listed(b, L)
        PROVE  node[m].next.ptr # head_.ptr /\ node[m].next.ptr \in Listed(b, L) \cup {Null}
    <2>1. PICK i \in 1..L : m = b[i]
      BY <1>4 DEF Listed
    <2>2. node[m].next.ptr = b[i-1] /\ i-1 \in 0..L /\ L \in 0..L /\ i-1 # L
      BY <1>1, <2>1
    <2>3. b[i-1] # b[L]
      BY <1>1, <2>2
    <2>4. i-1 = 0 \/ i-1 \in 1..L
      BY <2>2
    <2>5. QED
      BY <1>1, <2>2, <2>3, <2>4 DEF Listed
  <1>5. QED
    BY <1>2, <1>3, <1>4

\* A step that neither writes to head_ or a node nor changes who looks at it.
LEMMA Quiet ==
    ASSUME IInv, ~destroyed, ~destroyed', TypeOK', NEW t \in Threads,
           UNCHANGED <<head_, node, view, todo>>,
           \A u \in Threads \ {t} : pc'[u] = pc[u] /\ next'[u] = next[u],
           pc[t] # "idle", pc'[t] # "idle", pc[t] \in Owning <=> pc'[t] \in Owning,
           \A n \in Nodes : view[t].ptr = n /\ Looks(t, n) => Looks(t, n)'
    PROVE  IInv'
  <1> USE DEF IInv
  <1>1. \A n : Users(n)' = Users(n)
    BY DEF Users
  <1>2. \A u \in Threads : pc'[u] \in Owning <=> pc[u] \in Owning
    OBVIOUS
  <1>3. UserInv'
    <2>1. ASSUME NEW u \in Threads, NEW n \in Nodes, view'[u].ptr = n PROVE Looks(u, n)'
      <3>1. Looks(u, n)
        BY <2>1 DEF UserInv
      <3>2. QED
        BY <1>1, <2>1, <3>1, SameLooks
    <2>2. QED
      BY <2>1 DEF UserInv
  <1>4. OwnerInv' /\ FiniteInv'
    BY <1>1, <1>2 DEF OwnerInv, FiniteInv
  <1>5. PICK L \in Nat : \E b \in [0..L -> Nodes \cup {Null}] : Shape(b, L)
    OBVIOUS
  <1>6. PICK b \in [0..L -> Nodes \cup {Null}] : Shape(b, L)
    BY <1>5
  <1>7. Chain(b, L)'
    BY <1>6 DEF Shape, Chain
  <1>8. ASSUME NEW n \in Nodes
        PROVE  IF n \in Listed(b, L) THEN ListedNode(Listed(b, L), n)' ELSE UnlistedNode(n)'
    <2>1. IF n \in Listed(b, L) THEN ListedNode(Listed(b, L), n) ELSE UnlistedNode(n)
      BY <1>6 DEF Shape, NodeInv
    <2>2. \A u \in Users(n) : pc'[u] \in Owning <=> pc[u] \in Owning
      BY <1>2 DEF Users
    <2>3. CASE n \in Listed(b, L)
      BY <1>1, <2>1, <2>2, <2>3, SameListed
    <2>4. CASE n \notin Listed(b, L)
      BY <1>1, <2>1, <2>2, <2>4, SameUnlisted
    <2>5. QED
      BY <2>3, <2>4
  <1>9. Shape(b, L)'
    BY <1>7, <1>8 DEF Shape, NodeInv
  <1>10. QED
    BY <1>3, <1>4, <1>9

------------------------------------------------------------------------------
\* The invariant holds at first, and every step preserves it.

LEMMA Initially == Init => IInv
  <1> SUFFICES ASSUME Init PROVE IInv
    OBVIOUS
  <1>1. TypeOK
    <2>1. << >> \in Seq(Items)
      OBVIOUS
    <2>2. QED
      BY <2>1, Constants DEF Init, TypeOK
  <1>2. \A n \in Nodes : Users(n) = {}
    BY Constants DEF Init, Users
  <1>3. UserInv
    BY <1>2, Constants DEF Init, UserInv, Users
  <1>4. OwnerInv /\ FiniteInv
    BY <1>2, FS_EmptySet DEF Init, OwnerInv, FiniteInv, Owning
  <1>5. ~destroyed
    BY DEF Init
  <1>6. PICK b : b = [i \in 0..0 |-> Null]
    OBVIOUS
  <1>7. b \in [0..0 -> Nodes \cup {Null}] /\ b[0] = Null /\ Listed(b, 0) = {}
    BY <1>6 DEF Listed
  <1>8. Chain(b, 0)
    BY <1>7, Constants DEF Chain, Linked, Init
  <1>9. NodeInv(Listed(b, 0))
    BY <1>7 DEF NodeInv, UnlistedNode, Init
  <1>10. Shape(b, 0) /\ 0 \in Nat
    BY <1>8, <1>9 DEF Shape
  <1>11. QED
    BY <1>1, <1>3, <1>4, <1>5, <1>7, <1>10 DEF IInv

LEMMA LoadNextInv ==
    ASSUME IInv, NEW t \in Threads, LoadNext(t), ~destroyed, ~destroyed', TypeOK'
    PROVE  IInv'
  <1>1. TypeOK
    BY DEF IInv
  <1>2. /\ pc[t] = "loadNext" /\ pc'[t] = "swing"
        /\ \A u \in Threads \ {t} : pc'[u] = pc[u] /\ next'[u] = next[u]
        /\ UNCHANGED <<head_, node, view, todo>>
        /\ next'[t] = node[view[t].ptr].next
    BY <1>1 DEF LoadNext, Goto, TypeOK
  <1>3. ASSUME NEW n \in Nodes, view[t].ptr = n, Looks(t, n) PROVE Looks(t, n)'
    BY <1>2, <1>3 DEF Looks
  <1>4. QED
    BY <1>2, <1>3, Quiet DEF Owning

LEMMA ReadInv ==
    ASSUME IInv, NEW t \in Threads, Read(t), ~destroyed, ~destroyed', TypeOK'
    PROVE  IInv'
  <1>1. TypeOK
    BY DEF IInv
  <1>2. /\ pc[t] = "read" /\ pc'[t] = "release"
        /\ \A u \in Threads \ {t} : pc'[u] = pc[u] /\ next'[u] = next[u]
        /\ UNCHANGED <<head_, node, view, todo>>
    BY <1>1 DEF Read, Goto, TypeOK
  <1>3. ASSUME NEW n \in Nodes, view[t].ptr = n, Looks(t, n) PROVE Looks(t, n)'
    <2>1. Users(n)' = Users(n)
      BY <1>2 DEF Users
    <2>2. QED
      BY <1>2, <1>3, <2>1 DEF Looks
  <1>4. QED
    BY <1>2, <1>3, Quiet DEF Owning

\* The list without its head.
LEMMA Shorter ==
    ASSUME NEW L \in Nat, NEW b, NEW h, NEW nodes, Linked(b, L, h, nodes), h # Null
    PROVE  \E c \in [0..(L-1) -> Nodes \cup {Null}] :
              /\ Linked(c, L - 1, nodes[h].next.ptr, nodes)
              /\ Listed(c, L - 1) = Listed(b, L) \ {h}
              /\ L - 1 \in Nat /\ h \in Listed(b, L)
              /\ \A i \in 0..(L-1) : c[i] = b[i]
  <1>1. /\ b \in [0..L -> Nodes \cup {Null}]
        /\ b[0] = Null /\ b[L] = h
        /\ \A i \in 1..L : b[i] \in Nodes /\ nodes[b[i]] # Null /\ nodes[b[i]].next.ptr = b[i-1]
        /\ \A i \in 0..L : \A j \in 0..L : b[i] = b[j] => i = j
    BY DEF Linked
  <1>2. L # 0 /\ L - 1 \in Nat /\ L \in 1..L
    <2>1. L # 0
      BY <1>1
    <2>2. QED
      BY <2>1
  <1>3. PICK c : c = [i \in 0..(L-1) |-> b[i]]
    OBVIOUS
  <1>4. c \in [0..(L-1) -> Nodes \cup {Null}] /\ \A i \in 0..(L-1) : c[i] = b[i]
    BY <1>1, <1>2, <1>3
  <1>5. Linked(c, L - 1, nodes[h].next.ptr, nodes)
    <2>1. c[0] = Null /\ c[L-1] = nodes[h].next.ptr
      BY <1>1, <1>2, <1>4
    <2>2. \A i \in 1..(L-1) : i \in 1..L /\ i-1 \in 0..(L-1) /\ i \in 0..(L-1)
      BY <1>2
    <2>3. \A i \in 1..(L-1) : c[i] \in Nodes /\ nodes[c[i]] # Null
                              /\ nodes[c[i]].next.ptr = c[i-1]
      BY <1>1, <1>4, <2>2
    <2>4. \A i \in 0..(L-1) : \A j \in 0..(L-1) : c[i] = c[j] => i = j
      <3>1. \A i \in 0..(L-1) : i \in 0..L
        BY <1>2
      <3>2. QED
        BY <1>1, <1>4, <3>1
    <2>5. QED
      BY <1>4, <2>1, <2>3, <2>4 DEF Linked
  <1>6. Listed(c, L - 1) = Listed(b, L) \ {h}
    <2>1. \A i \in 1..(L-1) : i \in 1..L /\ i \in 0..(L-1) /\ i \in 0..L /\ i # L
      BY <1>2
    <2>2. \A i \in 1..L : i # L => i \in 1..(L-1)
      BY <1>2
    <2>3. L \in 0..L
      BY <1>2
    <2>4. \A i \in 1..(L-1) : b[i] # h
      BY <1>1, <2>1, <2>3
    <2>5. QED
      BY <1>1, <1>4, <2>1, <2>2, <2>4 DEF Listed
  <1>7. h \in Listed(b, L)
    BY <1>1, <1>2 DEF Listed
  <1>8. QED
    BY <1>2, <1>4, <1>5, <1>6, <1>7

LEMMA SwingInv ==
    ASSUME IInv, NEW t \in Threads, Swing(t), ~destroyed, ~destroyed', TypeOK'
    PROVE  IInv'
  <1> USE DEF IInv
  <1>1. /\ pc[t] = "swing"
        /\ pc'[t] = (IF head_ = view[t] THEN "read" ELSE "leave")
        /\ \A u \in Threads \ {t} : pc'[u] = pc[u]
        /\ head_' = (IF head_ = view[t] THEN next[t] ELSE head_)
        /\ UNCHANGED <<node, todo, view, next>>
    BY DEF Swing, Goto, TypeOK
  <1>2. \A n : Users(n)' = Users(n)
    BY <1>1 DEF Users
  <1>3. CASE head_ # view[t]
    <2>1. ASSUME NEW n \in Nodes, view[t].ptr = n, Looks(t, n) PROVE Looks(t, n)'
      BY <1>1, <1>3, <2>1 DEF Looks
    <2>2. QED
      BY <1>1, <1>3, <2>1, Quiet DEF Owning
  <1>4. CASE head_ = view[t]
    <2>1. PICK L \in Nat : \E b \in [0..L -> Nodes \cup {Null}] : Shape(b, L)
      OBVIOUS
    <2>2. PICK b \in [0..L -> Nodes \cup {Null}] : Shape(b, L)
      BY <2>1
    <2>3. PICK h \in Nodes : view[t].ptr = h /\ Looks(t, h) /\ node[h] # Null
      BY <1>1, LookedAt
    <2>4. head_.ptr = h /\ h # Null /\ head_' = node[h].next
      BY <1>1, <1>4, <2>3, Constants DEF Looks
    <2>5. PICK c \in [0..(L-1) -> Nodes \cup {Null}] :
              /\ Linked(c, L - 1, node[h].next.ptr, node)
              /\ Listed(c, L - 1) = Listed(b, L) \ {h}
              /\ L - 1 \in Nat /\ h \in Listed(b, L)
      <3>1. Linked(b, L, h, node)
        BY <2>2, <2>4 DEF Shape, Chain
      <3>2. \E c \in [0..(L-1) -> Nodes \cup {Null}] :
              /\ Linked(c, L - 1, node[h].next.ptr, node)
              /\ Listed(c, L - 1) = Listed(b, L) \ {h}
              /\ L - 1 \in Nat /\ h \in Listed(b, L)
              /\ \A i \in 0..(L-1) : c[i] = b[i]
        <4>1. h # Null /\ L \in Nat
          BY <2>4
        <4>2. QED
          BY <3>1, <4>1, Shorter
      <3>3. QED
        BY <3>2, Zenon
    <2>6. PICK S, T : S = Listed(b, L) /\ T = Listed(c, L - 1)
      OBVIOUS
    <2>7. T = S \ {h} /\ h \in S
      BY <2>5, <2>6
    <2>8. \A n \in Nodes : IF n \in S THEN ListedNode(S, n) ELSE UnlistedNode(n)
      BY <2>2, <2>6 DEF Shape, NodeInv
    <2>9. /\ ~Owned(h) /\ node[h].internal_count <= 0
          /\ Cardinality(Users(h)) = head_.count - 1 + node[h].internal_count
      BY <2>4, <2>7, <2>8 DEF ListedNode, Counts
    <2>10. \A u \in Users(h) : pc[u] \notin Owning
      BY <2>9 DEF Owned
    <2>11. t \in Users(h)
      BY <2>3 DEF Users
    <2>12. node[h].internal_count \in Int /\ head_.count \in Nat
      BY <2>3, NodeType, Counting DEF TypeOK
    <2>13. UserInv'
      <3>1. ASSUME NEW u \in Threads, NEW n \in Nodes, view'[u].ptr = n PROVE Looks(u, n)'
        <4>1. Looks(u, n)
          BY <1>1, <3>1 DEF UserInv
        <4>2. CASE u # t
          BY <1>1, <1>2, <4>1, <4>2, SameLooks
        <4>3. CASE u = t
          <5>1. n = h
            BY <1>1, <2>3, <3>1, <4>3
          <5>2. Cardinality(Users(h)) = node[h].internal_count + view[t].count - 1
            BY <1>4, <2>9, <2>12
          <5>3. pc'[u] = "read" /\ Users(n)' = Users(n) /\ node' = node /\ view' = view
            BY <1>1, <1>2, <1>4, <4>3
          <5>4. QED
            BY <2>3, <2>9, <4>3, <5>1, <5>2, <5>3 DEF Looks
        <4>4. QED
          BY <4>2, <4>3
      <3>2. QED
        BY <1>1, <1>4, <3>1 DEF UserInv
    <2>14. OwnerInv'
      <3>1. ASSUME NEW u \in Threads, NEW v \in Threads, pc'[u] \in Owning, pc'[v] \in Owning,
                   view'[u].ptr = view'[v].ptr, u # v
            PROVE  FALSE
        <4>1. CASE u # t /\ v # t
          BY <1>1, <3>1, <4>1 DEF OwnerInv
        <4>2. CASE u = t
          <5>1. v \in Users(h) /\ pc[v] \in Owning
            BY <1>1, <2>3, <3>1, <4>2 DEF Users
          <5>2. QED
            BY <2>10, <5>1
        <4>3. CASE v = t
          <5>1. u \in Users(h) /\ pc[u] \in Owning
            BY <1>1, <2>3, <3>1, <4>3 DEF Users
          <5>2. QED
            BY <2>10, <5>1
        <4>4. QED
          BY <4>1, <4>2, <4>3
      <3>2. QED
        BY <3>1 DEF OwnerInv
    <2>15. FiniteInv'
      BY <1>2 DEF FiniteInv
    <2>16. ASSUME NEW n \in Nodes, n # h
           PROVE  IF n \in T THEN ListedNode(T, n)' ELSE UnlistedNode(n)'
      <3>1. \A u \in Users(n) : pc'[u] \in Owning <=> pc[u] \in Owning
        BY <1>1, <2>3, <2>16 DEF Users
      <3>2. CASE n \in T
        <4>1. ListedNode(S, n)
          BY <2>7, <2>8, <3>2
        <4>2. head_' = node[h].next /\ h \in S
          BY <2>4, <2>7
        <4>3. \A m \in T : node'[m].next.ptr = n => \E k \in S : node'[m].next = node[k].next
          BY <1>1, <2>7
        <4>4. ListedNode(T, n)'
          BY <1>1, <1>2, <3>1, <4>1, <4>2, <4>3, SameListed
        <4>5. QED
          BY <3>2, <4>4
      <3>3. CASE n \notin T
        <4>1. UnlistedNode(n)
          BY <2>7, <2>8, <2>16, <3>3
        <4>2. UnlistedNode(n)'
          BY <1>1, <1>2, <3>1, <4>1, SameUnlisted
        <4>3. QED
          BY <3>3, <4>2
      <3>4. QED
        BY <3>2, <3>3
    <2>17. h \notin T /\ UnlistedNode(h)'
      <3>1. Owned(h)'
        <4>1. t \in Users(h)' /\ pc'[t] \in Owning
          BY <1>1, <1>2, <1>4, <2>11 DEF Owning
        <4>2. QED
          BY <4>1 DEF Owned
      <3>2. QED
        BY <2>7, <3>1 DEF UnlistedNode
    <2>18. NodeInv(T)'
      BY <2>16, <2>17 DEF NodeInv
    <2>19. Chain(c, L - 1)'
      BY <1>1, <2>4, <2>5 DEF Chain
    <2>20. Shape(c, L - 1)'
      BY <2>6, <2>18, <2>19 DEF Shape
    <2>21. QED
      BY <2>5, <2>13, <2>14, <2>15, <2>20
  <1>5. QED
    BY <1>3, <1>4

LEMMA FindsNothingInv ==
    ASSUME IInv, NEW t \in Threads, FindsNothing(t), ~destroyed, ~destroyed', TypeOK'
    PROVE  IInv'
  <1> USE DEF IInv
  <1>1. /\ pc' = pc /\ pc[t] = "idle" /\ Return(t) /\ head_.ptr = Null
        /\ head_' = Increased(head_) /\ UNCHANGED <<node, view, next>>
    BY DEF FindsNothing, Goto, TypeOK
  <1>2. head_'.ptr = Null /\ \A n : Users(n)' = Users(n)
    BY <1>1, Counting DEF TypeOK, Users
  <1>3. UserInv'
    <2>1. ASSUME NEW u \in Threads, NEW n \in Nodes, view'[u].ptr = n PROVE Looks(u, n)'
      <3>1. Looks(u, n)
        BY <1>1, <2>1 DEF UserInv
      <3>2. QED
        BY <1>1, <1>2, <2>1, <3>1, SameLooks
    <2>2. \A u \in Threads : pc[u] # "idle" => todo'[u] = todo[u]
      BY <1>1 DEF Return, TypeOK
    <2>3. QED
      BY <1>1, <2>1, <2>2 DEF UserInv
  <1>4. OwnerInv' /\ FiniteInv'
    BY <1>1, <1>2 DEF OwnerInv, FiniteInv
  <1>5. PICK L \in Nat : \E b \in [0..L -> Nodes \cup {Null}] : Shape(b, L)
    OBVIOUS
  <1>6. PICK b \in [0..L -> Nodes \cup {Null}] : Shape(b, L)
    BY <1>5
  <1>7. Chain(b, L)'
    BY <1>1, <1>2, <1>6 DEF Shape, Chain
  <1>8. ASSUME NEW n \in Nodes
        PROVE  IF n \in Listed(b, L) THEN ListedNode(Listed(b, L), n)' ELSE UnlistedNode(n)'
    <2>1. IF n \in Listed(b, L) THEN ListedNode(Listed(b, L), n) ELSE UnlistedNode(n)
      BY <1>6 DEF Shape, NodeInv
    <2>2. n # Null
      BY Constants
    <2>3. CASE n \in Listed(b, L)
      BY <1>1, <1>2, <2>1, <2>2, <2>3, SameListed
    <2>4. CASE n \notin Listed(b, L)
      BY <1>1, <1>2, <2>1, <2>4, SameUnlisted
    <2>5. QED
      BY <2>3, <2>4
  <1>9. Shape(b, L)'
    BY <1>7, <1>8 DEF Shape, NodeInv
  <1>10. QED
    BY <1>3, <1>4, <1>9

LEMMA ViewHeadInv ==
    ASSUME IInv, CountsFit, NEW t \in Threads, ViewHead(t), ~destroyed, ~destroyed', TypeOK'
    PROVE  IInv'
  <1> USE DEF IInv
  <1>1. PICK p : p = head_'
    OBVIOUS
  <1>2. /\ pc[t] = "idle" /\ pc'[t] = "loadNext"
        /\ \A u \in Threads \ {t} : pc'[u] = pc[u] /\ view'[u] = view[u]
        /\ view' = [view EXCEPT ![t] = p] /\ view'[t] = p
        /\ UNCHANGED <<node, todo, next>> /\ todo[t] # << >> /\ head_.ptr # Null
    BY <1>1 DEF ViewHead, Goto, Begins, TypeOK
  <1>3. PICK h : h = head_.ptr
    OBVIOUS
  <1>4. /\ h \in Nodes /\ h # Null /\ head_ \in CountedPtrs /\ p.ptr = h
        /\ p.count = head_.count + 1 /\ head_.count \in Nat
    BY <1>1, <1>2, <1>3, Counting DEF ViewHead, CountsFit, TypeOK
  <1>5. PICK L \in Nat : \E b \in [0..L -> Nodes \cup {Null}] : Shape(b, L)
    OBVIOUS
  <1>6. PICK b \in [0..L -> Nodes \cup {Null}] : Shape(b, L)
    BY <1>5
  <1>7. PICK S : S = Listed(b, L)
    OBVIOUS
  <1>8. /\ h \in S /\ node[h] # Null
        /\ \A m \in S : m \in Nodes /\ node[m].next.ptr # h
    BY <1>2, <1>3, <1>6, <1>7, ListedFacts DEF Shape
  <1>9. \A n \in Nodes : IF n \in S THEN ListedNode(S, n) ELSE UnlistedNode(n)
    BY <1>6, <1>7 DEF Shape, NodeInv
  <1>10. /\ \A n \in Nodes : n # h => Users(n)' = Users(n)
         /\ Users(h)' = Users(h) \cup {t} /\ t \notin Users(h)
    <2>1. view[t].ptr = Null
      BY <1>2, Constants DEF UserInv
    <2>2. \A n \in Nodes : t \notin Users(n)
      BY <2>1, Constants DEF Users
    <2>3. TypeOK /\ view' = [view EXCEPT ![t] = p]
      BY <1>2
    <2>4. \A n : /\ p.ptr # n => Users(n)' = Users(n) \ {t}
                 /\ p.ptr = n => Users(n)' = Users(n) \cup {t}
      BY <2>3, UsersAfter
    <2>5. \A n \in Nodes : n # h => Users(n)' = Users(n)
      BY <1>4, <2>2, <2>4
    <2>6. Users(h)' = Users(h) \cup {t} /\ t \notin Users(h)
      BY <1>4, <2>2, <2>4
    <2>7. QED
      BY <2>5, <2>6
  <1>11. /\ ~Owned(h) /\ node[h].internal_count <= 0
         /\ Cardinality(Users(h)) = head_.count - 1 + node[h].internal_count
    BY <1>3, <1>4, <1>8, <1>9 DEF ListedNode, Counts
  <1>12. \A u \in Users(h) : pc[u] \notin Owning
    BY <1>11 DEF Owned
  <1>13. Cardinality(Users(h)') = p.count - 1 + node[h].internal_count
    <2>1. IsFiniteSet(Users(h))
      BY <1>4 DEF FiniteInv
    <2>2. Cardinality(Users(h)') = Cardinality(Users(h)) + 1
      BY <1>10, <2>1, OneMore
    <2>3. node[h].internal_count \in Int
      BY <1>4, <1>8, NodeType
    <2>4. QED
      BY <1>4, <1>11, <2>2, <2>3
  <1>14. UserInv'
    <2>1. ASSUME NEW u \in Threads, NEW n \in Nodes, view'[u].ptr = n PROVE Looks(u, n)'
      <3>1. CASE u # t
        <4>1. view[u].ptr = n /\ Looks(u, n)
          BY <1>2, <2>1, <3>1 DEF UserInv
        <4>2. CASE n # h
          BY <1>2, <1>10, <3>1, <4>1, <4>2, SameLooks
        <4>3. CASE n = h
          <5>1. pc[u] \notin Owning
            BY <1>12, <4>1, <4>3 DEF Users
          <5>2. pc'[u] = pc[u] /\ next' = next /\ node' = node
            BY <1>2, <3>1
          <5>3. QED
            BY <4>1, <5>1, <5>2 DEF Looks, Owning
        <4>4. QED
          BY <4>2, <4>3
      <3>2. CASE u = t
        <4>1. n = h /\ pc'[u] = "loadNext"
          BY <1>2, <1>4, <2>1, <3>2
        <4>2. QED
          BY <1>2, <1>8, <4>1 DEF Looks
      <3>3. QED
        BY <3>1, <3>2
    <2>2. QED
      BY <1>2, <2>1 DEF UserInv
  <1>15. OwnerInv'
    <2>1. "loadNext" \notin Owning
      BY DEF Owning
    <2>2. QED
      BY <1>2, <2>1 DEF OwnerInv
  <1>16. FiniteInv'
    BY <1>10, FS_AddElement DEF FiniteInv
  <1>17. ASSUME NEW n \in Nodes
         PROVE  IF n \in S THEN ListedNode(S, n)' ELSE UnlistedNode(n)'
    <2>1. CASE n # h
      <3>1. \A u \in Users(n) : pc'[u] \in Owning <=> pc[u] \in Owning
        BY <1>2 DEF Owning, Users
      <3>2. CASE n \in S
        <4>1. head_'.ptr # n
          BY <1>1, <1>4, <2>1
        <4>2. ListedNode(S, n)'
          BY <1>2, <1>9, <1>10, <2>1, <3>1, <3>2, <4>1, SameListed
        <4>3. QED
          BY <3>2, <4>2
      <3>3. CASE n \notin S
        <4>1. UnlistedNode(n)'
          BY <1>2, <1>9, <1>10, <2>1, <3>1, <3>3, SameUnlisted
        <4>2. QED
          BY <3>3, <4>1
      <3>4. QED
        BY <3>2, <3>3
    <2>2. CASE n = h
      <3>1. ~Owned(h)'
        <4>1. \A u \in Users(h)' : pc'[u] \notin Owning
          BY <1>2, <1>10, <1>12 DEF Users, Owning
        <4>2. QED
          BY <4>1 DEF Owned
      <3>2. Counts(h, head_)'
        BY <1>1, <1>2, <1>13 DEF Counts
      <3>3. ListedNode(S, h)'
        BY <1>2, <1>8, <1>11, <3>1, <3>2 DEF ListedNode
      <3>4. QED
        BY <1>8, <2>2, <3>3
    <2>3. QED
      BY <2>1, <2>2
  <1>18. Chain(b, L)'
    BY <1>1, <1>2, <1>3, <1>4, <1>6 DEF Shape, Chain
  <1>19. Shape(b, L)'
    BY <1>7, <1>17, <1>18 DEF Shape, NodeInv
  <1>20. QED
    BY <1>14, <1>15, <1>16, <1>19

LEMMA PushInv ==
    ASSUME IInv, NEW t \in Threads, Push(t), ~destroyed, ~destroyed', TypeOK'
    PROVE  IInv'
  <1> USE DEF IInv
  <1>a. PICK r : r = [value |-> Head(todo[t]), internal_count |-> 0, next |-> NullPtr]
    OBVIOUS
  <1>1. PICK n \in Nodes : /\ node[n] = Null /\ node' = [node EXCEPT ![n] = r]
                           /\ view' = [view EXCEPT ![t] = Counted(n, 1)]
    BY <1>a DEF Push
  <1>2. /\ pc[t] = "idle" /\ pc'[t] = "link" /\ todo[t] # << >>
        /\ \A u \in Threads \ {t} : pc'[u] = pc[u] /\ view'[u] = view[u]
        /\ view'[t] = Counted(n, 1) /\ node'[n] = r
        /\ \A m \in Nodes : m # n => node'[m] = node[m]
        /\ UNCHANGED <<head_, todo, next>>
    BY <1>1 DEF Push, Goto, Begins, TypeOK
  <1>3. r.internal_count = 0 /\ r \in NodeRecords /\ r # Null
    <2>1. Head(todo[t]) \in Items
      BY DEF Push, Begins
    <2>2. r \in NodeRecords
      BY <1>a, <2>1, Constants DEF NodeRecords
    <2>3. QED
      BY <1>a, <2>2, Constants
  <1>4. Users(n) = {}
    BY <1>1 DEF UserInv, Users, Looks
  <1>5. Users(n)' = {t} /\ \A m \in Nodes : m # n => Users(m)' = Users(m)
    <2>1. view[t].ptr = Null
      BY <1>2, Constants DEF UserInv
    <2>2. \A m \in Nodes : t \notin Users(m)
      BY <2>1, Constants DEF Users
    <2>3. PICK p : p = Counted(n, 1) /\ p.ptr = n
      BY Constants
    <2>4. TypeOK /\ view' = [view EXCEPT ![t] = p]
      BY <1>1, <2>3
    <2>5. \A m : /\ p.ptr # m => Users(m)' = Users(m) \ {t}
                 /\ p.ptr = m => Users(m)' = Users(m) \cup {t}
      BY <2>4, UsersAfter
    <2>6. Users(n)' = {} \cup {t}
      BY <1>4, <2>3, <2>5
    <2>7. \A m \in Nodes : m # n => Users(m)' = Users(m)
      BY <2>2, <2>3, <2>5
    <2>8. QED
      BY <2>6, <2>7
  <1>6. UserInv'
    <2>1. ASSUME NEW u \in Threads, NEW m \in Nodes, view'[u].ptr = m PROVE Looks(u, m)'
      <3>1. CASE u = t
        <4>1. m = n
          BY <1>2, <2>1, <3>1, Constants
        <4>2. QED
          BY <1>2, <1>3, <1>5, <3>1, <4>1, Constants DEF Looks
      <3>2. CASE u # t
        <4>1. view[u].ptr = m /\ Looks(u, m)
          BY <1>2, <2>1, <3>2 DEF UserInv
        <4>2. m # n
          BY <1>4, <4>1 DEF Users
        <4>3. QED
          BY <1>2, <1>5, <3>2, <4>1, <4>2, SameLooks
      <3>3. QED
        BY <3>1, <3>2
    <2>2. QED
      BY <1>2, <2>1 DEF UserInv
  <1>7. OwnerInv'
    <2>1. ASSUME NEW u \in Threads, u # t PROVE view'[u].ptr # n
      BY <1>2, <1>4, <2>1 DEF Users
    <2>2. view'[t].ptr = n
      BY <1>2, Constants
    <2>3. QED
      BY <1>2, <2>1, <2>2 DEF OwnerInv
  <1>8. FiniteInv'
    BY <1>5, FS_Singleton DEF FiniteInv
  <1>9. PICK L \in Nat : \E b \in [0..L -> Nodes \cup {Null}] : Shape(b, L)
    OBVIOUS
  <1>10. PICK b \in [0..L -> Nodes \cup {Null}] : Shape(b, L)
    BY <1>9
  <1>11. PICK S : S = Listed(b, L)
    OBVIOUS
  <1>12. n \notin S /\ \A m \in S : m \in Nodes /\ m # n
    BY <1>1, <1>10, <1>11, ListedFacts DEF Shape
  <1>13. ASSUME NEW m \in Nodes
         PROVE  IF m \in S THEN ListedNode(S, m)' ELSE UnlistedNode(m)'
    <2>1. IF m \in S THEN ListedNode(S, m) ELSE UnlistedNode(m)
      BY <1>10, <1>11 DEF Shape, NodeInv
    <2>2. CASE m # n
      <3>1. \A u \in Users(m) : pc'[u] \in Owning <=> pc[u] \in Owning
        <4>1. t \notin Users(m)
          BY <1>2, <2>2, Constants DEF UserInv, Users
        <4>2. QED
          BY <1>2, <4>1 DEF Users
      <3>2. CASE m \in S
        <4>1. \A k \in S : node'[k] = node[k]
          BY <1>2, <1>12
        <4>2. ListedNode(S, m)'
          BY <1>2, <1>5, <2>1, <2>2, <3>1, <3>2, <4>1, SameListed
        <4>3. QED
          BY <3>2, <4>2
      <3>3. CASE m \notin S
        <4>1. UnlistedNode(m)'
          BY <1>2, <1>5, <2>1, <2>2, <3>1, <3>3, SameUnlisted
        <4>2. QED
          BY <3>3, <4>1
      <3>4. QED
        BY <3>2, <3>3
    <2>3. CASE m = n
      <3>1. Owned(n)'
        BY <1>2, <1>5 DEF Owned, Owning
      <3>2. QED
        BY <1>12, <2>3, <3>1 DEF UnlistedNode
    <2>4. QED
      BY <2>2, <2>3
  <1>14. Chain(b, L)'
    <2>1. \A i \in 1..L : b[i] \in S
      BY <1>11 DEF Listed
    <2>2. \A i \in 1..L : node'[b[i]] = node[b[i]]
      BY <1>2, <1>12, <2>1
    <2>3. Linked(b, L, head_.ptr, node)
      BY <1>10 DEF Shape, Chain
    <2>4. Linked(b, L, head_.ptr, node')
      BY <2>2, <2>3 DEF Linked
    <2>5. QED
      BY <1>2, <2>4 DEF Chain
  <1>15. Shape(b, L)'
    BY <1>11, <1>13, <1>14 DEF Shape, NodeInv
  <1>16. QED
    BY <1>6, <1>7, <1>8, <1>15

\* The list with a new head.
LEMMA Longer ==
    ASSUME NEW L \in Nat, NEW b, NEW h, NEW nodes, Linked(b, L, h, nodes),
           NEW m \in Nodes, m \notin Listed(b, L), NEW after, after[m] # Null,
           after[m].next.ptr = h, \A k \in Listed(b, L) : after[k] = nodes[k]
    PROVE  \E c \in [0..(L+1) -> Nodes \cup {Null}] :
              /\ Linked(c, L + 1, m, after)
              /\ Listed(c, L + 1) = Listed(b, L) \cup {m}
              /\ c[L+1] = m /\ \A i \in 0..L : c[i] = b[i]
  <1>1. /\ b \in [0..L -> Nodes \cup {Null}]
        /\ b[0] = Null /\ b[L] = h
        /\ \A i \in 1..L : b[i] \in Nodes /\ nodes[b[i]] # Null /\ nodes[b[i]].next.ptr = b[i-1]
        /\ \A i \in 0..L : \A j \in 0..L : b[i] = b[j] => i = j
    BY DEF Linked
  <1>2. PICK c : c = [i \in 0..(L+1) |-> IF i = L + 1 THEN m ELSE b[i]]
    OBVIOUS
  <1>3. /\ c \in [0..(L+1) -> Nodes \cup {Null}] /\ c[L+1] = m
        /\ \A i \in 0..L : c[i] = b[i]
    <2>1. \A i \in 0..(L+1) : i = L + 1 \/ i \in 0..L
      OBVIOUS
    <2>2. \A i \in 0..L : i \in 0..(L+1) /\ i # L + 1
      OBVIOUS
    <2>3. L + 1 \in 0..(L+1)
      OBVIOUS
    <2>4. QED
      BY <1>1, <1>2, <2>1, <2>2, <2>3
  <1>4. /\ \A i \in 1..(L+1) : i = L + 1 \/ (i \in 1..L /\ i \in 0..L /\ i-1 \in 0..L)
        /\ \A i \in 0..(L+1) : i = L + 1 \/ i \in 0..L
        /\ L + 1 \in 1..(L+1) /\ \A i \in 1..L : i \in 1..(L+1) /\ i \in 0..L
        /\ 0 \in 0..L /\ L \in 0..L /\ (L + 1) - 1 = L
    OBVIOUS
  <1>5. \A i \in 0..L : b[i] # m
    <2>1. \A i \in 0..L : i = 0 \/ i \in 1..L
      OBVIOUS
    <2>2. \A i \in 1..L : b[i] # m
      BY DEF Listed
    <2>3. QED
      BY <1>1, <2>1, <2>2, Constants
  <1>6. \A i \in 1..L : after[b[i]] = nodes[b[i]]
    BY DEF Listed
  <1>7. \A i \in 1..(L+1) : c[i] \in Nodes /\ after[c[i]] # Null /\ after[c[i]].next.ptr = c[i-1]
    <2>1. ASSUME NEW i \in 1..L
          PROVE  c[i] \in Nodes /\ after[c[i]] # Null /\ after[c[i]].next.ptr = c[i-1]
      <3>1. i \in 0..L /\ i-1 \in 0..L
        BY <1>4
      <3>2. c[i] = b[i] /\ c[i-1] = b[i-1]
        BY <1>3, <3>1
      <3>3. QED
        BY <1>1, <1>6, <3>2
    <2>2. c[L+1] \in Nodes /\ after[c[L+1]] # Null /\ after[c[L+1]].next.ptr = c[(L+1)-1]
      BY <1>1, <1>3, <1>4
    <2>3. QED
      BY <1>4, <2>1, <2>2
  <1>8. \A i \in 0..(L+1) : \A j \in 0..(L+1) : c[i] = c[j] => i = j
    BY <1>1, <1>3, <1>4, <1>5
  <1>9. Linked(c, L + 1, m, after)
    <2>1. c[0] = Null
      BY <1>1, <1>3, <1>4
    <2>2. QED
      BY <1>3, <1>7, <1>8, <2>1 DEF Linked
  <1>10. Listed(c, L + 1) = Listed(b, L) \cup {m}
    BY <1>3, <1>4 DEF Listed
  <1>11. QED
    BY <1>3, <1>9, <1>10

LEMMA Forgetting ==
    ASSUME TypeOK, NEW t \in Threads, NEW n \in Nodes, Forget(t), view[t].ptr = n
    PROVE  /\ view'[t] = NullPtr
           /\ \A u \in Threads \ {t} : view'[u] = view[u] /\ next'[u] = next[u]
           /\ Users(n)' = Users(n) \ {t} /\ t \in Users(n)
           /\ \A m \in Nodes : m # n => Users(m)' = Users(m) /\ t \notin Users(m)
  <1>1. /\ view'[t] = NullPtr
        /\ \A u \in Threads \ {t} : view'[u] = view[u] /\ next'[u] = next[u]
    BY DEF Forget, TypeOK
  <1>2. PICK p : p = NullPtr /\ p.ptr = Null
    BY Constants
  <1>3. view' = [view EXCEPT ![t] = p]
    BY <1>2 DEF Forget
  <1>4. \A m : p.ptr # m => Users(m)' = Users(m) \ {t}
    BY <1>3, UsersAfter
  <1>5. \A m \in Nodes : Users(m)' = Users(m) \ {t}
    BY <1>2, <1>4, Constants
  <1>6. \A m \in Nodes : t \in Users(m) <=> m = n
    BY DEF Users
  <1>7. QED
    BY <1>1, <1>5, <1>6

LEMMA LinkInv ==
    ASSUME IInv, NEW t \in Threads, Link(t), ~destroyed, ~destroyed', TypeOK'
    PROVE  IInv'
  <1> USE DEF IInv
  <1>1. /\ pc[t] = "link" /\ pc'[t] = "idle" /\ Forget(t)
        /\ \A u \in Threads \ {t} : pc'[u] = pc[u] /\ todo'[u] = todo[u]
        /\ node' = [node EXCEPT ![view[t].ptr].next = head_] /\ head_' = view[t]
    BY DEF Link, Goto, Return, TypeOK
  <1>2. PICK m \in Nodes : view[t].ptr = m /\ Looks(t, m) /\ node[m] # Null
    BY <1>1, LookedAt
  <1>3. /\ view[t].count = 1 /\ Users(m) = {t} /\ node[m].internal_count = 0
    BY <1>1, <1>2 DEF Looks
  <1>4. /\ node'[m] = [node[m] EXCEPT !.next = head_]
        /\ \A k \in Nodes : k # m => node'[k] = node[k]
    BY <1>1, <1>2 DEF TypeOK
  <1>5. /\ node'[m] # Null /\ node'[m].next = head_ /\ node'[m].internal_count = 0
    <2>1. node[m] \in NodeRecords /\ head_ \in CountedPtrs
      BY <1>2, NodeType DEF TypeOK
    <2>2. node'[m] \in NodeRecords
      BY <1>4, <2>1 DEF NodeRecords
    <2>3. QED
      BY <1>3, <1>4, <2>1, <2>2, Constants DEF NodeRecords
  <1>6. /\ view'[t] = NullPtr
        /\ \A u \in Threads \ {t} : view'[u] = view[u] /\ next'[u] = next[u]
        /\ Users(m)' = {}
        /\ \A k \in Nodes : k # m => Users(k)' = Users(k) /\ t \notin Users(k)
    BY <1>1, <1>2, <1>3, Forgetting
  <1>7. UserInv'
    <2>1. ASSUME NEW u \in Threads, NEW n \in Nodes, view'[u].ptr = n PROVE Looks(u, n)'
      <3>1. u # t
        BY <1>6, <2>1, Constants
      <3>2. view[u].ptr = n /\ Looks(u, n)
        BY <1>6, <2>1, <3>1 DEF UserInv
      <3>3. n # m
        BY <1>3, <3>1, <3>2 DEF Users
      <3>4. QED
        BY <1>1, <1>4, <1>6, <3>1, <3>2, <3>3, SameLooks
    <2>2. QED
      BY <1>1, <1>6, <2>1 DEF UserInv
  <1>8. OwnerInv'
    <2>1. "idle" \notin Owning
      BY DEF Owning
    <2>2. QED
      BY <1>1, <1>6, <2>1 DEF OwnerInv
  <1>9. FiniteInv'
    BY <1>6, FS_EmptySet DEF FiniteInv
  <1>10. PICK L \in Nat : \E b \in [0..L -> Nodes \cup {Null}] : Shape(b, L)
    OBVIOUS
  <1>11. PICK b \in [0..L -> Nodes \cup {Null}] : Shape(b, L)
    BY <1>10
  <1>12. PICK S : S = Listed(b, L)
    OBVIOUS
  <1>13. \A n \in Nodes : IF n \in S THEN ListedNode(S, n) ELSE UnlistedNode(n)
    BY <1>11, <1>12 DEF Shape, NodeInv
  <1>14. m \notin S
    <2>1. t \in Users(m) /\ pc[t] \in Owning
      BY <1>1, <1>3 DEF Owning
    <2>2. Owned(m)
      BY <2>1 DEF Owned
    <2>3. QED
      BY <1>13, <2>2 DEF ListedNode
  <1>15. /\ \A k \in S : k \in Nodes /\ node'[k] = node[k] /\ node[k].next.ptr # m
         /\ head_.ptr # m
    BY <1>4, <1>11, <1>12, <1>14, ListedFacts, Constants DEF Shape
  <1>16. PICK c \in [0..(L+1) -> Nodes \cup {Null}] :
            /\ Linked(c, L + 1, m, node')
            /\ Listed(c, L + 1) = S \cup {m}
    <2>1. Linked(b, L, head_.ptr, node)
      BY <1>11 DEF Shape, Chain
    <2>2. PICK nodes : nodes = node'
      OBVIOUS
    <2>3. nodes[m] # Null /\ nodes[m].next.ptr = head_.ptr /\ \A k \in S : nodes[k] = node[k]
      BY <1>5, <1>15, <2>2
    <2>4. \E c \in [0..(L+1) -> Nodes \cup {Null}] :
            /\ Linked(c, L + 1, m, nodes)
            /\ Listed(c, L + 1) = S \cup {m}
      BY <1>12, <1>14, <2>1, <2>3, Longer
    <2>5. QED
      BY <2>2, <2>4
  <1>17. PICK T : T = S \cup {m}
    OBVIOUS
  <1>18. ASSUME NEW n \in Nodes
         PROVE  IF n \in T THEN ListedNode(T, n)' ELSE UnlistedNode(n)'
    <2>1. CASE n # m
      <3>1. \A u \in Users(n) : pc'[u] \in Owning <=> pc[u] \in Owning
        <4>1. t \notin Users(n)
          BY <1>6, <2>1
        <4>2. QED
          BY <1>1, <4>1 DEF Users
      <3>2. CASE n \in T
        <4>1. ListedNode(S, n)
          BY <1>13, <1>17, <2>1, <3>2
        <4>2. head_'.ptr # n
          BY <1>1, <1>2, <2>1
        <4>3. \A k \in T : node'[k].next.ptr = n => \/ node'[k].next = head_
                                                  \/ \E l \in S : node'[k].next = node[l].next
          BY <1>5, <1>15, <1>17
        <4>4. Users(n)' = Users(n) /\ node'[n] = node[n]
          BY <1>4, <1>6, <2>1
        <4>5. ListedNode(T, n)'
          BY <3>1, <4>1, <4>2, <4>3, <4>4, SameListed
        <4>6. QED
          BY <3>2, <4>5
      <3>3. CASE n \notin T
        <4>1. UnlistedNode(n)'
          BY <1>4, <1>6, <1>13, <1>17, <2>1, <3>1, <3>3, SameUnlisted
        <4>2. QED
          BY <3>3, <4>1
      <3>4. QED
        BY <3>2, <3>3
    <2>2. CASE n = m
      <3>1. ~Owned(m)'
        BY <1>6 DEF Owned
      <3>2. Cardinality(Users(m)') = 0
        BY <1>6, FS_EmptySet
      <3>3. Counts(m, head_)'
        BY <1>1, <1>3, <1>5, <3>2 DEF Counts
      <3>4. \A k \in T : node'[k].next.ptr # m
        BY <1>5, <1>15, <1>17
      <3>5. ListedNode(T, m)'
        BY <1>5, <3>1, <3>3, <3>4 DEF ListedNode
      <3>6. QED
        BY <1>17, <2>2, <3>5
    <2>3. QED
      BY <2>1, <2>2
  <1>19. Chain(c, L + 1)'
    BY <1>1, <1>2, <1>16 DEF Chain
  <1>20. Shape(c, L + 1)'
    BY <1>16, <1>17, <1>18, <1>19 DEF Shape, NodeInv
  <1>21. L + 1 \in Nat
    OBVIOUS
  <1>22. QED
    BY <1>7, <1>8, <1>9, <1>16, <1>20, <1>21

\* A thread leaves the node n: n is deleted when, and only when, it was the last.
LEMMA Departing ==
    ASSUME IInv, ~destroyed, ~destroyed', TypeOK', NEW t \in Threads, NEW n \in Nodes,
           view[t].ptr = n, node[n] # Null, Looks(t, n), Forget(t),
           pc'[t] = "idle",
           \A u \in Threads \ {t} : pc'[u] = pc[u] /\ todo'[u] = todo[u],
           head_' = head_, NEW a \in Int, Add(n, a),
           \/ pc[t] = "release" /\ a = view[t].count - 2
           \/ pc[t] = "leave" /\ a = -1
    PROVE  IInv'
  <1> USE DEF IInv
  <1>1. /\ view'[t] = NullPtr
        /\ \A u \in Threads \ {t} : view'[u] = view[u] /\ next'[u] = next[u]
        /\ Users(n)' = Users(n) \ {t} /\ t \in Users(n)
        /\ \A m \in Nodes : m # n => Users(m)' = Users(m) /\ t \notin Users(m)
    BY Forgetting
  <1>2. PICK i : i = node[n].internal_count
    OBVIOUS
  <1>3. /\ i \in Int
        /\ \A m \in Nodes : m # n => node'[m] = node[m]
        /\ i + a = 0 => node'[n] = Null
        /\ i + a # 0 => /\ node'[n] # Null
                        /\ node'[n].internal_count = i + a
                        /\ node'[n].next = node[n].next
    BY <1>2, Adding, NodeType
  <1>4. PICK L \in Nat : \E b \in [0..L -> Nodes \cup {Null}] : Shape(b, L)
    OBVIOUS
  <1>5. PICK b \in [0..L -> Nodes \cup {Null}] : Shape(b, L)
    BY <1>4
  <1>6. PICK S : S = Listed(b, L)
    OBVIOUS
  <1>7. \A m \in Nodes : IF m \in S THEN ListedNode(S, m) ELSE UnlistedNode(m)
    BY <1>5, <1>6 DEF Shape, NodeInv
  <1>8. PICK k : k = Cardinality(Users(n))
    OBVIOUS
  <1>9. /\ IsFiniteSet(Users(n)') /\ Cardinality(Users(n)') = k - 1
        /\ k \in Nat /\ k - 1 \in Nat
        /\ k - 1 = 0 <=> Users(n)' = {}
    <2>1. IsFiniteSet(Users(n))
      BY DEF FiniteInv
    <2>2. IsFiniteSet(Users(n)') /\ Cardinality(Users(n)') = k - 1
      BY <1>1, <1>8, <2>1, OneLess
    <2>3. k \in Nat /\ k - 1 \in Nat
      BY <1>8, <2>1, <2>2, FS_CardinalityType
    <2>4. k - 1 = 0 <=> Users(n)' = {}
      BY <2>2, FS_EmptySet
    <2>5. QED
      BY <2>2, <2>3, <2>4
  <1>10. view[t].count \in Nat
    BY Counting DEF TypeOK
  \* Nobody else is about to link n.
  <1>11. ASSUME NEW u \in Threads \ {t}, view[u].ptr = n
         PROVE  /\ Looks(u, n) /\ pc[u] # "link" /\ pc'[u] # "link"
                /\ pc[u] \in Owning => pc[t] # "release" /\ pc[u] \in {"read", "release"}
    <2>1. Looks(u, n)
      BY <1>11 DEF UserInv
    <2>2. pc[u] # "link"
      BY <1>1, <2>1 DEF Looks
    <2>3. pc[u] \in Owning => pc[t] # "release"
      BY <1>11 DEF OwnerInv, Owning
    <2>4. QED
      BY <1>11, <2>1, <2>2, <2>3 DEF Owning
  <1>12. ASSUME n \in S
         PROVE  /\ node'[n] # Null /\ i + a # 0
                /\ ListedNode(S, n)'
    <2>1. /\ ~Owned(n) /\ i <= 0
          /\ head_.ptr = n => k = head_.count - 1 + i
          /\ \A m \in S : node[m].next.ptr = n => k = node[m].next.count - 1 + i
      BY <1>2, <1>7, <1>8, <1>12 DEF ListedNode, Counts
    <2>2. pc[t] # "release"
      BY <1>1, <2>1 DEF Owned, Owning
    <2>3. a = -1 /\ i + a # 0 /\ i + a <= 0
      BY <1>3, <2>1, <2>2
    <2>4. /\ node'[n] # Null /\ node'[n].internal_count = i + a
          /\ node'[n].next = node[n].next
      BY <1>3, <2>3
    <2>5. ~Owned(n)'
      <3>1. \A u \in Users(n)' : u # t /\ u \in Users(n) /\ pc'[u] = pc[u]
        BY <1>1 DEF Users
      <3>2. QED
        BY <2>1, <3>1 DEF Owned
    <2>6. head_.ptr = n => Cardinality(Users(n)') = head_'.count - 1 + node'[n].internal_count
      <3>1. head_.count \in Nat
        BY Counting DEF TypeOK
      <3>2. QED
        BY <1>3, <1>9, <2>1, <2>3, <2>4, <3>1
    <2>7. ASSUME NEW m \in S, node'[m].next.ptr = n
          PROVE  Cardinality(Users(n)') = node'[m].next.count - 1 + node'[n].internal_count
      <3>1. m \in Nodes /\ node[m] # Null
        BY <1>5, <1>6, ListedFacts DEF Shape
      <3>2. node'[m].next = node[m].next
        BY <1>3, <2>4, <3>1
      <3>3. node[m].next.count \in Nat
        BY <3>1, NodeType, Counting
      <3>4. QED
        <4>1. PICK q : q = node[m].next
          OBVIOUS
        <4>2. k = q.count - 1 + i /\ q.count \in Nat /\ node'[m].next = q
          BY <2>1, <2>7, <3>2, <3>3, <4>1
        <4>3. k - 1 = q.count - 1 + (i + a)
          BY <1>3, <2>3, <4>2
        <4>4. QED
          BY <1>9, <2>4, <4>2, <4>3
    <2>8. ListedNode(S, n)'
      BY <2>3, <2>4, <2>5, <2>6, <2>7 DEF ListedNode, Counts
    <2>9. QED
      BY <2>3, <2>4, <2>8
  \* When n is deleted nobody looks at it any more; when not, the counts agree.
  <1>13. ASSUME n \notin S
         PROVE  /\ i + a = 0 => Users(n)' = {}
                /\ UnlistedNode(n)'
                /\ \A u \in Threads \ {t} :
                      view[u].ptr = n /\ pc[u] \in Owning /\ i + a # 0
                          => i + a <= 0 /\ k - 1 = i + a + view[u].count - 1
    <2>1. CASE pc[t] = "release"
      <3>1. k = i + view[t].count - 1
        BY <1>2, <1>8, <2>1 DEF Looks
      <3>2. i + a = k - 1
        <4>1. PICK c \in Nat : c = view[t].count
          BY <1>10
        <4>2. k = i + c - 1 /\ a = c - 2
          BY <2>1, <3>1, <4>1
        <4>3. QED
          BY <1>3, <4>2
      <3>3. ~Owned(n)'
        <4>1. \A u \in Users(n)' : u \in Threads \ {t} /\ view[u].ptr = n /\ pc'[u] = pc[u]
          BY <1>1 DEF Users
        <4>2. QED
          BY <1>11, <2>1, <4>1 DEF Owned
      <3>4. i + a # 0 => i + a > 0
        BY <1>9, <3>2
      <3>5. node'[n] # Null => node'[n].internal_count > 0 /\ node'[n].internal_count = k - 1
        BY <1>3, <3>2, <3>4
      <3>6. UnlistedNode(n)'
        BY <1>9, <3>5 DEF UnlistedNode
      <3>7. QED
        BY <1>9, <1>11, <2>1, <3>2, <3>6
    <2>2. CASE pc[t] # "release" /\ Owned(n)
      <3>1. PICK u \in Threads : view[u].ptr = n /\ pc[u] \in Owning
        BY <2>2 DEF Owned, Users
      <3>2. a = -1 /\ u # t
        BY <2>2, <3>1 DEF Owning
      <3>3. Looks(u, n) /\ pc[u] \in {"read", "release"}
        BY <1>11, <3>1, <3>2
      <3>4. i <= 0 /\ k = i + view[u].count - 1
        BY <1>2, <1>8, <3>3 DEF Looks
      <3>5. view[u].count \in Nat
        BY Counting DEF TypeOK
      <3>6. i + a # 0 /\ i + a <= 0 /\ k - 1 = i + a + view[u].count - 1
        <4>1. PICK c \in Nat : c = view[u].count
          BY <3>5
        <4>2. k = i + c - 1
          BY <3>4, <4>1
        <4>3. i + a # 0 /\ i + a <= 0 /\ k - 1 = i + a + c - 1
          BY <1>3, <3>2, <3>4, <4>2
        <4>4. QED
          BY <4>1, <4>3
      <3>7. Owned(n)'
        <4>1. u \in Users(n)' /\ pc'[u] \in Owning
          BY <1>1, <3>1, <3>2 DEF Users
        <4>2. QED
          BY <4>1 DEF Owned
      <3>8. ASSUME NEW v \in Threads \ {t}, view[v].ptr = n, pc[v] \in Owning
            PROVE  v = u
        BY <3>1, <3>8 DEF OwnerInv
      <3>9. QED
        BY <3>6, <3>7, <3>8 DEF UnlistedNode
    <2>3. CASE pc[t] # "release" /\ ~Owned(n)
      <3>1. i > 0 /\ k = i
        BY <1>2, <1>7, <1>8, <1>13, <2>3 DEF UnlistedNode
      <3>2. a = -1 /\ i + a = k - 1
        BY <1>3, <2>3, <3>1
      <3>3. i + a # 0 => i + a > 0
        BY <1>3, <3>1, <3>2
      <3>4. node'[n] # Null => node'[n].internal_count > 0 /\ node'[n].internal_count = k - 1
        BY <1>3, <3>2, <3>3
      <3>5. UnlistedNode(n)'
        BY <1>9, <3>4 DEF UnlistedNode
      <3>6. \A u \in Threads : view[u].ptr = n => pc[u] \notin Owning
        BY <2>3 DEF Owned, Users
      <3>7. QED
        BY <1>9, <3>2, <3>5, <3>6
    <2>4. QED
      BY <2>1, <2>2, <2>3
  <1>14. UserInv'
    <2>1. ASSUME NEW u \in Threads, NEW m \in Nodes, view'[u].ptr = m PROVE Looks(u, m)'
      <3>1. u # t /\ u \in Threads \ {t}
        BY <1>1, <2>1, Constants
      <3>2. view[u].ptr = m /\ Looks(u, m)
        BY <1>1, <2>1, <3>1 DEF UserInv
      <3>3. CASE m # n
        BY <1>1, <1>3, <3>1, <3>2, <3>3, SameLooks
      <3>4. CASE m = n
        <4>1. u \in Users(n)'
          BY <2>1, <3>4 DEF Users
        <4>2. i + a # 0
          BY <1>12, <1>13, <4>1
        <4>3. /\ node'[n] # Null /\ node'[n].internal_count = i + a
              /\ node'[n].next = node[n].next
          BY <1>3, <4>2
        <4>4. /\ pc'[u] = pc[u] /\ view'[u] = view[u] /\ next'[u] = next[u] /\ pc[u] # "link"
          BY <1>1, <1>11, <3>1, <3>2, <3>4
        <4>5. pc[u] \in {"read", "release"} =>
                  i + a <= 0 /\ Cardinality(Users(n)') = i + a + view[u].count - 1
          <5>1. CASE n \in S
            <6>1. ~Owned(n)
              BY <1>7, <5>1 DEF ListedNode
            <6>2. pc[u] \notin Owning
              BY <3>1, <3>2, <3>4, <6>1 DEF Owned, Users
            <6>3. QED
              BY <6>2 DEF Owning
          <5>2. CASE n \notin S
            BY <1>9, <1>13, <3>1, <3>2, <3>4, <4>2, <5>2 DEF Owning
          <5>3. QED
            BY <5>1, <5>2
        <4>6. QED
          BY <3>2, <3>4, <4>3, <4>4, <4>5 DEF Looks
      <3>5. QED
        BY <3>3, <3>4
    <2>2. QED
      BY <1>1, <2>1 DEF UserInv
  <1>15. OwnerInv'
    <2>1. "idle" \notin Owning
      BY DEF Owning
    <2>2. QED
      BY <1>1, <2>1 DEF OwnerInv
  <1>16. FiniteInv'
    BY <1>1, <1>9 DEF FiniteInv
  <1>17. ASSUME NEW m \in Nodes
         PROVE  IF m \in S THEN ListedNode(S, m)' ELSE UnlistedNode(m)'
    <2>1. CASE m # n
      <3>1. \A u \in Users(m) : pc'[u] \in Owning <=> pc[u] \in Owning
        <4>1. t \notin Users(m)
          BY <1>1, <2>1
        <4>2. QED
          BY <4>1 DEF Users
      <3>2. CASE m \in S
        <4>1. \A l \in S : node'[l].next = node[l].next
          <5>1. \A l \in S : l \in Nodes
            BY <1>5, <1>6, ListedFacts DEF Shape
          <5>2. n \in S => node'[n].next = node[n].next
            BY <1>3, <1>12
          <5>3. QED
            BY <1>3, <5>1, <5>2
        <4>2. ListedNode(S, m) /\ node'[m] = node[m] /\ Users(m)' = Users(m)
          BY <1>1, <1>3, <1>7, <2>1, <3>2
        <4>3. ListedNode(S, m)'
          BY <3>1, <4>1, <4>2, SameListed
        <4>4. QED
          BY <3>2, <4>3
      <3>3. CASE m \notin S
        <4>1. UnlistedNode(m)'
          BY <1>1, <1>3, <1>7, <2>1, <3>1, <3>3, SameUnlisted
        <4>2. QED
          BY <3>3, <4>1
      <3>4. QED
        BY <3>2, <3>3
    <2>2. CASE m = n
      BY <1>12, <1>13, <2>2
    <2>3. QED
      BY <2>1, <2>2
  <1>18. Chain(b, L)'
    <2>1. \A j \in 1..L : b[j] \in S /\ b[j] \in Nodes
      BY <1>5, <1>6 DEF Listed, Shape, Chain, Linked
    <2>2. \A j \in 1..L : node[b[j]] # Null
      BY <1>5 DEF Shape, Chain, Linked
    <2>3. \A j \in 1..L : node'[b[j]] # Null /\ node'[b[j]].next = node[b[j]].next
      <3>1. ASSUME NEW j \in 1..L, b[j] = n
            PROVE  node'[n] # Null /\ node'[n].next = node[n].next
        BY <1>3, <1>12, <2>1, <3>1
      <3>2. QED
        BY <1>3, <2>1, <2>2, <3>1
    <2>4. Linked(b, L, head_.ptr, node)
      BY <1>5 DEF Shape, Chain
    <2>5. Linked(b, L, head_.ptr, node')
      BY <2>3, <2>4 DEF Linked
    <2>6. QED
      BY <2>5 DEF Chain
  <1>19. Shape(b, L)'
    BY <1>6, <1>17, <1>18 DEF Shape, NodeInv
  <1>20. QED
    BY <1>14, <1>15, <1>16, <1>19

LEMMA ReleaseInv ==
    ASSUME IInv, NEW t \in Threads, Release(t), ~destroyed, ~destroyed', TypeOK'
    PROVE  IInv'
  <1>1. TypeOK /\ UserInv
    BY DEF IInv
  <1>2. /\ pc[t] = "release" /\ pc'[t] = "idle" /\ Forget(t) /\ head_' = head_
        /\ \A u \in Threads \ {t} : pc'[u] = pc[u] /\ todo'[u] = todo[u]
        /\ Add(view[t].ptr, view[t].count - 2)
    BY <1>1 DEF Release, Goto, Return, TypeOK
  <1>3. PICK n \in Nodes : view[t].ptr = n /\ Looks(t, n) /\ node[n] # Null
    BY <1>1, <1>2, LookedAt
  <1>4. PICK a \in Int : a = view[t].count - 2 /\ Add(n, a)
    <2>1. view[t].count - 2 \in Int
      BY <1>1, Counting DEF TypeOK
    <2>2. QED
      BY <1>2, <1>3, <2>1
  <1>5. QED
    BY <1>2, <1>3, <1>4, Departing

LEMMA LeaveInv ==
    ASSUME IInv, NEW t \in Threads, Leave(t), ~destroyed, ~destroyed', TypeOK'
    PROVE  IInv'
  <1>1. TypeOK /\ UserInv
    BY DEF IInv
  <1>2. /\ pc[t] = "leave" /\ pc'[t] = "idle" /\ Forget(t) /\ head_' = head_
        /\ \A u \in Threads \ {t} : pc'[u] = pc[u] /\ todo'[u] = todo[u]
        /\ Add(view[t].ptr, -1)
    BY <1>1 DEF Leave, Goto, TypeOK
  <1>3. PICK n \in Nodes : view[t].ptr = n /\ Looks(t, n) /\ node[n] # Null
    BY <1>1, <1>2, LookedAt
  <1>4. PICK a \in Int : a = -1 /\ Add(n, a)
    BY <1>2, <1>3
  <1>5. QED
    BY <1>2, <1>3, <1>4, Departing

------------------------------------------------------------------------------
\* What the walk from head_ finds.

IsWalk(f, h, nodes) ==
    f = [i \in 1..Cardinality(Nodes) + 1 |->
            IF i = 1 THEN h
            ELSE IF f[i-1] = Null \/ nodes[f[i-1]] = Null THEN Null
            ELSE nodes[f[i-1]].next.ptr]
Walk(h, nodes) == CHOOSE f : IsWalk(f, h, nodes)

LEMMA ListIsWalk == List = Walk(head_.ptr, node)
  BY Zenon DEF List, Walk, IsWalk

\* There is room for the nullptr after all nodes.
LEMMA ShortList ==
    ASSUME NEW L \in Nat, NEW b, NEW h, NEW nodes, Linked(b, L, h, nodes)
    PROVE  L <= Cardinality(Nodes) /\ Cardinality(Nodes) \in Nat
  <1>1. PICK c : c = [i \in 1..L |-> b[i]]
    OBVIOUS
  <1>2. c \in Injection(1..L, Nodes)
    <2>1. \A i \in 1..L : b[i] \in Nodes /\ i \in 0..L
      BY DEF Linked
    <2>2. \A i \in 0..L : \A j \in 0..L : b[i] = b[j] => i = j
      BY DEF Linked
    <2>3. c \in [1..L -> Nodes]
      BY <1>1, <2>1
    <2>4. \A i \in 1..L : \A j \in 1..L : c[i] = c[j] => i = j
      BY <1>1, <2>1, <2>2
    <2>5. QED
      BY <2>3, <2>4 DEF Injection, IsInjective
  <1>3. Cardinality(1..L) <= Cardinality(Nodes)
    BY <1>2, Constants, FS_Injection
  <1>4. Cardinality(1..L) = L
    BY FS_Interval
  <1>5. Cardinality(Nodes) \in Nat
    BY Constants, FS_CardinalityType
  <1>6. QED
    BY <1>3, <1>4, <1>5

LEMMA WalkFinds ==
    ASSUME NEW L \in Nat, NEW b, NEW h, NEW nodes, Linked(b, L, h, nodes)
    PROVE  /\ DOMAIN Walk(h, nodes) = 1..(Cardinality(Nodes) + 1)
           /\ \A i \in 1..(Cardinality(Nodes) + 1) :
                 Walk(h, nodes)[i] = IF i <= L THEN b[L + 1 - i] ELSE Null
  <1>1. PICK N \in Nat : N = Cardinality(Nodes) /\ L <= N
    BY ShortList
  <1>2. PICK g : g = [i \in 1..(N + 1) |-> IF i <= L THEN b[L + 1 - i] ELSE Null]
    OBVIOUS
  <1>3. /\ b[0] = Null /\ b[L] = h
        /\ \A i \in 1..L : b[i] \in Nodes /\ nodes[b[i]] # Null /\ nodes[b[i]].next.ptr = b[i-1]
    BY DEF Linked
  <1>4. ASSUME NEW f, f = g \/ IsWalk(f, h, nodes), NEW i \in 2..(N + 1), f[i-1] = g[i-1]
        PROVE  g[i] = IF f[i-1] = Null \/ nodes[f[i-1]] = Null THEN Null
                      ELSE nodes[f[i-1]].next.ptr
    <2>1. i \in 1..(N + 1) /\ i-1 \in 1..(N + 1)
      BY <1>1
    <2>2. CASE i-1 <= L
      <3>1. PICK j \in 1..L : j = L + 1 - (i-1)
        <4>1. L + 1 - (i-1) \in 1..L
          BY <2>2
        <4>2. QED
          BY <4>1
      <3>2. g[i-1] = b[j]
        BY <1>2, <2>1, <2>2, <3>1
      <3>3. g[i] = b[j-1]
        <4>1. CASE i <= L
          <5>1. j-1 = L + 1 - i
            BY <3>1
          <5>2. QED
            BY <1>2, <2>1, <4>1, <5>1
        <4>2. CASE ~(i <= L)
          <5>1. j-1 = 0
            BY <2>2, <3>1, <4>2
          <5>2. QED
            BY <1>2, <1>3, <2>1, <4>2, <5>1
        <4>3. QED
          BY <4>1, <4>2
      <3>4. b[j] # Null /\ nodes[b[j]] # Null /\ nodes[b[j]].next.ptr = b[j-1]
        BY <1>3, Constants
      <3>5. QED
        BY <1>4, <3>2, <3>3, <3>4
    <2>3. CASE ~(i-1 <= L)
      <3>1. ~(i <= L)
        BY <2>3
      <3>2. g[i] = Null /\ g[i-1] = Null
        BY <1>2, <2>1, <2>3, <3>1
      <3>3. QED
        BY <1>4, <3>2
    <2>4. QED
      BY <2>2, <2>3
  <1>5. g[1] = h
    <2>1. 1 \in 1..(N + 1)
      OBVIOUS
    <2>2. CASE 1 <= L
      <3>1. L + 1 - 1 = L
        OBVIOUS
      <3>2. QED
        BY <1>2, <1>3, <2>1, <2>2, <3>1
    <2>3. CASE ~(1 <= L)
      <3>1. L = 0
        BY <2>3
      <3>2. QED
        BY <1>2, <1>3, <2>1, <2>3, <3>1
    <2>4. QED
      BY <2>2, <2>3
  <1>6. IsWalk(g, h, nodes)
    <2>1. \A i \in 1..(N + 1) :
              g[i] = IF i = 1 THEN h
                     ELSE IF g[i-1] = Null \/ nodes[g[i-1]] = Null THEN Null
                     ELSE nodes[g[i-1]].next.ptr
      <3>1. \A i \in 1..(N + 1) : i = 1 \/ i \in 2..(N + 1)
        OBVIOUS
      <3>2. QED
        BY <1>4, <1>5, <3>1
    <2>2. \E q : g = [i \in 1..(N + 1) |-> q[i]]
      <3>1. g = [i \in 1..(N + 1) |-> g[i]]
        BY <1>2
      <3>2. QED
        BY <3>1
    <2>3. g = [i \in 1..(N + 1) |->
                  IF i = 1 THEN h
                  ELSE IF g[i-1] = Null \/ nodes[g[i-1]] = Null THEN Null
                  ELSE nodes[g[i-1]].next.ptr]
      BY <2>1, <2>2
    <2>4. QED
      BY <1>1, <2>3 DEF IsWalk
  <1>7. PICK f : f = Walk(h, nodes)
    OBVIOUS
  <1>8. IsWalk(f, h, nodes)
    <2>1. \E x : IsWalk(x, h, nodes)
      BY <1>6
    <2>2. IsWalk(CHOOSE x : IsWalk(x, h, nodes), h, nodes)
      BY <2>1, Zenon
    <2>3. QED
      BY <1>7, <2>2 DEF Walk
  <1>9. f = [i \in 1..(N + 1) |->
                IF i = 1 THEN h
                ELSE IF f[i-1] = Null \/ nodes[f[i-1]] = Null THEN Null
                ELSE nodes[f[i-1]].next.ptr]
    BY <1>1, <1>8 DEF IsWalk
  <1>10. DOMAIN f = 1..(N + 1)
    BY <1>9
  <1>11. f[1] = g[1]
    BY <1>5, <1>9
  <1>12. \A i \in 2..(N + 1) : f[i-1] = g[i-1] => f[i] = g[i]
    <2>1. \A i \in 2..(N + 1) : f[i] = IF f[i-1] = Null \/ nodes[f[i-1]] = Null THEN Null
                                      ELSE nodes[f[i-1]].next.ptr
      <3>1. \A i \in 2..(N + 1) : i \in 1..(N + 1) /\ i # 1
        OBVIOUS
      <3>2. QED
        BY <1>9, <3>1
    <2>2. QED
      BY <1>4, <1>8, <2>1
  <1>13. \A i \in 1..(N + 1) : f[i] = g[i]
    <2>1. N + 1 \in Nat /\ 1 \in Nat
      OBVIOUS
    <2>2. \A i \in (1+1)..(N + 1) : f[i-1] = g[i-1] => f[i] = g[i]
      <3>1. 1 + 1 = 2
        OBVIOUS
      <3>2. QED
        BY <1>12, <3>1
    <2>3. QED
      BY <1>11, <2>1, <2>2, SameFunction
  <1>14. QED
    BY <1>1, <1>2, <1>7, <1>10, <1>13

\* The list is b from its end, then nullptr.
LEMMA ListFacts ==
    ASSUME NEW L \in Nat, NEW b, Chain(b, L)
    PROVE  /\ InList = 1..L /\ Cardinality(InList) = L
           /\ \A i \in 1..L : List[i] = b[L + 1 - i]
  <1>1. PICK N \in Nat : N = Cardinality(Nodes) /\ L <= N
    BY ShortList DEF Chain
  <1>2. /\ DOMAIN List = 1..(N + 1)
        /\ \A i \in 1..(N + 1) : List[i] = IF i <= L THEN b[L + 1 - i] ELSE Null
    BY <1>1, ListIsWalk, WalkFinds DEF Chain
  <1>3. ASSUME NEW i \in 1..L PROVE i \in 1..(N + 1) /\ List[i] = b[L + 1 - i] /\ List[i] # Null
    <2>1. i \in 1..(N + 1) /\ L + 1 - i \in 1..L
      BY <1>1
    <2>2. b[L + 1 - i] \in Nodes
      BY <2>1 DEF Chain, Linked
    <2>3. QED
      BY <1>2, <2>1, <2>2, Constants
  <1>4. \A i \in 1..(N + 1) : i <= L <=> i \in 1..L
    OBVIOUS
  <1>5. InList = 1..L
    BY <1>2, <1>3, <1>4 DEF InList
  <1>6. Cardinality(1..L) = L
    BY FS_Interval
  <1>7. QED
    BY <1>3, <1>5, <1>6

LEMMA DestroyInv ==
    ASSUME IInv, Destroy, TypeOK'
    PROVE  IInv'
  <1> USE DEF IInv
  <1>1. /\ \A t \in Threads : pc[t] = "idle" /\ todo[t] = << >>
        /\ ~destroyed /\ destroyed' = TRUE
        /\ node' = [n \in Nodes |-> IF \E i \in InList : List[i] = n THEN Null ELSE node[n]]
        /\ UNCHANGED <<head_, pc, todo, view, next, got>>
    BY DEF Destroy
  <1>2. \A t \in Threads : view[t] = NullPtr
    BY <1>1 DEF UserInv
  <1>3. \A n \in Nodes : Users(n) = {}
    BY <1>2, Constants DEF Users
  <1>4. PICK L \in Nat : \E b \in [0..L -> Nodes \cup {Null}] : Shape(b, L)
    BY <1>1
  <1>5. PICK b \in [0..L -> Nodes \cup {Null}] : Shape(b, L)
    BY <1>4
  <1>6. ASSUME NEW n \in Nodes PROVE node'[n] = Null
    <2>1. CASE n \in Listed(b, L)
      <3>1. PICK j \in 1..L : n = b[j]
        BY <2>1 DEF Listed
      <3>2. L + 1 - j \in 1..L /\ L + 1 - (L + 1 - j) = j
        OBVIOUS
      <3>3. L + 1 - j \in InList /\ List[L + 1 - j] = n
        BY <1>5, <3>1, <3>2, ListFacts DEF Shape
      <3>4. QED
        BY <1>1, <3>3
    <2>2. CASE n \notin Listed(b, L)
      <3>1. UnlistedNode(n)
        BY <1>5, <2>2 DEF Shape, NodeInv
      <3>2. ~Owned(n) /\ Cardinality(Users(n)) = 0
        BY <1>3, FS_EmptySet DEF Owned
      <3>3. node[n] = Null
        BY <3>1, <3>2 DEF UnlistedNode
      <3>4. QED
        BY <1>1, <3>3
    <2>3. QED
      BY <2>1, <2>2
  <1>7. Gone'
    BY <1>1, <1>6 DEF Gone
  <1>8. \A n : Users(n)' = Users(n)
    BY <1>1 DEF Users
  <1>9. UserInv'
    BY <1>1, <1>2, Constants DEF UserInv
  <1>10. OwnerInv' /\ FiniteInv'
    BY <1>1, <1>8 DEF OwnerInv, FiniteInv
  <1>11. QED
    BY <1>1, <1>7, <1>9, <1>10

LEMMA Inductive == IInv /\ CountsFit /\ [Next]_vars => IInv'
  <1> SUFFICES ASSUME IInv, CountsFit, [Next]_vars PROVE IInv'
    OBVIOUS
  <1>1. CASE UNCHANGED vars
    <2>1. \A n : Users(n)' = Users(n)
      BY <1>1 DEF vars, Users
    <2>2. TypeOK'
      BY <1>1 DEF vars, TypeOK, IInv
    <2>3. ASSUME NEW n \in Nodes
          PROVE  /\ Owned(n)' = Owned(n) /\ UnlistedNode(n)' = UnlistedNode(n)
                 /\ \A S : ListedNode(S, n)' = ListedNode(S, n)
                 /\ \A t \in Threads : Looks(t, n)' = Looks(t, n)
      BY <1>1, <2>1 DEF vars, Owned, UnlistedNode, ListedNode, Looks, Counts
    <2>4. UserInv' /\ OwnerInv' /\ FiniteInv'
      BY <1>1, <2>1, <2>3 DEF vars, UserInv, OwnerInv, FiniteInv, IInv
    <2>5. ASSUME NEW L \in Nat, NEW b, Shape(b, L) PROVE Shape(b, L)'
      BY <1>1, <2>3, <2>5 DEF vars, Shape, Chain, NodeInv
    <2>6. QED
      BY <1>1, <2>2, <2>4, <2>5 DEF vars, Gone, IInv
  <1>2. CASE Destroy
    <2>1. TypeOK'
      BY <1>2, Types DEF IInv, Next
    <2>2. QED
      BY <1>2, <2>1, DestroyInv
  <1>3. ASSUME NEW t \in Threads, Step(t) PROVE IInv'
    <2>1. TypeOK' /\ ~destroyed /\ ~destroyed'
      BY <1>3, Types, Alive DEF IInv, Next
    <2>2. QED
      BY <1>3, <2>1, PushInv, LinkInv, ViewHeadInv, FindsNothingInv, LoadNextInv, SwingInv,
         ReadInv, ReleaseInv, LeaveInv DEF Step
  <1>4. QED
    BY <1>1, <1>2, <1>3 DEF Next

LEMMA Invariance == Spec /\ []CountsFit => []IInv
  BY Initially, Inductive, PTL DEF Spec

------------------------------------------------------------------------------
\* While the counts fit, everything has its type: no thread reads a node that
\* has been deleted.
THEOREM TypeCorrect == Spec /\ []CountsFit => []TypeOK
  <1>1. IInv => TypeOK
    BY DEF IInv
  <1>2. QED
    BY <1>1, Invariance, PTL

\* While the counts fit, the last who looks at a node deletes it, nobody looks at
\* a deleted one, and ~Stack leaves nothing behind.
THEOREM Reclaimed == Spec /\ []CountsFit => []NodesReclaimed
  <1>1. ASSUME IInv PROVE NodesReclaimed
    <2>1. ASSUME ~destroyed, NEW i \in InList PROVE node[List[i]] # Null
      <3>1. PICK L \in Nat : \E b \in [0..L -> Nodes \cup {Null}] : Shape(b, L)
        BY <1>1, <2>1 DEF IInv
      <3>2. PICK b \in [0..L -> Nodes \cup {Null}] : Shape(b, L)
        BY <3>1
      <3>3. i \in 1..L /\ List[i] = b[L + 1 - i] /\ L + 1 - i \in 1..L
        BY <2>1, <3>2, ListFacts DEF Shape
      <3>4. QED
        BY <3>2, <3>3 DEF Shape, Chain, Linked
    <2>2. ASSUME NEW t \in Threads,
                 pc[t] \in {"link", "loadNext", "swing", "read", "release", "leave"}
          PROVE  node[view[t].ptr] # Null
      BY <1>1, <2>2, LookedAt DEF IInv
    <2>3. NothingLeaks
      BY <1>1 DEF IInv, Gone, NothingLeaks
    <2>4. QED
      BY <2>1, <2>2, <2>3 DEF NodesReclaimed, OnlyLiveNodes
  <1>2. QED
    BY <1>1, Invariance, PTL

------------------------------------------------------------------------------
\* The stack is a LIFO.

ItemsNow == IF destroyed THEN << >>
            ELSE [i \in 1..Cardinality(InList) |-> node[List[i]].value]
GotNow == [t \in Threads |-> got[t] \o Popping(t)]
Values(b, L, nodes) == [i \in 1..L |-> nodes[b[L + 1 - i]].value]

LEMMA ItemsFound ==
    \A L \in Nat : \A b : ~destroyed /\ Chain(b, L) => ItemsNow = Values(b, L, node)
  <1>1. SUFFICES ASSUME NEW L \in Nat, NEW b, ~destroyed, Chain(b, L)
                 PROVE  ItemsNow = Values(b, L, node)
    OBVIOUS
  <1>2. /\ Cardinality(InList) = L
        /\ \A i \in 1..L : List[i] = b[L + 1 - i]
    BY <1>1, ListFacts
  <1>3. QED
    BY <1>1, <1>2 DEF ItemsNow, Values

LEMMA ItemsFoundNext ==
    (\A L \in Nat : \A b : ~destroyed /\ Chain(b, L) => ItemsNow = Values(b, L, node))'
  BY ItemsFound, PTL

\* What a step of t does to the nodes.
LEMMA NodesKept ==
    ASSUME IInv, NEW t \in Threads, Step(t), NEW n \in Nodes, node[n] # Null, node'[n] # Null
    PROVE  /\ node'[n].value = node[n].value
           /\ ~Link(t) => node'[n].next = node[n].next
           /\ n # view[t].ptr => node'[n] = node[n]
  <1>0. TypeOK /\ UserInv
    BY DEF IInv
  <1>1. CASE Push(t)
    BY <1>0, <1>1 DEF Push, TypeOK
  <1>2. CASE Link(t)
    <2>1. PICK m \in Nodes : view[t].ptr = m /\ Looks(t, m) /\ node[m] # Null
      BY <1>0, <1>2, LookedAt DEF Link, Goto
    <2>2. node' = [node EXCEPT ![m].next = head_]
      BY <1>2, <2>1 DEF Link
    <2>3. node[n] \in NodeRecords /\ node \in [Nodes -> NodeRecords \cup {Null}]
      BY <1>0, NodeType DEF TypeOK
    <2>4. node'[n].value = node[n].value /\ (n # m => node'[n] = node[n])
      BY <2>2, <2>3 DEF NodeRecords
    <2>5. QED
      BY <1>2, <2>1, <2>4
  <1>3. CASE Release(t) \/ Leave(t)
    <2>1. pc[t] # "idle" /\ \E a \in Int : Add(view[t].ptr, a)
      <3>1. view[t].count - 2 \in Int /\ -1 \in Int
        BY <1>0, Counting DEF TypeOK
      <3>2. CASE Release(t)
        BY <3>1, <3>2 DEF Release, Goto
      <3>3. CASE Leave(t)
        BY <3>1, <3>3 DEF Leave, Goto
      <3>4. QED
        BY <1>3, <3>2, <3>3
    <2>2. PICK m \in Nodes : view[t].ptr = m /\ Looks(t, m) /\ node[m] # Null
      BY <1>0, <2>1, LookedAt
    <2>3. PICK a \in Int : Add(m, a)
      BY <2>1, <2>2
    <2>4. /\ node'[n].value = node[n].value /\ node'[n].next = node[n].next
          /\ n # m => node'[n] = node[n]
      BY <1>0, <2>2, <2>3, Adding
    <2>5. QED
      BY <2>2, <2>4
  <1>4. CASE UNCHANGED node
    BY <1>4
  <1>5. QED
    BY <1>1, <1>2, <1>3, <1>4 DEF Step, ViewHead, FindsNothing, LoadNext, Swing, Read

\* A node of the list is not deleted.
LEMMA ListedStays ==
    ASSUME IInv, NEW t \in Threads, Step(t), NEW L \in Nat, NEW b, Shape(b, L),
           NEW n \in Listed(b, L)
    PROVE  n \in Nodes /\ node[n] # Null /\ node'[n] # Null
  <1>0. TypeOK /\ UserInv
    BY DEF IInv
  <1>1. n \in Nodes /\ node[n] # Null /\ ListedNode(Listed(b, L), n)
    BY <1>0, ListedFacts DEF Shape, NodeInv
  <1>2. node[n].internal_count \in Int /\ node[n].internal_count <= 0 /\ ~Owned(n)
    BY <1>0, <1>1, NodeType DEF ListedNode
  <1>3. CASE Push(t)
    <2>1. PICK m \in Nodes : node[m] = Null /\ node' = [node EXCEPT ![m] =
              [value |-> Head(todo[t]), internal_count |-> 0, next |-> NullPtr]]
      BY <1>3 DEF Push
    <2>2. QED
      BY <1>0, <1>1, <2>1 DEF TypeOK
  <1>4. CASE Link(t)
    <2>1. view[t].ptr # n
      <3>1. pc[t] \in Owning
        BY <1>4 DEF Link, Goto, Owning
      <3>2. QED
        BY <1>2, <3>1 DEF Owned, Users
    <2>2. QED
      BY <1>0, <1>1, <1>4, <2>1 DEF Link, TypeOK
  <1>5. CASE Release(t)
    <2>1. pc[t] \in Owning /\ pc[t] # "idle"
      BY <1>5 DEF Release, Goto, Owning
    <2>2. view[t].ptr # n
      BY <1>2, <2>1 DEF Owned, Users
    <2>3. PICK m \in Nodes : view[t].ptr = m /\ node[m] # Null
      BY <1>0, <2>1, LookedAt
    <2>4. PICK a \in Int : Add(m, a)
      <3>1. view[t].count - 2 \in Int
        BY <1>0, Counting DEF TypeOK
      <3>2. QED
        BY <1>5, <2>3, <3>1 DEF Release
    <2>5. QED
      BY <1>0, <1>1, <2>2, <2>3, <2>4, Adding
  <1>6. CASE Leave(t)
    <2>1. pc[t] # "idle"
      BY <1>6 DEF Leave, Goto
    <2>2. PICK m \in Nodes : view[t].ptr = m /\ node[m] # Null
      BY <1>0, <2>1, LookedAt
    <2>3. PICK a \in Int : a = -1 /\ Add(m, a)
      BY <1>6, <2>2 DEF Leave
    <2>4. m = n => node[m].internal_count + a # 0
      BY <1>2, <2>3
    <2>5. QED
      BY <1>0, <1>1, <2>2, <2>3, <2>4, Adding
  <1>7. CASE UNCHANGED node
    BY <1>1, <1>7
  <1>8. QED
    BY <1>1, <1>3, <1>4, <1>5, <1>6, <1>7 DEF Step, ViewHead, FindsNothing, LoadNext, Swing, Read

\* A step that does not change which nodes are in the list.
LEMMA SameItems ==
    ASSUME IInv, NEW t \in Threads, Step(t), ~Link(t), head_'.ptr = head_.ptr
    PROVE  ItemsNow' = ItemsNow
  <1>1. ~destroyed /\ ~destroyed'
    BY Alive
  <1>2. PICK L \in Nat : \E b \in [0..L -> Nodes \cup {Null}] : Shape(b, L)
    BY <1>1 DEF IInv
  <1>3. PICK b \in [0..L -> Nodes \cup {Null}] : Shape(b, L)
    BY <1>2
  <1>4. ASSUME NEW i \in 1..L
        PROVE  /\ node'[b[i]] # Null
               /\ node'[b[i]].next = node[b[i]].next
               /\ node'[b[i]].value = node[b[i]].value
    <2>1. b[i] \in Listed(b, L)
      BY DEF Listed
    <2>2. b[i] \in Nodes /\ node[b[i]] # Null /\ node'[b[i]] # Null
      BY <1>3, <2>1, ListedStays
    <2>3. QED
      BY <2>2, NodesKept
  <1>5. Chain(b, L)'
    <2>1. Linked(b, L, head_.ptr, node)
      BY <1>3 DEF Shape, Chain
    <2>2. Linked(b, L, head_.ptr, node')
      BY <1>4, <2>1 DEF Linked
    <2>3. QED
      BY <2>2 DEF Chain
  <1>6. ItemsNow = Values(b, L, node) /\ ItemsNow' = Values(b, L, node')
    BY <1>1, <1>3, <1>5, ItemsFound, ItemsFoundNext DEF Shape
  <1>7. \A i \in 1..L : L + 1 - i \in 1..L
    OBVIOUS
  <1>8. Values(b, L, node) = Values(b, L, node')
    BY <1>4, <1>7 DEF Values
  <1>9. QED
    BY <1>6, <1>8

LEMMA ItemsType ==
    ASSUME TypeOK, ~destroyed, NEW L \in Nat, NEW b, Chain(b, L)
    PROVE  /\ ItemsNow \in Seq(Items) /\ Len(ItemsNow) = L
           /\ \A i \in 1..L : ItemsNow[i] = node[b[L + 1 - i]].value
  <1>1. ItemsNow = Values(b, L, node)
    BY ItemsFound
  <1>2. ASSUME NEW i \in 1..L PROVE node[b[L + 1 - i]].value \in Items
    <2>1. L + 1 - i \in 1..L
      OBVIOUS
    <2>2. b[L + 1 - i] \in Nodes /\ node[b[L + 1 - i]] # Null
      BY <2>1 DEF Chain, Linked
    <2>3. QED
      BY <2>2, NodeType
  <1>3. PICK s : s = Values(b, L, node)
    OBVIOUS
  <1>4. s = [i \in 1..L |-> node[b[L + 1 - i]].value]
    BY <1>3 DEF Values
  <1>5. s \in [1..L -> Items] /\ \A i \in 1..L : s[i] = node[b[L + 1 - i]].value
    BY <1>2, <1>4
  <1>6. s \in Seq(Items) /\ Len(s) = L
    BY <1>5
  <1>7. QED
    BY <1>1, <1>3, <1>5, <1>6

\* The same after a step.
LEMMA ItemsTypeNext ==
    (\A L \in Nat : \A b : TypeOK /\ ~destroyed /\ Chain(b, L) =>
        /\ ItemsNow \in Seq(Items) /\ Len(ItemsNow) = L
        /\ \A i \in 1..L : ItemsNow[i] = node[b[L + 1 - i]].value)'
  <1>1. \A L \in Nat : \A b : TypeOK /\ ~destroyed /\ Chain(b, L) =>
            /\ ItemsNow \in Seq(Items) /\ Len(ItemsNow) = L
            /\ \A i \in 1..L : ItemsNow[i] = node[b[L + 1 - i]].value
    BY ItemsType
  <1>2. QED
    BY <1>1, PTL

LEMMA LinkPushes ==
    ASSUME IInv, TypeOK', NEW t \in Threads, Link(t)
    PROVE  \E x \in Items : ItemsNow' = << x >> \o ItemsNow
  <1>0. TypeOK /\ UserInv
    BY DEF IInv
  <1>1. /\ pc[t] = "link" /\ head_' = view[t] /\ Step(t)
        /\ node' = [node EXCEPT ![view[t].ptr].next = head_]
    BY DEF Link, Goto, Step
  <1>2. ~destroyed /\ ~destroyed'
    BY <1>1, Alive
  <1>3. PICK L \in Nat : \E b \in [0..L -> Nodes \cup {Null}] : Shape(b, L)
    BY <1>2 DEF IInv
  <1>4. PICK b \in [0..L -> Nodes \cup {Null}] : Shape(b, L)
    BY <1>3
  <1>5. PICK m \in Nodes : view[t].ptr = m /\ node[m] # Null
    BY <1>0, <1>1, LookedAt
  <1>6. m \notin Listed(b, L)
    <2>1. Owned(m)
      BY <1>1, <1>5 DEF Owned, Owning, Users
    <2>2. QED
      BY <1>4, <2>1 DEF Shape, NodeInv, ListedNode
  <1>7. /\ node'[m] # Null /\ node'[m].next = head_ /\ node'[m].value = node[m].value
        /\ node[m].value \in Items
        /\ \A k \in Nodes : k # m => node'[k] = node[k]
    <2>1. node[m] \in NodeRecords /\ node[m].value \in Items /\ head_ \in CountedPtrs
      BY <1>0, <1>5, NodeType DEF TypeOK
    <2>2. /\ node'[m] = [node[m] EXCEPT !.next = head_]
          /\ \A k \in Nodes : k # m => node'[k] = node[k]
      BY <1>0, <1>1, <1>5 DEF TypeOK
    <2>3. node'[m] \in NodeRecords /\ node'[m].next = head_ /\ node'[m].value = node[m].value
      BY <2>1, <2>2 DEF NodeRecords
    <2>4. QED
      BY <2>1, <2>2, <2>3, Constants
  <1>8. PICK c \in [0..(L+1) -> Nodes \cup {Null}] :
            /\ Linked(c, L + 1, m, node')
            /\ c[L+1] = m /\ \A i \in 0..L : c[i] = b[i]
    <2>1. Linked(b, L, head_.ptr, node)
      BY <1>4 DEF Shape, Chain
    <2>2. PICK nodes : nodes = node'
      OBVIOUS
    <2>3. \A k \in Listed(b, L) : k \in Nodes /\ k # m
      BY <1>0, <1>4, <1>6, ListedFacts DEF Shape
    <2>4. nodes[m] # Null /\ nodes[m].next.ptr = head_.ptr
          /\ \A k \in Listed(b, L) : nodes[k] = node[k]
      BY <1>7, <2>2, <2>3
    <2>5. \E c \in [0..(L+1) -> Nodes \cup {Null}] :
            /\ Linked(c, L + 1, m, nodes)
            /\ c[L+1] = m /\ \A i \in 0..L : c[i] = b[i]
      BY <1>6, <2>1, <2>4, Longer
    <2>6. QED
      BY <2>2, <2>5
  <1>9. Chain(c, L + 1)'
    BY <1>1, <1>5, <1>8 DEF Chain
  <1>10. /\ ItemsNow \in Seq(Items) /\ Len(ItemsNow) = L
         /\ \A i \in 1..L : ItemsNow[i] = node[b[L + 1 - i]].value
    BY <1>0, <1>2, <1>4, ItemsType DEF Shape
  <1>11. /\ ItemsNow' \in Seq(Items) /\ Len(ItemsNow') = L + 1
         /\ \A i \in 1..(L+1) : ItemsNow'[i] = node'[c[L + 1 + 1 - i]].value
    <2>1. L + 1 \in Nat
      OBVIOUS
    <2>2. QED
      BY <1>2, <1>9, <2>1, ItemsTypeNext
  <1>12. PICK s, x, r : s = ItemsNow /\ r = ItemsNow' /\ x = node[m].value
    OBVIOUS
  <1>13. r[1] = x
    <2>1. 1 \in 1..(L+1) /\ L + 1 + 1 - 1 = L + 1
      OBVIOUS
    <2>2. QED
      BY <1>7, <1>8, <1>11, <1>12, <2>1
  <1>14. ASSUME NEW i \in 1..L PROVE r[i+1] = s[i]
    <2>1. i + 1 \in 1..(L+1) /\ L + 1 + 1 - (i + 1) = L + 1 - i /\ L + 1 - i \in 1..L
          /\ L + 1 - i \in 0..L
      OBVIOUS
    <2>2. r[i+1] = node'[b[L + 1 - i]].value
      BY <1>8, <1>11, <1>12, <2>1
    <2>3. b[L + 1 - i] \in Listed(b, L) /\ b[L + 1 - i] \in Nodes
      BY <2>1, <1>4 DEF Listed, Shape, Chain, Linked
    <2>4. node'[b[L + 1 - i]] = node[b[L + 1 - i]]
      BY <1>6, <1>7, <2>3
    <2>5. QED
      BY <1>10, <1>12, <2>2, <2>4
  <1>15. r = << x >> \o s
    <2>1. s \in Seq(Items) /\ Len(s) = L /\ r \in Seq(Items) /\ Len(r) = L + 1 /\ x \in Items
      BY <1>7, <1>10, <1>11, <1>12
    <2>2. << x >> \in Seq(Items) /\ Len(<< x >>) = 1 /\ << x >>[1] = x
      BY <2>1
    <2>3. /\ << x >> \o s \in Seq(Items) /\ Len(<< x >> \o s) = L + 1
          /\ \A i \in 1..(L+1) : (<< x >> \o s)[i] = IF i <= 1 THEN << x >>[i] ELSE s[i - 1]
      BY <2>1, <2>2, ConcatProperties
    <2>4. ASSUME NEW i \in 1..(L+1) PROVE r[i] = (<< x >> \o s)[i]
      <3>1. CASE i = 1
        BY <1>13, <2>2, <2>3, <3>1
      <3>2. CASE i # 1
        <4>1. PICK j \in 1..L : i = j + 1
          <5>1. i - 1 \in 1..L /\ i = (i - 1) + 1
            BY <3>2
          <5>2. QED
            BY <5>1
        <4>2. ~(i <= 1) /\ i - 1 = j
          BY <4>1
        <4>3. (<< x >> \o s)[i] = s[j]
          BY <2>3, <4>2
        <4>4. QED
          BY <1>14, <4>1, <4>3
      <3>3. QED
        BY <3>1, <3>2
    <2>5. PICK q : q = << x >> \o s
      OBVIOUS
    <2>6. q \in Seq(Items) /\ Len(q) = Len(r) /\ \A i \in 1..Len(r) : r[i] = q[i]
      BY <2>1, <2>3, <2>4, <2>5
    <2>7. QED
      BY <2>1, <2>5, <2>6, SeqEqual
  <1>16. QED
    BY <1>7, <1>12, <1>15

LEMMA SwingPops ==
    ASSUME IInv, TypeOK', NEW t \in Threads, Swing(t), head_ = view[t]
    PROVE  /\ ItemsNow # << >> /\ ItemsNow \in Seq(Items)
           /\ Head(ItemsNow) = node[view[t].ptr].value
           /\ ItemsNow' = Tail(ItemsNow)
  <1>0. TypeOK /\ UserInv
    BY DEF IInv
  <1>1. /\ pc[t] = "swing" /\ head_' = next[t] /\ node' = node /\ Step(t)
    BY DEF Swing, Goto, Step
  <1>2. ~destroyed /\ ~destroyed'
    BY <1>1, Alive
  <1>3. PICK L \in Nat : \E b \in [0..L -> Nodes \cup {Null}] : Shape(b, L)
    BY <1>2 DEF IInv
  <1>4. PICK b \in [0..L -> Nodes \cup {Null}] : Shape(b, L)
    BY <1>3
  <1>5. PICK h \in Nodes : view[t].ptr = h /\ Looks(t, h) /\ node[h] # Null
    BY <1>0, <1>1, LookedAt
  <1>6. head_.ptr = h /\ h # Null /\ head_' = node[h].next
    BY <1>1, <1>5, Constants DEF Looks
  <1>7. Linked(b, L, h, node) /\ b[L] = h
    BY <1>4, <1>6 DEF Shape, Chain, Linked
  <1>8. PICK c \in [0..(L-1) -> Nodes \cup {Null}] :
            /\ Linked(c, L - 1, node[h].next.ptr, node)
            /\ L - 1 \in Nat
            /\ \A i \in 0..(L-1) : c[i] = b[i]
    BY <1>6, <1>7, Shorter
  <1>9. Chain(c, L - 1)'
    BY <1>1, <1>6, <1>8 DEF Chain
  <1>10. /\ ItemsNow \in Seq(Items) /\ Len(ItemsNow) = L
         /\ \A i \in 1..L : ItemsNow[i] = node[b[L + 1 - i]].value
    BY <1>0, <1>2, <1>4, ItemsType DEF Shape
  <1>11. /\ ItemsNow' \in Seq(Items) /\ Len(ItemsNow') = L - 1
         /\ \A i \in 1..(L-1) : ItemsNow'[i] = node'[c[L - 1 + 1 - i]].value
    BY <1>2, <1>8, <1>9, ItemsTypeNext
  <1>12. PICK s, r : s = ItemsNow /\ r = ItemsNow'
    OBVIOUS
  <1>13. s \in Seq(Items) /\ Len(s) = L /\ r \in Seq(Items) /\ Len(r) = L - 1 /\ s # << >>
    <2>1. L # 0
      BY <1>8
    <2>2. Len(<< >>) = 0
      BY EmptySeq
    <2>3. QED
      BY <1>10, <1>11, <1>12, <2>1, <2>2
  <1>14. Head(s) = node[h].value
    <2>1. 1 \in 1..L /\ L + 1 - 1 = L
      BY <1>8
    <2>2. s[1] = node[b[L]].value
      BY <1>10, <1>12, <2>1
    <2>3. Head(s) = s[1]
      BY <1>13
    <2>4. QED
      BY <1>7, <2>2, <2>3
  <1>15. r = Tail(s)
    <2>1. PICK q : q = Tail(s)
      OBVIOUS
    <2>2. /\ q \in Seq(Items) /\ Len(q) = L - 1
          /\ \A i \in 1..(L-1) : q[i] = s[i+1]
      BY <1>13, <2>1, HeadTailProperties
    <2>3. ASSUME NEW i \in 1..(L-1) PROVE r[i] = q[i]
      <3>1. /\ i + 1 \in 1..L /\ L - 1 + 1 - i = L - i /\ L + 1 - (i + 1) = L - i
            /\ L - i \in 0..(L-1)
        BY <1>8
      <3>2. r[i] = node[b[L - i]].value
        BY <1>1, <1>8, <1>11, <1>12, <3>1
      <3>3. s[i+1] = node[b[L - i]].value
        BY <1>10, <1>12, <3>1
      <3>4. QED
        BY <2>2, <3>2, <3>3
    <2>4. QED
      BY <1>13, <2>1, <2>2, <2>3, SeqEqual
  <1>16. QED
    BY <1>5, <1>12, <1>13, <1>14, <1>15

\* What a thread has popped, when the step is not its own.
LEMMA SamePopped ==
    ASSUME IInv, IInv', NEW t \in Threads, Step(t), NEW u \in Threads \ {t}
    PROVE  got'[u] = got[u] /\ Popping(u)' = Popping(u)
  <1>0. TypeOK /\ UserInv /\ TypeOK' /\ UserInv'
    BY DEF IInv
  <1>1. pc'[u] = pc[u] /\ got'[u] = got[u]
    BY <1>0 DEF Step, Push, Link, ViewHead, FindsNothing, LoadNext, Swing, Read, Release, Leave,
                Goto, TypeOK
  <1>2. view'[u] = view[u]
    BY <1>0 DEF Step, Push, Link, ViewHead, FindsNothing, LoadNext, Swing, Read, Release, Leave,
                Forget, TypeOK
  <1>3. ASSUME pc[u] = "read" PROVE node'[view[u].ptr].value = node[view[u].ptr].value
    <2>1. PICK n \in Nodes : view[u].ptr = n /\ node[n] # Null
      BY <1>0, <1>3, LookedAt
    <2>2. view'[u].ptr = n
      BY <1>2, <2>1
    <2>3. node'[n] # Null
      BY <1>0, <2>2 DEF UserInv, Looks
    <2>4. QED
      BY <2>1, <2>3, NodesKept
  <1>4. QED
    BY <1>1, <1>2, <1>3 DEF Popping

LEMMA StepRefines ==
    ASSUME IInv, IInv', NEW t \in Threads, Step(t)
    PROVE  \/ ItemsNow' = ItemsNow /\ GotNow' = GotNow
           \/ GotNow' = GotNow /\ \E x \in Items : ItemsNow' = << x >> \o ItemsNow
           \/ /\ ItemsNow # << >> /\ ItemsNow' = Tail(ItemsNow)
              /\ GotNow' = [GotNow EXCEPT ![t] = Append(GotNow[t], Head(ItemsNow))]
  <1>0. TypeOK /\ UserInv /\ TypeOK' /\ UserInv'
    BY DEF IInv
  <1>1. \A u \in Threads \ {t} : got'[u] = got[u] /\ Popping(u)' = Popping(u)
    BY SamePopped
  <1>2. got[t] \in Seq(Items)
    BY <1>0 DEF TypeOK
  <1>3. ASSUME got'[t] \o Popping(t)' = got[t] \o Popping(t)
        PROVE  GotNow' = GotNow
    BY <1>1, <1>3 DEF GotNow
  <1>4. CASE Link(t)
    <2>1. got' = got /\ Popping(t)' = << >> /\ Popping(t) = << >>
      BY <1>0, <1>4 DEF Link, Goto, Popping, TypeOK
    <2>2. QED
      BY <1>0, <1>3, <1>4, <2>1, LinkPushes
  <1>5. CASE Swing(t) /\ head_ = view[t]
    <2>1. /\ ItemsNow # << >> /\ ItemsNow \in Seq(Items)
          /\ Head(ItemsNow) = node[view[t].ptr].value
          /\ ItemsNow' = Tail(ItemsNow)
      BY <1>0, <1>5, SwingPops
    <2>2. /\ pc[t] = "swing" /\ pc'[t] = "read" /\ got' = got /\ node' = node /\ view' = view
      BY <1>0, <1>5 DEF Swing, Goto, TypeOK
    <2>3. PICK x : x = Head(ItemsNow)
      OBVIOUS
    <2>4. Popping(t) = << >> /\ Popping(t)' = << x >>
      BY <2>1, <2>2, <2>3 DEF Popping
    <2>5. GotNow[t] = got[t]
      BY <1>2, <2>4, ConcatEmptySeq DEF GotNow
    <2>6. got[t] \o << x >> = Append(got[t], x)
      <3>1. x \in Items
        BY <2>1, <2>3, HeadTailProperties
      <3>2. QED
        BY <1>2, <3>1, AppendIsConcat
    <2>7. \A u \in Threads : GotNow'[u] = IF u = t THEN Append(GotNow[t], x) ELSE GotNow[u]
      BY <1>1, <2>2, <2>4, <2>5, <2>6 DEF GotNow
    <2>8. GotNow' = [GotNow EXCEPT ![t] = Append(GotNow[t], x)]
      BY <2>7 DEF GotNow
    <2>9. QED
      BY <2>1, <2>3, <2>8
  <1>6. CASE Read(t)
    <2>1. /\ pc[t] = "read" /\ pc'[t] = "release" /\ head_' = head_
          /\ got'[t] = Append(got[t], node[view[t].ptr].value)
      BY <1>0, <1>6 DEF Read, Goto, TypeOK
    <2>2. PICK x : x = node[view[t].ptr].value
      OBVIOUS
    <2>3. x \in Items
      BY <1>0, <2>1, <2>2, LookedAt, NodeType
    <2>4. Popping(t) = << x >> /\ Popping(t)' = << >> /\ got'[t] = Append(got[t], x)
      BY <2>1, <2>2 DEF Popping
    <2>5. got[t] \o << x >> = Append(got[t], x) /\ Append(got[t], x) \in Seq(Items)
      BY <1>2, <2>3, AppendIsConcat, AppendProperties
    <2>6. Append(got[t], x) \o << >> = Append(got[t], x)
      BY <2>5, ConcatEmptySeq
    <2>7. GotNow' = GotNow
      BY <1>3, <2>4, <2>5, <2>6
    <2>8. ItemsNow' = ItemsNow
      BY <1>6, <2>1, SameItems DEF Read, Link, Goto
    <2>9. QED
      BY <2>7, <2>8
  <1>7. CASE ~Link(t) /\ ~Read(t) /\ ~(Swing(t) /\ head_ = view[t])
    <2>1. head_'.ptr = head_.ptr
      <3>1. CASE ViewHead(t) \/ FindsNothing(t)
        BY <1>0, <3>1, Counting DEF ViewHead, FindsNothing, TypeOK
      <3>2. CASE ~(ViewHead(t) \/ FindsNothing(t))
        BY <1>7, <3>2 DEF Step, Push, LoadNext, Swing, Release, Leave
      <3>3. QED
        BY <3>1, <3>2
    <2>2. ItemsNow' = ItemsNow
      BY <1>7, <2>1, SameItems
    <2>3. got' = got /\ pc[t] # "read" /\ pc'[t] # "read"
      BY <1>0, <1>7 DEF Step, Push, ViewHead, FindsNothing, LoadNext, Swing, Release, Leave,
                        Goto, TypeOK
    <2>4. Popping(t)' = Popping(t)
      BY <2>3 DEF Popping
    <2>5. QED
      BY <1>3, <2>2, <2>3, <2>4
  <1>8. QED
    BY <1>4, <1>5, <1>6, <1>7

\* While the counts fit, Push and TryPop take effect at one instant each, at the
\* CAS of head_, as those of a LIFO, whatever addresses are used again.
THEOREM Linearizable == Spec /\ []CountsFit => ImplementsLifo
  <1>1. Init => Lifo!Init
    <2>1. SUFFICES ASSUME Init PROVE Lifo!Init
      OBVIOUS
    <2>2. PICK b : b = [i \in 0..0 |-> Null]
      OBVIOUS
    <2>3. Chain(b, 0) /\ 0 \in Nat /\ ~destroyed /\ TypeOK
      <3>1. b \in [0..0 -> Nodes \cup {Null}] /\ b[0] = Null
        BY <2>2
      <3>2. Chain(b, 0)
        BY <2>1, <3>1, Constants DEF Chain, Linked, Init
      <3>3. TypeOK /\ ~destroyed
        BY <2>1, Initially DEF IInv, Init
      <3>4. QED
        BY <3>2, <3>3
    <2>4. ItemsNow = << >>
      <3>1. ItemsNow \in Seq(Items) /\ Len(ItemsNow) = 0
        BY <2>3, ItemsType
      <3>2. QED
        BY <3>1, EmptySeq
    <2>5. GotNow = [t \in Threads |-> << >>]
      <3>1. \A t \in Threads : got[t] \o Popping(t) = << >>
        <4>1. \A t \in Threads : got[t] = << >> /\ Popping(t) = << >>
          BY <2>1 DEF Init, Popping
        <4>2. << >> \o << >> = << >>
          BY EmptySeq, ConcatEmptySeq
        <4>3. QED
          BY <4>1, <4>2
      <3>2. QED
        BY <3>1 DEF GotNow
    <2>6. QED
      BY <2>4, <2>5 DEF Lifo!Init, ItemsNow, GotNow
  <1>2. ASSUME IInv, IInv', [Next]_vars PROVE [Lifo!Next \/ Destroy]_(Lifo!vars)
    <2>1. CASE UNCHANGED vars
      <3>1. UNCHANGED <<ItemsNow, GotNow>>
        <4>1. List' = List
          BY <2>1 DEF vars, List
        <4>2. InList' = InList
          BY <2>1, <4>1 DEF vars, InList
        <4>3. ItemsNow' = ItemsNow
          BY <2>1, <4>1, <4>2 DEF vars, ItemsNow
        <4>4. GotNow' = GotNow
          BY <2>1 DEF vars, GotNow, Popping
        <4>5. QED
          BY <4>3, <4>4
      <3>2. QED
        BY <3>1 DEF Lifo!vars, ItemsNow, GotNow
    <2>2. CASE Destroy
      BY <2>2
    <2>3. ASSUME NEW t \in Threads, Step(t) PROVE [Lifo!Next \/ Destroy]_(Lifo!vars)
      <3>1. CASE ItemsNow' = ItemsNow /\ GotNow' = GotNow
        BY <3>1 DEF Lifo!vars, ItemsNow, GotNow
      <3>2. CASE GotNow' = GotNow /\ \E x \in Items : ItemsNow' = << x >> \o ItemsNow
        BY <3>2 DEF Lifo!Next, Lifo!Push, ItemsNow, GotNow
      <3>3. CASE /\ ItemsNow # << >> /\ ItemsNow' = Tail(ItemsNow)
                 /\ GotNow' = [GotNow EXCEPT ![t] = Append(GotNow[t], Head(ItemsNow))]
        <4>1. Lifo!Pop(t)
          BY <3>3 DEF Lifo!Pop, ItemsNow, GotNow
        <4>2. QED
          BY <4>1 DEF Lifo!Next
      <3>4. QED
        BY <1>2, <2>3, <3>1, <3>2, <3>3, StepRefines
    <2>4. QED
      BY <1>2, <2>1, <2>2, <2>3 DEF Next
  <1>3. QED
    BY <1>1, <1>2, Invariance, PTL DEF Spec, ImplementsLifo
=============================================================================
