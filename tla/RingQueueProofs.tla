--------------------------- MODULE RingQueueProofs ---------------------------
(***************************************************************************)
(* Proofs about LockFree::RingQueue for any threads, capacity, sizes and   *)
(* number of items: the ring implements BoundedFifo, and its calls find    *)
(* nothing only when it is empty.                                          *)
(*                                                                         *)
(* A thread reads slots before it knows whether it will keep what it read. *)
(* The inductive invariant says that head_ never passes the position the   *)
(* thread has loaded unnoticed: while old_head is still head_, the slots   *)
(* from there on hold what they held when the thread read them, because    *)
(* the owner fills only slots that lie Capacity or less beyond head_.      *)
(***************************************************************************)
EXTENDS RingQueue, SequenceTheorems, TLAPS

\* The owner alone pushes, and it has found a free slot when it fills one.
PositionInv ==
    /\ head_ <= tail_ /\ tail_ <= head_ + Capacity
    /\ \A t \in Threads : pc[t] \in {"store", "publish"} => t = Owner
    /\ pc[Owner] \in {"store", "publish"} => tail_ < MaxPush /\ tail_ < head_ + Capacity

\* Position i of the ring holds the item i + 1, and a slot that was filled once
\* is never empty again.
SlotInv ==
    /\ \A i \in head_..(tail_ - 1) : buffer_[Slot(i)] = i + 1
    /\ \A i \in 0..(tail_ - 1) : buffer_[Slot(i)] # None
    /\ pc[Owner] = "publish" => buffer_[Slot(tail_)] = tail_ + 1

\* How far a thread has come with what it takes from position old_head on.
ProgressInv ==
    \A t \in Threads :
        /\ old_head[t] <= head_
        /\ pc[t] \in {"read", "popCas"} => old_head[t] < tail_
        /\ pc[t] = "popCas" => Len(loaded[t]) = 1
        /\ pc[t] \in {"copy", "grabCas"} => old_head[t] + count[t] <= tail_
        /\ pc[t] = "copy" => Len(loaded[t]) < count[t]
        /\ pc[t] = "grabCas" => Len(loaded[t]) = count[t]
        /\ pc[t] \in {"grab", "copy", "grabCas"} => size[t] # 0
        /\ pc[t] \notin {"popCas", "copy", "grabCas", "drain"} => loaded[t] = << >>

\* What a thread has read is still there, unless head_ has moved.
LoadedInv ==
    \A t \in Threads :
        pc[t] \in {"popCas", "copy", "grabCas"} /\ old_head[t] = head_
            => \A j \in 1..Len(loaded[t]) : loaded[t][j] = head_ + j

IInv == TypeOK /\ PositionInv /\ SlotInv /\ ProgressInv /\ LoadedInv

------------------------------------------------------------------------------
\* Slots: a position has one slot, and Capacity + 1 positions in a row have
\* different ones.
LEMMA DivMod ==
    ASSUME NEW i \in Int, NEW M \in Nat \ {0}
    PROVE  i \div M \in Int /\ i % M \in 0..(M - 1) /\ i = M * (i \div M) + (i % M)
  OBVIOUS

LEMMA MultiplesApart ==
    ASSUME NEW M \in Nat \ {0}, NEW a \in Int, NEW b \in Int, a < b
    PROVE  M * b - M * a >= M
  <1>1. b - a \in Nat /\ b - a >= 1
    OBVIOUS
  <1>2. M * (b - a) >= M
    BY <1>1
  <1>3. M * (b - a) = M * b - M * a
    OBVIOUS
  <1>4. QED
    BY <1>2, <1>3

LEMMA RemaindersDiffer ==
    ASSUME NEW M \in Nat \ {0}, NEW i \in Int, NEW j \in Int, i < j, j - i < M
    PROVE  i % M # j % M
  <1> DEFINE p == i \div M
             q == j \div M
  <1> SUFFICES ASSUME i % M = j % M PROVE FALSE
    OBVIOUS
  <1>1. i = M * p + (i % M) /\ j = M * q + (j % M) /\ p \in Int /\ q \in Int
    BY DivMod
  <1>2. CASE p < q
    BY <1>1, <1>2, MultiplesApart
  <1>3. CASE q < p
    BY <1>1, <1>3, MultiplesApart
  <1>4. CASE p = q
    BY <1>1, <1>4
  <1>5. QED
    BY <1>1, <1>2, <1>3, <1>4

LEMMA SlotsDiffer ==
    /\ \A i \in Int : Slot(i) \in Slots
    /\ \A i, j \in Int : i < j /\ j - i <= Capacity => Slot(i) # Slot(j)
  <1>1. \A i \in Int : Slot(i) \in Slots
    BY RingAssumption, DivMod DEF Slot, Slots
  <1>2. ASSUME NEW i \in Int, NEW j \in Int, i < j, j - i <= Capacity
        PROVE  Slot(i) # Slot(j)
    <2>1. Capacity + 1 \in Nat \ {0} /\ j - i < Capacity + 1
      BY <1>2, RingAssumption
    <2>2. QED
      BY <1>2, <2>1, RemaindersDiffer DEF Slot
  <1>3. QED
    BY <1>1, <1>2

LEMMA SizesAreNumbers ==
    TypeOK => size \in [Threads -> Nat]
  <1>1. GrabSizes \cup {0} \subseteq Nat
    BY RingAssumption
  <1>2. TypeOK => size \in [Threads -> GrabSizes \cup {0}]
    BY DEF TypeOK
  <1>3. QED
    BY <1>1, <1>2

LEMMA MinOfTwo ==
    ASSUME NEW a \in Nat, NEW b \in Nat
    PROVE  Min({a, b}) = IF a <= b THEN a ELSE b
  BY DEF Min

------------------------------------------------------------------------------
LEMMA InitIInv == Init => IInv
  <1> SUFFICES ASSUME Init PROVE IInv
    OBVIOUS
  <1>1. TypeOK
    <2>1. << >> \in Seq(Items)
      OBVIOUS
    <2>2. QED
      BY <2>1, RingAssumption DEF Init, TypeOK, None
  <1>2. PositionInv /\ SlotInv /\ ProgressInv /\ LoadedInv
    BY RingAssumption DEF Init, PositionInv, SlotInv, ProgressInv, LoadedInv, Threads
  <1>3. QED
    BY <1>1, <1>2 DEF IInv

\* The owner's steps: a slot is filled that nobody else reads.
LEMMA TryPushStep == IInv /\ TryPush => IInv'
  <1> SUFFICES ASSUME IInv, TryPush PROVE IInv'
    OBVIOUS
  <1> USE RingAssumption DEF IInv
  <1>0. Owner \in Threads /\ head_ \in Nat /\ tail_ \in Nat /\ MaxPush \in Nat
    BY DEF Threads, TypeOK
  <1>1. CASE PushBegin
    <2>1. TypeOK'
      BY <1>0, <1>1 DEF TypeOK, PushBegin, Goto
    <2>2. PositionInv'
      BY <1>0, <1>1 DEF TypeOK, PushBegin, Goto, PositionInv
    <2>3. SlotInv' /\ ProgressInv' /\ LoadedInv'
      BY <1>0, <1>1 DEF TypeOK, PushBegin, Goto, SlotInv, ProgressInv, LoadedInv
    <2>4. QED
      BY <2>1, <2>2, <2>3
  <1>2. CASE Store
    <2>0. pc[Owner] = "store" /\ tail_ < MaxPush /\ tail_ < head_ + Capacity
      BY <1>2 DEF Store, Goto, PositionInv
    <2>1. \A i \in Slots : buffer_'[i] = IF i = Slot(tail_) THEN tail_ + 1 ELSE buffer_[i]
      BY <1>2 DEF Store, TypeOK
    <2>2. TypeOK'
      <3>1. tail_ + 1 \in Items
        BY <1>0, <2>0 DEF Items
      <3>2. buffer_' \in [Slots -> Items \cup {None}]
        BY <1>2, <3>1 DEF TypeOK, Store
      <3>3. QED
        BY <1>2, <3>2 DEF TypeOK, Store, Goto
    <2>3. PositionInv'
      BY <1>0, <1>2, <2>0 DEF TypeOK, Store, Goto, PositionInv
    <2>4. SlotInv'
      <3>1. \A i \in Int : buffer_'[Slot(i)] = IF Slot(i) = Slot(tail_) THEN tail_ + 1
                                                ELSE buffer_[Slot(i)]
        BY <2>1, SlotsDiffer
      <3>2. \A i \in head_..(tail_ - 1) : Slot(i) # Slot(tail_)
        <4>1. \A i \in head_..(tail_ - 1) : i < tail_ /\ tail_ - i <= Capacity
          BY <1>0, <2>0
        <4>2. QED
          BY <1>0, <4>1, SlotsDiffer
      <3>3. QED
        BY <1>0, <1>2, <3>1, <3>2 DEF SlotInv, Store, None
    <2>5. ProgressInv' /\ LoadedInv'
      BY <1>2 DEF TypeOK, Store, Goto, ProgressInv, LoadedInv
    <2>6. QED
      BY <2>2, <2>3, <2>4, <2>5
  <1>3. CASE Publish
    <2>0. pc[Owner] = "publish" /\ tail_ < MaxPush /\ tail_ < head_ + Capacity
      BY <1>3 DEF Publish, Goto, PositionInv
    <2>1. TypeOK'
      BY <1>0, <1>3, <2>0 DEF TypeOK, Publish, Goto
    <2>2. PositionInv'
      BY <1>0, <1>3, <2>0 DEF TypeOK, Publish, Goto, PositionInv
    <2>3. SlotInv'
      <3>1. \A i \in head_..tail_ : buffer_[Slot(i)] = i + 1
        BY <1>0, <2>0 DEF SlotInv
      <3>2. \A i \in 0..tail_ : buffer_[Slot(i)] # None
        BY <1>0, <2>0 DEF SlotInv, None
      <3>3. QED
        BY <1>0, <1>3, <3>1, <3>2 DEF SlotInv, Publish, Goto, TypeOK
    <2>4. ProgressInv'
      <3>1. \A t \in Threads : old_head[t] \in Nat /\ count[t] \in Nat
        BY DEF TypeOK
      <3>2. QED
        BY <1>0, <1>3, <3>1 DEF TypeOK, Publish, Goto, ProgressInv
    <2>5. LoadedInv'
      BY <1>3 DEF TypeOK, Publish, Goto, LoadedInv
    <2>6. QED
      BY <2>1, <2>2, <2>3, <2>4, <2>5
  <1>4. QED
    BY <1>1, <1>2, <1>3 DEF TryPush

------------------------------------------------------------------------------
\* Steps of a thread that takes items and that do not move head_: what the
\* invariant says of the ring stays, and only the thread's own part changes.
LEMMA QuietStep ==
    ASSUME IInv, NEW t \in Threads, NEW from, NEW to, Goto(t, from, to),
           UNCHANGED <<buffer_, head_, tail_>>,
           from \notin {"store", "publish"}, to \notin {"store", "publish"}
    PROVE  PositionInv' /\ SlotInv'
  <1>1. \A u \in Threads : pc'[u] = pc[u] \/ (u = t /\ pc[u] = from /\ pc'[u] = to)
    BY DEF IInv, TypeOK, Goto
  <1>2. Owner \in Threads
    BY DEF Threads
  <1>3. PositionInv'
    BY <1>1, <1>2 DEF IInv, PositionInv
  <1>4. SlotInv'
    BY <1>1, <1>2 DEF IInv, SlotInv
  <1>5. QED
    BY <1>3, <1>4

LEMMA TakingStep ==
    ASSUME IInv, NEW t \in Threads,
           \/ PopLoadHead(t) \/ PopLoadTail(t) \/ PopRead(t) \/ PopCasFails(t)
           \/ GrabLoadHead(t) \/ GrabLoadTail(t) \/ Copy(t) \/ GrabCasFails(t) \/ Drain(t)
    PROVE  IInv'
  <1> USE RingAssumption DEF IInv
  <1>0. /\ head_ \in Nat /\ tail_ \in Nat /\ MaxPush \in Nat
        /\ tail_ <= MaxPush /\ head_ <= tail_
        /\ \A u \in Threads : /\ old_head[u] \in Nat /\ count[u] \in Nat /\ size[u] \in Nat
                               /\ loaded[u] \in Seq(Items) /\ Len(loaded[u]) \in Nat
    <2>1. \A u \in Threads : size[u] \in Nat
      BY SizesAreNumbers
    <2>2. \A u \in Threads : loaded[u] \in Seq(Items) /\ Len(loaded[u]) \in Nat
      BY LenProperties DEF TypeOK
    <2>3. QED
      BY <2>1, <2>2 DEF TypeOK, PositionInv
  <1>00. << >> \in Seq(Items) /\ Len(<< >>) = 0
    OBVIOUS
  \* The item at a position below tail_.
  <1>a. \A i \in 0..(tail_ - 1) : buffer_[Slot(i)] \in Items
    <2>1. \A i \in 0..(tail_ - 1) : Slot(i) \in Slots
      BY <1>0, SlotsDiffer
    <2>2. QED
      BY <1>0, <2>1 DEF TypeOK, SlotInv
  <1>1. CASE PopLoadHead(t)
    <2>1. TypeOK'
      BY <1>1, <1>0 DEF PopLoadHead, TypeOK, Goto
    <2>2. ProgressInv' /\ LoadedInv'
      BY <1>1, <1>0 DEF PopLoadHead, TypeOK, Goto, ProgressInv, LoadedInv
    <2>3. PositionInv' /\ SlotInv'
      BY <1>1, QuietStep DEF PopLoadHead
    <2>4. QED
      BY <2>1, <2>2, <2>3
  <1>2. CASE PopLoadTail(t)
    <2>1. TypeOK'
      BY <1>2, <1>0 DEF PopLoadTail, TypeOK, Goto
    <2>2. ProgressInv'
      BY <1>2, <1>0 DEF PopLoadTail, TypeOK, Goto, ProgressInv
    <2>3. LoadedInv'
      BY <1>2, <1>0 DEF PopLoadTail, TypeOK, Goto, LoadedInv
    <2>4. PositionInv' /\ SlotInv'
      BY <1>2, QuietStep DEF PopLoadTail
    <2>5. QED
      BY <2>1, <2>2, <2>3, <2>4
  <1>3. CASE PopRead(t)
    <2> DEFINE item == buffer_[Slot(old_head[t])]
    <2>0. old_head[t] < tail_ /\ item \in Items
      BY <1>3, <1>0, <1>a DEF PopRead, Goto, ProgressInv
    <2>00. loaded'[t] = << item >> /\ \A u \in Threads \ {t} : loaded'[u] = loaded[u]
      BY <1>3 DEF PopRead, TypeOK
    <2>1. TypeOK'
      <3>1. << item >> \in Seq(Items)
        BY <2>0
      <3>2. loaded' \in [Threads -> Seq(Items)]
        BY <1>3, <3>1 DEF PopRead, TypeOK
      <3>3. QED
        BY <1>3, <3>2 DEF PopRead, TypeOK, Goto
    <2>2. ProgressInv'
      <3>1. Len(loaded'[t]) = 1
        BY <2>00
      <3>2. QED
        BY <1>3, <1>0, <2>0, <2>00, <3>1 DEF PopRead, TypeOK, Goto, ProgressInv
    <2>3. LoadedInv'
      <3>1. old_head[t] = head_ => item = head_ + 1
        BY <1>0, <2>0 DEF SlotInv
      <3>2. Len(loaded'[t]) = 1 /\ loaded'[t][1] = item
        BY <2>00
      <3>3. QED
        BY <1>3, <1>0, <2>00, <3>1, <3>2 DEF PopRead, TypeOK, Goto, LoadedInv
    <2>4. PositionInv' /\ SlotInv'
      BY <1>3, QuietStep DEF PopRead
    <2>5. QED
      BY <2>1, <2>2, <2>3, <2>4
  <1>4. ASSUME NEW from, NEW again, CasHeadFails(t, from, again),
               <<from, again>> \in {<<"popCas", "pop">>, <<"grabCas", "grab">>}
        PROVE  IInv'
    <2>1. TypeOK'
      BY <1>4, <1>0, <1>00 DEF CasHeadFails, TypeOK, Goto
    <2>2. ProgressInv'
      BY <1>4, <1>0, <1>00 DEF CasHeadFails, TypeOK, Goto, ProgressInv
    <2>3. LoadedInv'
      BY <1>4, <1>0, <1>00 DEF CasHeadFails, TypeOK, Goto, LoadedInv
    <2>4. PositionInv' /\ SlotInv'
      BY <1>4, QuietStep DEF CasHeadFails
    <2>5. QED
      BY <2>1, <2>2, <2>3, <2>4
  <1>5. CASE GrabLoadHead(t)
    <2>1. TypeOK'
      BY <1>5, <1>0 DEF GrabLoadHead, TypeOK, Goto
    <2>2. ProgressInv' /\ LoadedInv'
      BY <1>5, <1>0 DEF GrabLoadHead, TypeOK, Goto, ProgressInv, LoadedInv
    <2>3. PositionInv' /\ SlotInv'
      BY <1>5, QuietStep DEF GrabLoadHead
    <2>4. QED
      BY <2>1, <2>2, <2>3
  <1>6. CASE GrabLoadTail(t)
    <2> DEFINE n == Min({tail_ - old_head[t], size[t]})
    <2>0. n \in Nat /\ n <= tail_ - old_head[t] /\ n \in 0..MaxPush
      <3>1. tail_ - old_head[t] \in Nat
        BY <1>0 DEF ProgressInv
      <3>2. n = IF tail_ - old_head[t] <= size[t] THEN tail_ - old_head[t] ELSE size[t]
        BY <1>0, <3>1, MinOfTwo
      <3>3. QED
        BY <1>0, <3>1, <3>2
    <2>00. /\ count' = [count EXCEPT ![t] = n]
           /\ Goto(t, "grab", IF n = 0 THEN "grabCas" ELSE "copy")
           /\ UNCHANGED <<buffer_, head_, tail_, next, old_head, size, loaded, got>>
      BY <1>6 DEF GrabLoadTail
    <2> HIDE DEF n
    <2>1. TypeOK'
      BY <2>00, <2>0 DEF TypeOK, Goto
    <2>2. ProgressInv'
      BY <2>00, <1>0, <1>00, <2>0 DEF TypeOK, Goto, ProgressInv
    <2>3. LoadedInv'
      BY <2>00, <1>0, <1>00 DEF TypeOK, Goto, LoadedInv, ProgressInv
    <2>4. PositionInv' /\ SlotInv'
      BY <2>00, QuietStep
    <2>5. QED
      BY <2>1, <2>2, <2>3, <2>4
  <1>7. CASE Copy(t)
    <2> DEFINE n == Len(loaded[t])
               item == buffer_[Slot(old_head[t] + n)]
    <2>0. n \in Nat /\ n < count[t] /\ old_head[t] + n < tail_ /\ item \in Items
      BY <1>7, <1>0, <1>a DEF Copy, Goto, ProgressInv
    <2>00. /\ loaded'[t] = Append(loaded[t], item)
           /\ \A u \in Threads \ {t} : loaded'[u] = loaded[u]
      BY <1>7 DEF Copy, TypeOK
    <2>000. /\ loaded'[t] \in Seq(Items) /\ Len(loaded'[t]) = n + 1
            /\ loaded'[t][n + 1] = item
            /\ \A j \in 1..n : loaded'[t][j] = loaded[t][j]
      BY <1>0, <2>0, <2>00, AppendProperties
    <2>1. TypeOK'
      <3>1. loaded' \in [Threads -> Seq(Items)]
        BY <1>7, <1>0, <2>00, <2>000 DEF Copy, TypeOK
      <3>2. next' \in [Items -> Items \cup {None}]
        BY <1>7, <2>0 DEF Copy, PushNode, TypeOK
      <3>3. QED
        BY <1>7, <3>1, <3>2 DEF Copy, TypeOK, Goto
    <2>2. ProgressInv'
      BY <1>7, <1>0, <2>0, <2>00, <2>000 DEF Copy, TypeOK, Goto, ProgressInv
    <2>3. LoadedInv'
      <3>1. old_head[t] = head_ => item = head_ + (n + 1)
        <4>1. old_head[t] + n \in Nat
          BY <1>0, <2>0
        <4>2. old_head[t] = head_ => old_head[t] + n \in head_..(tail_ - 1)
          BY <1>0, <2>0, <4>1
        <4>3. old_head[t] = head_ => item = old_head[t] + n + 1
          BY <4>2 DEF SlotInv
        <4>4. QED
          BY <1>0, <2>0, <4>3
      <3>2. old_head[t] = head_ => \A j \in 1..(n + 1) : loaded'[t][j] = head_ + j
        <4>1. old_head[t] = head_ => \A j \in 1..n : loaded[t][j] = head_ + j
          BY <1>7 DEF LoadedInv, Copy, Goto
        <4>2. \A j \in 1..(n + 1) : j \in 1..n \/ j = n + 1
          BY <2>0
        <4>3. QED
          BY <2>000, <3>1, <4>1, <4>2
      <3>3. QED
        BY <1>7, <1>0, <2>00, <2>000, <3>2 DEF Copy, TypeOK, Goto, LoadedInv
    <2>4. PositionInv' /\ SlotInv'
      BY <1>7, QuietStep DEF Copy
    <2>5. QED
      BY <2>1, <2>2, <2>3, <2>4
  <1>8. CASE Drain(t)
    <2>1. TypeOK'
      BY <1>8, <1>0, <1>00 DEF Drain, TypeOK, Goto
    <2>2. ProgressInv' /\ LoadedInv'
      BY <1>8, <1>0, <1>00 DEF Drain, TypeOK, Goto, ProgressInv, LoadedInv
    <2>3. PositionInv' /\ SlotInv'
      BY <1>8, QuietStep DEF Drain
    <2>4. QED
      BY <2>1, <2>2, <2>3
  <1>9. QED
    BY <1>1, <1>2, <1>3, <1>4, <1>5, <1>6, <1>7, <1>8 DEF PopCasFails, GrabCasFails

\* The CAS of head_ by n, which TryPop (1) and Grab (count) do.
LEMMA CasStep ==
    ASSUME IInv, NEW t \in Threads, NEW from, NEW n, NEW to, NEW kept \in Seq(Items),
           \/ from = "popCas" /\ n = 1 /\ to = "idle" /\ kept = << >>
           \/ from = "grabCas" /\ n = count[t] /\ to = "drain" /\ kept = loaded[t],
           CasHead(t, from, n, to), loaded' = [loaded EXCEPT ![t] = kept]
    PROVE  IInv'
  <1> USE RingAssumption DEF IInv
  <1>0. /\ head_ \in Nat /\ tail_ \in Nat /\ MaxPush \in Nat /\ n \in Nat
        /\ head_' = head_ + n /\ head_' <= tail_ /\ tail_ <= MaxPush /\ pc[t] = from
        /\ \A u \in Threads : old_head[u] \in Nat /\ loaded[u] \in Seq(Items)
    BY DEF TypeOK, CasHead, Goto, ProgressInv
  <1>1. TypeOK'
    <2>1. got[t] \o loaded[t] \in Seq(Items)
      BY <1>0, ConcatProperties DEF TypeOK
    <2>2. got' \in [Threads -> Seq(Items)]
      BY <2>1 DEF CasHead, TypeOK
    <2>3. head_' \in 0..MaxPush
      BY <1>0
    <2>4. loaded' \in [Threads -> Seq(Items)]
      BY <1>0 DEF TypeOK
    <2>5. QED
      BY <2>2, <2>3, <2>4 DEF CasHead, TypeOK, Goto
  <1>2. PositionInv'
    <2>1. Owner \in Threads
      BY DEF Threads
    <2>2. \A u \in Threads : pc'[u] \in {"store", "publish"} => pc[u] = pc'[u] /\ u # t
      BY DEF CasHead, TypeOK, Goto
    <2>3. tail_' = tail_ /\ head_' + Capacity >= head_ + Capacity
      BY <1>0 DEF CasHead
    <2>4. head_' <= tail_' /\ tail_' <= head_' + Capacity
      BY <1>0, <2>3 DEF PositionInv
    <2>5. pc'[Owner] \in {"store", "publish"} => tail_' < MaxPush /\ tail_' < head_' + Capacity
      BY <1>0, <2>1, <2>2, <2>3 DEF PositionInv
    <2>6. QED
      BY <2>2, <2>4, <2>5 DEF PositionInv
  <1>3. SlotInv'
    <2>1. \A i \in head_'..(tail_ - 1) : buffer_[Slot(i)] = i + 1
      BY <1>0 DEF SlotInv
    <2>2. pc'[Owner] = "publish" => pc[Owner] = "publish"
      BY DEF CasHead, TypeOK, Goto
    <2>3. QED
      BY <2>1, <2>2 DEF CasHead, SlotInv
  <1>4. ProgressInv'
    <2>1. \A u \in Threads : old_head'[u] <= head_'
      BY <1>0 DEF CasHead, ProgressInv
    <2>2. \A u \in Threads \ {t} : pc'[u] = pc[u] /\ loaded'[u] = loaded[u]
      BY DEF CasHead, TypeOK, Goto
    <2>3. pc'[t] \in {"idle", "drain"} /\ (pc'[t] = "idle" => loaded'[t] = << >>)
      BY DEF CasHead, TypeOK, Goto
    <2>4. QED
      BY <2>1, <2>2, <2>3 DEF CasHead, ProgressInv
  <1>5. LoadedInv'
    \* Where n is 0, head_ stays; else it leaves everybody's old_head behind.
    <2>1. CASE n = 0
      BY <1>0, <2>1 DEF CasHead, TypeOK, Goto, LoadedInv
    <2>2. CASE n # 0
      <3>1. \A u \in Threads : old_head'[u] # head_'
        BY <1>0, <2>2 DEF CasHead, ProgressInv
      <3>2. QED
        BY <3>1 DEF LoadedInv
    <2>3. QED
      BY <2>1, <2>2
  <1>6. QED
    BY <1>1, <1>2, <1>3, <1>4, <1>5

LEMMA ThreadStep ==
    ASSUME IInv, NEW t \in Threads, TryPop(t) \/ Grab(t) \/ Drain(t)
    PROVE  IInv'
  <1>1. << >> \in Seq(Items) /\ loaded[t] \in Seq(Items)
    BY DEF IInv, TypeOK
  <1>2. CASE PopCas(t)
    BY <1>1, <1>2, CasStep DEF PopCas
  <1>3. CASE GrabCas(t)
    <2>1. loaded' = [loaded EXCEPT ![t] = loaded[t]]
      BY <1>3 DEF GrabCas, IInv, TypeOK
    <2>2. QED
      BY <1>1, <1>3, <2>1, CasStep DEF GrabCas
  <1>4. QED
    BY <1>2, <1>3, TakingStep DEF TryPop, Grab

LEMMA NextIInv == IInv /\ [Next]_vars => IInv'
  <1>1. IInv /\ UNCHANGED vars => IInv'
    BY DEF IInv, vars, TypeOK, PositionInv, SlotInv, ProgressInv, LoadedInv
  <1>2. QED
    BY <1>1, TryPushStep, ThreadStep DEF Next

THEOREM Invariance == Spec => []IInv
  BY InitIInv, NextIInv, PTL DEF Spec

\* The variables always have their types; in particular no call returns a slot
\* that was never filled, and no position runs beyond the items pushed.
THEOREM TypeCorrect == Spec => []TypeOK
  <1>1. IInv => TypeOK
    BY DEF IInv
  <1>2. QED
    BY Invariance, <1>1, PTL

------------------------------------------------------------------------------
\* TryPop returns nullptr and Grab copies nothing only while the ring is empty,
\* although the head_ that they compare tail_ with is an old one: head_ cannot
\* have moved, or it would have passed tail_.
THEOREM NothingMeansEmptyHolds == Spec => NothingMeansEmpty
  <1>1. ASSUME IInv, [Next]_vars
        PROVE  [\A t \in Threads :
                   \/ pc[t] = "pop" /\ pc'[t] = "idle"
                   \/ pc[t] = "grab" /\ pc'[t] = "grabCas"
                   => head_ = tail_]_vars
    <2> SUFFICES ASSUME Next, NEW t \in Threads,
                        \/ pc[t] = "pop" /\ pc'[t] = "idle"
                        \/ pc[t] = "grab" /\ pc'[t] = "grabCas"
                 PROVE  head_ = tail_
      BY <1>1
    <2>1. head_ \in Nat /\ tail_ \in Nat /\ old_head[t] \in Nat /\ old_head[t] <= head_ /\ head_ <= tail_
      BY <1>1 DEF IInv, TypeOK, PositionInv, ProgressInv
    <2>2. PopLoadTail(t) \/ GrabLoadTail(t)
      <3>1. pc[t] \in {"pop", "grab"} /\ pc'[t] # pc[t]
        OBVIOUS
      <3>2. ASSUME NEW u \in Threads \ {t}, TryPop(u) \/ Grab(u) \/ Drain(u)
            PROVE  pc'[t] = pc[t]
        BY <1>1, <3>2 DEF IInv, TypeOK, TryPop, Grab, Drain, Goto, PopLoadHead, PopLoadTail,
           PopRead, PopCas, PopCasFails, CasHead, CasHeadFails, GrabLoadHead, GrabLoadTail,
           Copy, GrabCas, GrabCasFails
      <3>3. TryPush => pc'[t] = pc[t] \/ pc[t] \in {"idle", "store", "publish"}
        BY <1>1 DEF IInv, TypeOK, TryPush, PushBegin, Store, Publish, Goto
      <3>4. TryPop(t) \/ Grab(t) \/ Drain(t)
        BY <3>1, <3>2, <3>3 DEF Next
      <3>5. QED
        BY <1>1, <3>1, <3>4 DEF IInv, TypeOK, TryPop, Grab, Drain, Goto, PopLoadHead, PopRead,
           PopCas, PopCasFails, CasHead, CasHeadFails, GrabLoadHead, Copy, GrabCas, GrabCasFails
    <2>3. CASE PopLoadTail(t)
      BY <1>1, <2>1, <2>3 DEF PopLoadTail, Goto, IInv, TypeOK
    <2>4. CASE GrabLoadTail(t)
      <3>1. Min({tail_ - old_head[t], size[t]}) = 0
        BY <1>1, <2>4 DEF GrabLoadTail, Goto, IInv, TypeOK
      <3>2. size[t] \in Nat /\ tail_ - old_head[t] \in Nat
        BY <1>1, <2>1, SizesAreNumbers DEF IInv
      <3>3. tail_ - old_head[t] = 0 \/ size[t] = 0
        BY <3>1, <3>2, MinOfTwo
      <3>4. QED
        BY <1>1, <2>1, <2>4, <3>3 DEF IInv, ProgressInv, GrabLoadTail, Goto
    <2>5. QED
      BY <2>2, <2>3, <2>4
  <1>2. QED
    BY <1>1, Invariance, PTL DEF Spec, NothingMeansEmpty

------------------------------------------------------------------------------
\* The ring seen from outside: by SlotInv its items are numbered from head_ on.
View(first, end) == [i \in 1..(end - first) |-> first + i]

LEMMA ViewOfRing ==
    ASSUME NEW h \in 0..MaxPush, NEW t \in 0..MaxPush, h <= t, t <= h + Capacity,
           NEW buffer, \A i \in h..(t - 1) : buffer[Slot(i)] = i + 1
    PROVE  /\ [i \in 1..(t - h) |-> buffer[Slot(h + i - 1)]] = View(h, t)
           /\ View(h, t) \in Seq(Items)
           /\ Len(View(h, t)) = t - h /\ t - h \in 0..Capacity
  <1>1. h \in Nat /\ t \in Nat /\ Capacity \in Nat /\ MaxPush \in Nat
    BY RingAssumption
  <1>2. ASSUME NEW i \in 1..(t - h)
        PROVE  buffer[Slot(h + i - 1)] = h + i
    <2>1. h + i - 1 \in h..(t - 1)
      BY <1>1
    <2>2. buffer[Slot(h + i - 1)] = h + i - 1 + 1
      BY <2>1
    <2>3. QED
      BY <1>1, <2>2
  <1>3. \A i \in 1..(t - h) : h + i \in Items
    BY <1>1 DEF Items
  <1>4. View(h, t) \in Seq(Items) /\ Len(View(h, t)) = t - h
    BY <1>1, <1>3, IsASeq DEF View
  <1>5. QED
    BY <1>1, <1>2, <1>4 DEF View

LEMMA InRingIsView ==
    /\ IInv => InRing = View(head_, tail_)
    /\ IInv' => InRing' = View(head_', tail_')
  <1>1. ASSUME IInv PROVE InRing = View(head_, tail_)
    BY <1>1, ViewOfRing DEF IInv, TypeOK, PositionInv, SlotInv, InRing
  <1>2. ASSUME IInv' PROVE InRing' = View(head_', tail_')
    BY <1>2, ViewOfRing DEF IInv, TypeOK, PositionInv, SlotInv, InRing
  <1>3. QED
    BY <1>1, <1>2

\* A step that moves head_ by n takes the n oldest items.
LEMMA CasTakes ==
    ASSUME IInv, IInv', NEW t \in Threads, NEW from, NEW n, NEW to, CasHead(t, from, n, to),
           \/ from = "popCas" /\ n = 1
           \/ from = "grabCas" /\ n = count[t]
    PROVE  [Ring!Next]_(Ring!vars)
  <1> DEFINE items == View(head_, tail_)
  <1>0. /\ head_ \in 0..MaxPush /\ tail_ \in 0..MaxPush /\ MaxPush \in Nat
        /\ head_ <= tail_ /\ tail_ <= head_ + Capacity /\ Capacity \in Nat
        /\ \A i \in head_..(tail_ - 1) : buffer_[Slot(i)] = i + 1
    BY RingAssumption DEF IInv, TypeOK, PositionInv, SlotInv
  <1>00. /\ head_ \in Nat /\ tail_ \in Nat /\ MaxPush \in Nat /\ tail_ <= MaxPush
         /\ head_ <= tail_ /\ tail_ <= head_ + Capacity /\ Capacity \in Nat
    BY <1>0
  <1>1. /\ n \in Nat /\ head_ = old_head[t] /\ n <= tail_ - head_ /\ n <= Capacity
        /\ pc[t] = from /\ loaded[t] \in Seq(Items) /\ Len(loaded[t]) = n
    <2>1. pc[t] = from /\ head_ = old_head[t] /\ loaded[t] \in Seq(Items)
      BY DEF IInv, TypeOK, CasHead, Goto
    <2>2. n \in Nat /\ Len(loaded[t]) = n /\ n <= tail_ - head_
      <3>1. from = "popCas" => Len(loaded[t]) = 1 /\ head_ < tail_
        BY <2>1 DEF IInv, ProgressInv
      <3>2. from = "grabCas" => Len(loaded[t]) = count[t] /\ head_ + count[t] <= tail_
        BY <2>1 DEF IInv, ProgressInv
      <3>3. count[t] \in Nat
        BY <1>0 DEF IInv, TypeOK
      <3>4. head_ \in Nat /\ tail_ \in Nat
        BY <1>0
      <3>5. CASE from = "popCas" /\ n = 1
        BY <3>1, <3>4, <3>5
      <3>6. CASE from = "grabCas" /\ n = count[t]
        BY <3>2, <3>3, <3>4, <3>6
      <3>7. QED
        BY <3>5, <3>6
    <2>3. QED
      BY <1>0, <2>1, <2>2
  <1>2. /\ head_' = head_ + n /\ tail_' = tail_
        /\ got' = [got EXCEPT ![t] = @ \o loaded[t]]
    BY DEF CasHead
  <1>3. InRing = items /\ InRing' = View(head_ + n, tail_)
    BY <1>2, InRingIsView
  <1>4. items \in Seq(Items) /\ Len(items) = tail_ - head_
    BY <1>0, ViewOfRing
  <1>5. CASE n = 0
    <2>1. InRing' = InRing
      BY <1>0, <1>3, <1>5
    <2>2. got' = got
      <3>1. loaded[t] = << >>
        BY <1>1, <1>5, EmptySeq
      <3>2. got[t] \o << >> = got[t]
        BY ConcatEmptySeq DEF IInv, TypeOK
      <3>3. QED
        BY <1>2, <3>1, <3>2 DEF IInv, TypeOK
    <2>3. QED
      BY <2>1, <2>2 DEF Ring!vars
  <1>6. CASE n # 0
    <2>1. n \in 1..Capacity /\ n <= Len(items)
      BY <1>1, <1>4, <1>6
    <2>2. \A j \in 1..(tail_ - head_) : items[j] = head_ + j /\ items[j] \in Items
      BY <1>4, ElementOfSeq DEF View
    <2>3. loaded[t] = SubSeq(items, 1, n)
      <3>1. \A j \in 1..n : loaded[t][j] = head_ + j
        BY <1>1 DEF IInv, LoadedInv
      <3>2. \A j \in 1..n : items[j] \in Items /\ items[j] = head_ + j
        BY <1>0, <1>1, <2>2
      <3> HIDE DEF items
      <3>3. /\ SubSeq(items, 1, n) \in Seq(Items) /\ Len(SubSeq(items, 1, n)) = n
            /\ \A j \in 1..n : SubSeq(items, 1, n)[j] = items[j]
        BY <1>1, <1>6, <3>2, SubSeqProperties
      <3>4. QED
        BY <1>1, <3>1, <3>2, <3>3, SeqEqual
    <2>4. View(head_ + n, tail_) = SubSeq(items, n + 1, Len(items))
      <3> DEFINE rest == SubSeq(items, n + 1, Len(items))
                 m == tail_ - head_ - n
                 after == View(head_ + n, tail_)
      <3>0. m \in Nat /\ tail_ - (head_ + n) = m
        BY <1>0, <1>1
      <3>1. /\ rest \in Seq(Items) /\ Len(rest) = m
            /\ \A j \in 1..m : rest[j] = items[n + j]
        <4>1. \A j \in (n + 1)..Len(items) : items[j] \in Items
          BY <1>0, <1>1, <1>4, <2>2
        <4>2. Len(items) \in Int /\ n + 1 \in Int /\ Len(items) - (n + 1) + 1 = m
          BY <1>0, <1>1, <1>4
        <4>3. /\ rest \in Seq(Items)
              /\ Len(rest) = IF n + 1 <= Len(items) THEN Len(items) - (n + 1) + 1 ELSE 0
              /\ \A j \in 1..(Len(items) - (n + 1) + 1) : rest[j] = items[n + 1 + j - 1]
          <5> HIDE DEF items
          <5>1. QED
            BY <4>1, <4>2, SubSeqProperties
        <4>4. \A j \in 1..m : n + 1 + j - 1 = n + j
          BY <1>1
        <4>5. Len(rest) = m
          <5> HIDE DEF rest
          <5>1. QED
            BY <1>1, <3>0, <4>2, <4>3
        <4>6. \A j \in 1..m : rest[j] = items[n + j]
          BY <4>2, <4>3, <4>4
        <4>7. QED
          BY <4>3, <4>5, <4>6
      <3>2. \A j \in 1..m : items[n + j] = head_ + n + j
        <4>1. \A j \in 1..m : n + j \in 1..(tail_ - head_) /\ head_ + (n + j) = head_ + n + j
          BY <1>00, <1>1
        <4> HIDE DEF items
        <4>2. QED
          BY <4>1, <2>2
      <3>3. \A j \in 1..m : after[j] = head_ + n + j
        BY <3>0 DEF View
      <3>4. after \in Seq(Items) /\ Len(after) = m
        <4>1. \A i \in (head_ + n)..(tail_ - 1) : buffer_[Slot(i)] = i + 1
          BY <1>0, <1>1
        <4>2. head_ + n \in 0..MaxPush /\ head_ + n <= tail_ /\ tail_ <= (head_ + n) + Capacity
              /\ tail_ \in 0..MaxPush
          BY <1>00, <1>1
        <4>3. QED
          BY <3>0, <4>1, <4>2, ViewOfRing
      <3> HIDE DEF rest, after
      <3>5. after = rest
        BY <3>0, <3>1, <3>2, <3>3, <3>4, SeqEqual
      <3>6. QED
        BY <3>5 DEF rest, after
    <2>5. Ring!Take(t, n)
      BY <1>2, <1>3, <2>3, <2>4 DEF Ring!Take
    <2>6. QED
      BY <1>3, <2>1, <2>5 DEF Ring!Next
  <1>7. QED
    BY <1>5, <1>6

\* Publish appends an item, and there was room for it.
LEMMA PublishPushes == IInv /\ IInv' /\ Publish => Ring!Push
  <1> SUFFICES ASSUME IInv, IInv', Publish PROVE Ring!Push
    OBVIOUS
  <1> DEFINE items == View(head_, tail_)
  <1>1. /\ head_ \in 0..MaxPush /\ tail_ \in 0..MaxPush /\ MaxPush \in Nat
        /\ head_ <= tail_ /\ tail_ < head_ + Capacity /\ Capacity \in Nat /\ tail_ < MaxPush
        /\ \A i \in head_..(tail_ - 1) : buffer_[Slot(i)] = i + 1
        /\ \A i \in head_'..(tail_' - 1) : buffer_'[Slot(i)] = i + 1
        /\ head_' = head_ /\ tail_' = tail_ + 1 /\ got' = got
    BY RingAssumption DEF IInv, TypeOK, PositionInv, SlotInv, Publish, Goto
  <1>2. InRing = items /\ InRing' = View(head_, tail_ + 1)
    BY <1>1, InRingIsView
  <1>3. items \in Seq(Items) /\ Len(items) = tail_ - head_ /\ tail_ + 1 \in Items
    BY <1>1, ViewOfRing DEF Items
  <1>4. View(head_, tail_ + 1) = Append(items, tail_ + 1)
    <2> DEFINE more == Append(items, tail_ + 1)
               after == View(head_, tail_ + 1)
               m == tail_ - head_ + 1
    <2>0. m \in Nat /\ tail_ + 1 - head_ = m /\ head_ + m = tail_ + 1
      BY <1>1
    <2>1. /\ more \in Seq(Items) /\ Len(more) = m
          /\ \A j \in 1..(tail_ - head_) : more[j] = items[j]
          /\ more[m] = tail_ + 1
      BY <1>3, AppendProperties
    <2>2. \A j \in 1..(tail_ - head_) : items[j] = head_ + j
      BY DEF View
    <2>3. \A j \in 1..m : j \in 1..(tail_ - head_) \/ j = m
      BY <1>1
    <2>4. \A j \in 1..m : more[j] = head_ + j
      BY <2>0, <2>1, <2>2, <2>3
    <2>5. \A j \in 1..m : after[j] = head_ + j
      <3>1. View(head_, tail_ + 1) = [j \in 1..((tail_ + 1) - head_) |-> head_ + j]
        BY DEF View
      <3>2. (tail_ + 1) - head_ = m
        BY <1>1
      <3>3. after = [j \in 1..m |-> head_ + j]
        BY <3>1, <3>2
      <3> HIDE DEF m, after
      <3>4. QED
        BY <3>3
    <2>6. after \in Seq(Items) /\ Len(after) = m
      <3>1. tail_ + 1 \in 0..MaxPush /\ head_ <= tail_ + 1 /\ tail_ + 1 <= head_ + Capacity
        BY <1>1
      <3>2. \A i \in head_..(tail_ + 1 - 1) : buffer_'[Slot(i)] = i + 1
        BY <1>1
      <3>3. QED
        BY <1>1, <2>0, <3>1, <3>2, ViewOfRing
    <2> HIDE DEF more, after
    <2>7. after = more
      BY <2>1, <2>4, <2>5, <2>6, SeqEqual
    <2>8. QED
      BY <2>7 DEF more, after
  <1>5. Len(items) < Capacity
    BY <1>1, <1>3
  <1>6. QED
    BY <1>1, <1>2, <1>3, <1>4, <1>5 DEF Ring!Push

\* Every other step leaves the items in the ring and those returned alone.
LEMMA StutterStep ==
    ASSUME IInv, IInv', UNCHANGED <<head_, tail_, got>>
    PROVE  UNCHANGED Ring!vars
  BY InRingIsView DEF Ring!vars

\* The ring is a bounded FIFO for any number of threads that take from it: no
\* item in it is overwritten, lost, or returned twice or out of order.
THEOREM RingIsBoundedFifo == Spec => ImplementsBoundedFifo
  <1>1. Init => Ring!Init
    <2>1. Init => InRing = << >>
      BY DEF Init, InRing
    <2>2. QED
      BY <2>1 DEF Init, Ring!Init
  <1>2. IInv /\ IInv' /\ [Next]_vars => [Ring!Next]_(Ring!vars)
    <2> SUFFICES ASSUME IInv, IInv', [Next]_vars PROVE [Ring!Next]_(Ring!vars)
      OBVIOUS
    <2>1. CASE UNCHANGED vars
      BY <2>1, StutterStep DEF vars
    <2>2. CASE TryPush
      <3>1. PushBegin \/ Store => UNCHANGED <<head_, tail_, got>>
        BY DEF PushBegin, Store
      <3>2. QED
        BY <2>2, <3>1, StutterStep, PublishPushes DEF TryPush, Ring!Next
    <2>3. ASSUME NEW t \in Threads, TryPop(t) \/ Grab(t) \/ Drain(t)
          PROVE  [Ring!Next]_(Ring!vars)
      <3>1. CASE PopCas(t)
        BY <3>1, CasTakes DEF PopCas
      <3>2. CASE GrabCas(t)
        BY <3>2, CasTakes DEF GrabCas
      <3>3. CASE ~PopCas(t) /\ ~GrabCas(t)
        <4>1. UNCHANGED <<head_, tail_, got>>
          BY <2>3, <3>3 DEF TryPop, Grab, Drain, PopLoadHead, PopLoadTail, PopRead,
             PopCasFails, CasHeadFails, GrabLoadHead, GrabLoadTail, Copy, GrabCasFails
        <4>2. QED
          BY <4>1, StutterStep
      <3>4. QED
        BY <3>1, <3>2, <3>3
    <2>4. QED
      BY <2>1, <2>2, <2>3 DEF Next
  <1>3. QED
    BY <1>1, <1>2, Invariance, PTL DEF Spec, ImplementsBoundedFifo, Ring!Spec
=============================================================================
