----------------------------- MODULE StrandProofs -----------------------------
(***************************************************************************)
(* Proofs about Executors::Strand for any sets of threads and routines and *)
(* whatever the clients and the routines submit: the strand has one owner, *)
(* and it implements SerialExecutor.                                       *)
(*                                                                         *)
(* The right to run the strand is a token: whoever pushes onto nullptr     *)
(* makes it, Lock carries it into the underlying executor, a worker takes  *)
(* it out, and Open destroys it.  The inductive invariant says that the    *)
(* token exists exactly while stack_head_ is not nullptr, that there is    *)
(* one, and that batch_ and queue are empty when they are not in its care. *)
(***************************************************************************)
EXTENDS Strand, FiniteSetTheorems, TLAPS

\* Actor a holds the right to the strand: Owners as a predicate.
Owns(a) == \/ pc[a] \in {"lock", "close", "hand"}
           \/ a \in Workers /\ (pc[a] \in {"batch", "unlock"} \/ current[a] # Null)

\* There is at most one owner, and none while the batch waits to be run.
OwnerInv ==
    /\ handed \in {0, 1}
    /\ \A a, b \in Actors : Owns(a) /\ Owns(b) => a = b
    /\ \A a \in Actors : Owns(a) => handed = 0

\* stack_head_ is nullptr exactly while nobody owns the strand.
HeadInv ==
    /\ stack_head_ = Null => handed = 0 /\ \A a \in Actors : ~Owns(a)
    /\ stack_head_ # Null => handed = 1 \/ \E a \in Actors : Owns(a)

\* Where clients can be; a worker has a current routine while that runs.
PlaceInv ==
    /\ \A c \in Clients : pc[c] \in {"idle", "push", "lock", "close", "hand"}
    /\ \A w \in Workers : pc[w] \in {"running", "push"} <=> current[w] # Null
    /\ \A a \in Actors : pc[a] = "push" => todo[a] # << >>

\* Lock's queue is empty but before it is handed over, and batch_ is empty
\* but from then on until its last routine has been popped.
BatchInv ==
    /\ \A a \in Actors : pc[a] # "hand" => queue[a] = << >>
    /\ batch_ # << >> => \/ handed = 1
                         \/ \E w \in Workers : pc[w] = "batch" \/ current[w] # Null

IInv == TypeOK /\ OwnerInv /\ HeadInv /\ PlaceInv /\ BatchInv

------------------------------------------------------------------------------
\* What a push does to a sequence whose top comes first.
LEMMA PushTop ==
    ASSUME NEW S, NEW r \in S, NEW s \in Seq(S)
    PROVE  /\ << r >> \o s \in Seq(S)
           /\ << r >> \o s # << >>
           /\ Head(<< r >> \o s) = r
  OBVIOUS

LEMMA ReverseSeq ==
    ASSUME NEW S, NEW s \in Seq(S)
    PROVE  Reverse(s) \in Seq(S)
  BY DEF Reverse

\* stack_head_ is a routine, unless the stack is empty.
LEMMA StackHead ==
    ASSUME TypeOK
    PROVE  /\ stack_head_ \in Routines \cup {Null, Closed}
           /\ stack_head_ = Null <=> stack = << >> /\ base = Null
           /\ stack_head_ = Closed <=> stack = << >> /\ base = Closed
  <1>1. stack # << >> => Head(stack) \in Routines
    BY DEF TypeOK
  <1>2. QED
    BY <1>1, StrandAssumption DEF TypeOK, stack_head_

LEMMA InitIInv == Init => IInv
  <1> SUFFICES ASSUME Init PROVE IInv
    OBVIOUS
  <1>1. TypeOK
    BY StrandAssumption DEF Init, TypeOK, Actors
  <1>2. OwnerInv
    BY DEF Init, OwnerInv, Owns, Actors
  <1>3. HeadInv
    BY StrandAssumption DEF Init, HeadInv, Owns, stack_head_, Actors
  <1>4. PlaceInv
    BY DEF Init, PlaceInv, Actors
  <1>5. BatchInv
    BY DEF Init, BatchInv
  <1>6. QED
    BY <1>1, <1>2, <1>3, <1>4, <1>5 DEF IInv

\* Execute and the steps of its push.
LEMMA PushStep ==
    ASSUME IInv, NEW a \in Actors, Execute(a) \/ Push(a) \/ PushFails(a)
    PROVE  IInv'
  <1>1. CASE Execute(a)
    <2>1. TypeOK'
      BY <1>1, StackHead DEF IInv, TypeOK, Execute, Goto
    <2>2. stack_head_' = stack_head_ /\ \A b \in Actors : Owns(b)' = Owns(b)
      BY <1>1 DEF IInv, TypeOK, Execute, Goto, Caller, Owns, stack_head_
    <2>3. OwnerInv' /\ HeadInv'
      BY <1>1, <2>2 DEF IInv, OwnerInv, HeadInv, Execute
    <2>4. PlaceInv'
      BY <1>1 DEF IInv, TypeOK, PlaceInv, Execute, Goto, Caller, Actors
    <2>5. BatchInv'
      BY <1>1 DEF IInv, TypeOK, BatchInv, Execute, Goto, Caller
    <2>6. QED
      BY <2>1, <2>3, <2>4, <2>5 DEF IInv
  <1>2. CASE Push(a)
    <2> DEFINE r == Head(todo[a])
    <2>1. r \in Routines /\ Tail(todo[a]) \in Seq(Routines)
      BY <1>2 DEF IInv, TypeOK, PlaceInv, Push, Goto
    <2>2. /\ stack' \in Seq(Routines) /\ stack' # << >> /\ Head(stack') = r
      BY <1>2, <2>1, PushTop DEF IInv, TypeOK, Push
    <2>3. TypeOK'
      BY <1>2, <2>1, <2>2 DEF IInv, TypeOK, Push, Goto, Caller
    <2>4. stack_head_' # Null
      BY <2>1, <2>2, StrandAssumption DEF stack_head_
    <2>5. PlaceInv'
      <3>1. a \in Workers => current[a] # Null /\ stack_head_ # Null
        BY <1>2 DEF IInv, PlaceInv, HeadInv, Owns, Push, Goto
      <3>2. a \in Workers => pc'[a] = "running"
        BY <1>2, <3>1 DEF IInv, TypeOK, Push, Goto, Caller
      <3>3. a \in Clients => pc'[a] \in {"lock", "idle"}
        BY <1>2, StrandAssumption DEF IInv, TypeOK, Push, Goto, Caller
      <3>4. pc'[a] # "push" /\ \A b \in Actors : b # a => pc'[b] = pc[b]
                                                       /\ todo'[b] = todo[b]
        BY <1>2 DEF IInv, TypeOK, Push, Goto, Caller
      <3>5. QED
        BY <1>2, <3>1, <3>2, <3>3, <3>4 DEF IInv, PlaceInv, Push, Actors
    <2>6. \A b \in Actors : b # a => Owns(b)' = Owns(b)
      BY <1>2 DEF IInv, TypeOK, Push, Goto, Owns
    <2>7. Owns(a)' <=> Owns(a) \/ result[a] = Null
      BY <1>2 DEF IInv, TypeOK, Push, Goto, Owns, Caller
    <2>8. OwnerInv'
      BY <1>2, <2>6, <2>7 DEF IInv, OwnerInv, HeadInv, Push
    <2>9. HeadInv'
      BY <1>2, <2>4, <2>6, <2>7 DEF IInv, HeadInv, Push
    <2>10. BatchInv'
      BY <1>2 DEF IInv, TypeOK, BatchInv, Push, Goto
    <2>11. QED
      BY <2>3, <2>5, <2>8, <2>9, <2>10 DEF IInv
  <1>3. CASE PushFails(a)
    <2>1. TypeOK'
      BY <1>3, StackHead DEF IInv, TypeOK, PushFails
    <2>2. stack_head_' = stack_head_ /\ \A b \in Actors : Owns(b)' = Owns(b)
      BY <1>3 DEF PushFails, Owns, stack_head_
    <2>3. QED
      BY <1>3, <2>1, <2>2 DEF IInv, OwnerInv, HeadInv, PlaceInv, BatchInv, PushFails
  <1>4. QED
    BY <1>1, <1>2, <1>3

\* The steps of Lock.
LEMMA LockStep ==
    ASSUME IInv, NEW a \in Actors,
           LockLoad(a) \/ Close(a) \/ CloseFails(a) \/ Hand(a)
    PROVE  IInv'
  <1>1. CASE LockLoad(a) \/ CloseFails(a)
    <2>1. TypeOK'
      BY <1>1, StackHead DEF IInv, TypeOK, LockLoad, CloseFails, Goto
    <2>2. stack_head_' = stack_head_ /\ \A b \in Actors : Owns(b)' = Owns(b)
      BY <1>1 DEF IInv, TypeOK, LockLoad, CloseFails, Goto, Owns, stack_head_
    <2>3. OwnerInv' /\ HeadInv'
      BY <1>1, <2>2 DEF IInv, OwnerInv, HeadInv, LockLoad, CloseFails
    <2>4. PlaceInv'
      BY <1>1 DEF IInv, TypeOK, PlaceInv, LockLoad, CloseFails, Goto, Actors
    <2>5. BatchInv'
      BY <1>1 DEF IInv, TypeOK, BatchInv, LockLoad, CloseFails, Goto, Actors
    <2>6. QED
      BY <2>1, <2>3, <2>4, <2>5 DEF IInv
  <1>2. CASE Close(a)
    <2>1. TypeOK'
      BY <1>2, ReverseSeq DEF IInv, TypeOK, Close, Goto
    <2>2. \A b \in Actors : Owns(b)' = Owns(b)
      BY <1>2 DEF IInv, TypeOK, Close, Goto, Owns
    <2>3. OwnerInv'
      BY <1>2, <2>2 DEF IInv, OwnerInv, Close
    <2>4. stack_head_' # Null /\ Owns(a)'
      BY <1>2, <2>2, StrandAssumption DEF Close, Goto, Owns, stack_head_
    <2>5. HeadInv'
      BY <2>4 DEF HeadInv
    <2>6. PlaceInv'
      BY <1>2 DEF IInv, TypeOK, PlaceInv, Close, Goto, Actors
    <2>7. BatchInv'
      BY <1>2 DEF IInv, TypeOK, BatchInv, Close, Goto, Actors
    <2>8. QED
      BY <2>1, <2>3, <2>5, <2>6, <2>7 DEF IInv
  <1>3. CASE Hand(a)
    <2>1. a \in Workers => current[a] = Null
      BY <1>3 DEF IInv, PlaceInv, Hand, Goto
    <2>2. pc' = [pc EXCEPT ![a] = "idle"]
      BY <1>3, <2>1, StrandAssumption DEF Hand, Goto, Caller, Actors
    <2>3. Owns(a) /\ handed = 0
      BY <1>3 DEF IInv, OwnerInv, Owns, Hand, Goto
    <2>4. TypeOK'
      BY <1>3, <2>2 DEF IInv, TypeOK, Hand
    <2>5. \A b \in Actors : ~Owns(b)'
      BY <1>3, <2>1, <2>2, <2>3 DEF IInv, TypeOK, OwnerInv, Hand, Owns
    <2>6. handed' = 1 /\ stack_head_' = stack_head_ /\ stack_head_ # Null
      BY <1>3, <2>3 DEF IInv, HeadInv, Hand, stack_head_
    <2>7. OwnerInv' /\ HeadInv'
      BY <2>5, <2>6 DEF OwnerInv, HeadInv
    <2>8. PlaceInv'
      BY <1>3, <2>1, <2>2 DEF IInv, TypeOK, PlaceInv, Hand, Actors
    <2>9. BatchInv'
      BY <1>3, <2>2, <2>6 DEF IInv, TypeOK, BatchInv, Hand
    <2>10. QED
      BY <2>4, <2>7, <2>8, <2>9 DEF IInv
  <1>4. QED
    BY <1>1, <1>2, <1>3

\* The steps of the underlying executor and of TasksBatch::Run.
LEMMA BatchStep ==
    ASSUME IInv, NEW w \in Workers,
           Take(w) \/ RunNext(w) \/ Finish(w) \/ BatchEnds(w)
    PROVE  IInv'
  <1>0. w \in Actors /\ w \notin Clients
    BY StrandAssumption DEF Actors
  <1>1. stack_head_' = stack_head_
    BY DEF Take, RunNext, Finish, BatchEnds, stack_head_
  <1>2. CASE Take(w)
    <2>1. handed = 1 /\ handed' = 0 /\ \A b \in Actors : ~Owns(b)
      BY <1>2 DEF IInv, OwnerInv, Take
    <2>2. TypeOK'
      BY <1>0, <1>2, <2>1 DEF IInv, TypeOK, Take, Goto
    <2>3. \A b \in Actors : Owns(b)' <=> b = w
      BY <1>0, <1>2, <2>1 DEF IInv, TypeOK, Take, Goto, Owns
    <2>4. OwnerInv' /\ HeadInv'
      BY <1>0, <1>1, <2>1, <2>3 DEF IInv, OwnerInv, HeadInv
    <2>5. PlaceInv'
      BY <1>0, <1>2 DEF IInv, TypeOK, PlaceInv, Take, Goto, Actors
    <2>6. BatchInv'
      BY <1>0, <1>2 DEF IInv, TypeOK, BatchInv, Take, Goto
    <2>7. QED
      BY <2>2, <2>4, <2>5, <2>6 DEF IInv
  <1>3. CASE RunNext(w)
    <2>1. Head(batch_) \in Routines /\ Tail(batch_) \in Seq(Routines)
      BY <1>3 DEF IInv, TypeOK, RunNext
    <2>2. TypeOK'
      BY <1>0, <1>3, <2>1, StrandAssumption DEF IInv, TypeOK, RunNext, Goto
    <2>3. current'[w] # Null /\ \A v \in Workers : v # w => current'[v] = current[v]
      BY <1>3, <2>1, StrandAssumption DEF IInv, TypeOK, RunNext
    <2>4. \A b \in Actors : Owns(b)' = Owns(b)
      BY <1>0, <1>3, <2>3 DEF IInv, TypeOK, RunNext, Goto, Owns
    <2>5. OwnerInv' /\ HeadInv'
      BY <1>1, <1>3, <2>4 DEF IInv, OwnerInv, HeadInv, RunNext
    <2>6. PlaceInv'
      BY <1>0, <1>3, <2>3 DEF IInv, TypeOK, PlaceInv, RunNext, Goto, Actors
    <2>7. BatchInv'
      BY <1>0, <1>3, <2>3 DEF IInv, TypeOK, BatchInv, RunNext, Goto
    <2>8. QED
      BY <2>2, <2>5, <2>6, <2>7 DEF IInv
  <1>4. CASE Finish(w)
    <2>1. current[w] \in Routines
      BY <1>4 DEF IInv, TypeOK, PlaceInv, Finish, Goto
    <2>2. TypeOK'
      BY <1>0, <1>4, <2>1 DEF IInv, TypeOK, Finish, Goto
    <2>3. current'[w] = Null /\ \A v \in Workers : v # w => current'[v] = current[v]
      BY <1>4 DEF IInv, TypeOK, Finish
    <2>4. \A b \in Actors : Owns(b)' = Owns(b)
      BY <1>0, <1>4, <2>1, <2>3, StrandAssumption
         DEF IInv, TypeOK, Finish, Goto, Owns
    <2>5. OwnerInv' /\ HeadInv'
      BY <1>1, <1>4, <2>4 DEF IInv, OwnerInv, HeadInv, Finish
    <2>6. PlaceInv'
      BY <1>0, <1>4, <2>3 DEF IInv, TypeOK, PlaceInv, Finish, Goto, Actors
    <2>7. BatchInv'
      BY <1>0, <1>4, <2>3 DEF IInv, TypeOK, BatchInv, Finish, Goto
    <2>8. QED
      BY <2>2, <2>5, <2>6, <2>7 DEF IInv
  <1>5. CASE BatchEnds(w)
    <2>1. TypeOK'
      BY <1>0, <1>5 DEF IInv, TypeOK, BatchEnds, Goto
    <2>2. \A b \in Actors : Owns(b)' = Owns(b)
      BY <1>0, <1>5 DEF IInv, TypeOK, BatchEnds, Goto, Owns
    <2>3. OwnerInv' /\ HeadInv'
      BY <1>1, <1>5, <2>2 DEF IInv, OwnerInv, HeadInv, BatchEnds
    <2>4. PlaceInv'
      BY <1>0, <1>5 DEF IInv, TypeOK, PlaceInv, BatchEnds, Goto, Actors
    <2>5. BatchInv'
      BY <1>0, <1>5 DEF IInv, TypeOK, BatchInv, BatchEnds, Goto
    <2>6. QED
      BY <2>1, <2>3, <2>4, <2>5 DEF IInv
  <1>6. QED
    BY <1>2, <1>3, <1>4, <1>5

\* The two outcomes of Unlock.
LEMMA UnlockStep ==
    ASSUME IInv, NEW w \in Workers, Open(w) \/ OpenFails(w)
    PROVE  IInv'
  <1>1. w \in Actors /\ w \notin Clients /\ current[w] = Null /\ Owns(w)
    BY StrandAssumption DEF IInv, PlaceInv, Open, OpenFails, Goto, Owns, Actors
  <1>2. handed = 0 /\ \A b \in Actors : Owns(b) => b = w
    BY <1>1 DEF IInv, OwnerInv
  <1>3. CASE Open(w)
    <2>1. TypeOK'
      BY <1>1, <1>3 DEF IInv, TypeOK, Open, Goto
    <2>2. \A b \in Actors : ~Owns(b)'
      BY <1>1, <1>2, <1>3 DEF IInv, TypeOK, Open, Goto, Owns
    <2>3. stack_head_' = Null
      BY <1>3, StackHead DEF IInv, Open, stack_head_
    <2>4. OwnerInv' /\ HeadInv'
      BY <1>2, <1>3, <2>2, <2>3 DEF OwnerInv, HeadInv, Open
    <2>5. PlaceInv'
      BY <1>1, <1>3 DEF IInv, TypeOK, PlaceInv, Open, Goto, Actors
    <2>6. batch_ = << >>
      BY <1>1, <1>2, <1>3 DEF IInv, BatchInv, Open, Goto, Owns, Actors
    <2>7. BatchInv'
      BY <1>1, <1>3, <2>6 DEF IInv, TypeOK, BatchInv, Open, Goto
    <2>8. QED
      BY <2>1, <2>4, <2>5, <2>7 DEF IInv
  <1>4. CASE OpenFails(w)
    <2>1. TypeOK'
      BY <1>1, <1>4 DEF IInv, TypeOK, OpenFails, Goto
    <2>2. stack_head_' = stack_head_ /\ \A b \in Actors : Owns(b)' = Owns(b)
      BY <1>1, <1>4 DEF IInv, TypeOK, OpenFails, Goto, Owns, stack_head_
    <2>3. OwnerInv' /\ HeadInv'
      BY <1>4, <2>2 DEF IInv, OwnerInv, HeadInv, OpenFails
    <2>4. PlaceInv'
      BY <1>1, <1>4 DEF IInv, TypeOK, PlaceInv, OpenFails, Goto, Actors
    <2>5. BatchInv'
      BY <1>1, <1>4 DEF IInv, TypeOK, BatchInv, OpenFails, Goto
    <2>6. QED
      BY <2>1, <2>3, <2>4, <2>5 DEF IInv
  <1>5. QED
    BY <1>3, <1>4

LEMMA NextIInv == IInv /\ [Next]_vars => IInv'
  <1> SUFFICES ASSUME IInv, [Next]_vars PROVE IInv'
    OBVIOUS
  <1>1. CASE UNCHANGED vars
    BY <1>1 DEF IInv, TypeOK, OwnerInv, HeadInv, PlaceInv, BatchInv, Owns,
                stack_head_, vars
  <1>2. ASSUME NEW a \in Actors, Submitting(a) PROVE IInv'
    BY <1>2, PushStep, LockStep DEF Submitting
  <1>3. ASSUME NEW w \in Workers, Running(w) PROVE IInv'
    BY <1>3, BatchStep, UnlockStep DEF Running
  <1>4. QED
    BY <1>1, <1>2, <1>3 DEF Next

LEMMA Invariance == Spec => []IInv
  BY InitIInv, NextIInv, PTL DEF Spec
------------------------------------------------------------------------------
\* The variables have their types, for any threads, routines and scripts.
THEOREM TypeCorrect == Spec => []TypeOK
  <1>1. IInv => TypeOK
    BY DEF IInv
  <1>2. QED
    BY <1>1, Invariance, PTL

\* The strand has one owner exactly while stack_head_ is not nullptr: Lock is
\* never entered twice and batch_ is never handed over while it is in use.
THEOREM StrandHasOneOwner == Spec => []OneOwner
  <1>1. IInv => OneOwner
    <2> SUFFICES ASSUME IInv PROVE OneOwner
      OBVIOUS
    <2>1. Locking \cup InBatch = {a \in Actors : Owns(a)}
      BY DEF Locking, InBatch, Owns, Actors
    <2>2. ASSUME NEW a \in Actors, Owns(a) PROVE OneOwner
      <3>1. Locking \cup InBatch = {a}
        BY <2>1, <2>2 DEF IInv, OwnerInv
      <3>2. handed = 0 /\ stack_head_ # Null
        BY <2>2 DEF IInv, OwnerInv, HeadInv
      <3>3. Cardinality({a}) = 1
        BY FS_Singleton
      <3>4. QED
        BY <3>1, <3>2, <3>3 DEF OneOwner
    <2>3. CASE \A a \in Actors : ~Owns(a)
      <3>1. Locking \cup InBatch = {}
        BY <2>1, <2>3
      <3>2. handed = IF stack_head_ = Null THEN 0 ELSE 1
        BY <2>3 DEF IInv, OwnerInv, HeadInv
      <3>3. Cardinality({}) = 0
        BY FS_EmptySet
      <3>4. QED
        BY <3>1, <3>2, <3>3 DEF OneOwner
    <2>4. QED
      BY <2>2, <2>3
  <1>2. QED
    BY <1>1, Invariance, PTL
------------------------------------------------------------------------------
\* Facts about the queue that refines SerialExecutor's: batch, then Lock's
\* queue, then the stack from its bottom to its top.
LEMMA ConcatEmpty ==
    ASSUME NEW S, NEW s \in Seq(S)
    PROVE  s \o << >> = s /\ << >> \o s = s
  OBVIOUS

LEMMA ConcatAppend ==
    ASSUME NEW S, NEW s \in Seq(S), NEW t \in Seq(S), NEW x \in S
    PROVE  s \o Append(t, x) = Append(s \o t, x)
  OBVIOUS

LEMMA ConcatHeadTail ==
    ASSUME NEW S, NEW s \in Seq(S), NEW t \in Seq(S), s # << >>
    PROVE  /\ s \o t # << >>
           /\ Head(s \o t) = Head(s)
           /\ Tail(s \o t) = Tail(s) \o t
  OBVIOUS

\* The routine pushed last is the last to run.
LEMMA ReversePush ==
    ASSUME NEW S, NEW s \in Seq(S), NEW r \in S
    PROVE  Reverse(<< r >> \o s) = Append(Reverse(s), r)
  BY DEF Reverse

LEMMA ReverseEmpty == Reverse(<< >>) = << >>
  BY DEF Reverse

\* Locked is the queue of the actor that is about to hand it over, if any.
LockedIn(q) == IF \E a \in Actors : q[a] # << >>
               THEN q[CHOOSE a \in Actors : q[a] # << >>] ELSE << >>

LEMMA LockedByNone ==
    ASSUME NEW q, \A a \in Actors : q[a] = << >>
    PROVE  LockedIn(q) = << >>
  BY DEF LockedIn

LEMMA LockedByOne ==
    ASSUME NEW q, NEW a \in Actors, \A b \in Actors : b # a => q[b] = << >>
    PROVE  LockedIn(q) = q[a]
  BY DEF LockedIn

\* What SerialExecutor sees of the strand.
Queue == batch_ \o Locked \o Reverse(stack)
Current == {current[w] : w \in Workers} \ {Null}

\* While an actor is in Lock nothing is left of the last batch; before it has
\* closed the stack nobody has a queue.
LEMMA InLock ==
    ASSUME IInv, NEW a \in Actors, pc[a] \in {"lock", "close", "hand"}
    PROVE  /\ batch_ = << >>
           /\ \A b \in Actors : b # a => queue[b] = << >>
           /\ pc[a] # "hand" => queue[a] = << >>
  <1>1. Owns(a) /\ handed = 0 /\ \A b \in Actors : Owns(b) => b = a
    BY DEF IInv, OwnerInv, Owns
  <1>2. \A b \in Actors : b # a => pc[b] # "hand"
    BY <1>1 DEF Owns
  <1>3. \A w \in Workers : pc[w] # "batch" /\ current[w] = Null
    BY <1>1 DEF Owns, IInv, PlaceInv, Actors
  <1>4. QED
    BY <1>1, <1>2, <1>3 DEF IInv, BatchInv

\* A push submits the routine to SerialExecutor.
LEMMA PushSubmits ==
    ASSUME IInv, NEW a \in Actors, Push(a)
    PROVE  /\ Head(todo[a]) \in Routines
           /\ Queue' = Append(Queue, Head(todo[a]))
           /\ UNCHANGED <<Current, done>>
  <1>1. Head(todo[a]) \in Routines
    BY DEF IInv, TypeOK, PlaceInv, Push, Goto
  <1>2. stack \in Seq(Routines) /\ Reverse(stack) \in Seq(Routines)
    BY ReverseSeq DEF IInv, TypeOK
  <1>3. Reverse(stack') = Append(Reverse(stack), Head(todo[a]))
    BY <1>1, <1>2, ReversePush DEF Push
  <1>4. batch_ \o Locked \in Seq(Routines)
    BY DEF IInv, TypeOK, Locked
  <1>5. batch_' = batch_ /\ Locked' = Locked
    BY DEF Push, Locked
  <1>6. Queue' = (batch_ \o Locked) \o Append(Reverse(stack), Head(todo[a]))
    BY <1>3, <1>5 DEF Queue
  <1>7. Queue' = Append(Queue, Head(todo[a]))
    BY <1>1, <1>2, <1>4, <1>6, ConcatAppend DEF Queue
  <1>8. UNCHANGED <<Current, done>>
    BY DEF Current, Push
  <1>9. QED
    BY <1>1, <1>7, <1>8

\* Closing the stack and handing the batch over move the routines on, in
\* their order.
LEMMA LockMovesOn ==
    ASSUME IInv, NEW a \in Actors, Close(a) \/ Hand(a)
    PROVE  UNCHANGED <<Queue, Current, done>>
  <1>1. /\ Reverse(stack) \in Seq(Routines) /\ queue[a] \in Seq(Routines)
        /\ << >> \in Seq(Routines)
    BY ReverseSeq DEF IInv, TypeOK
  <1>2. /\ batch_ = << >> /\ Locked = queue[a]
        /\ \A b \in Actors : b # a => queue[b] = << >>
    BY InLock, LockedByOne DEF Close, Hand, Goto, Locked, LockedIn
  <1>3. UNCHANGED <<Current, done>>
    BY DEF Close, Hand, Current
  <1>4. CASE Close(a)
    <2>1. queue[a] = << >>
      BY <1>4, InLock DEF Close, Goto
    <2>2. queue' = [queue EXCEPT ![a] = Reverse(stack)]
      BY <1>4 DEF Close
    <2>3. queue'[a] = Reverse(stack) /\ \A b \in Actors : b # a => queue'[b] = << >>
      BY <1>2, <2>2 DEF IInv, TypeOK
    <2>4. Locked' = Reverse(stack)
      BY <2>3, LockedByOne DEF Locked, LockedIn
    <2>5. batch_' = << >> /\ stack' = << >>
      BY <1>2, <1>4 DEF Close
    <2>6. Queue = << >> \o << >> \o Reverse(stack)
      BY <1>2, <2>1 DEF Queue
    <2>7. Queue' = << >> \o Reverse(stack) \o << >>
      BY <2>4, <2>5, ReverseEmpty DEF Queue
    <2>8. QED
      BY <1>1, <1>3, <2>6, <2>7, ConcatEmpty
  <1>5. CASE Hand(a)
    <2>1. batch_' = queue[a] /\ stack' = stack
          /\ queue' = [queue EXCEPT ![a] = << >>]
      BY <1>5 DEF Hand
    <2>2. \A b \in Actors : queue'[b] = << >>
      BY <1>2, <2>1 DEF IInv, TypeOK
    <2>3. Locked' = << >>
      BY <2>2, LockedByNone DEF Locked, LockedIn
    <2>4. Queue' = queue[a] \o << >> \o Reverse(stack)
      BY <2>1, <2>3 DEF Queue
    <2>5. Queue = << >> \o queue[a] \o Reverse(stack)
      BY <1>2 DEF Queue
    <2>6. QED
      BY <1>1, <1>3, <2>4, <2>5, ConcatEmpty
  <1>6. QED
    BY <1>4, <1>5

\* The owner pops a routine, which SerialExecutor starts.
LEMMA RunStarts ==
    ASSUME IInv, NEW w \in Workers, RunNext(w)
    PROVE  /\ Queue # << >> /\ Queue' = Tail(Queue)
           /\ Current = {} /\ Current' = {Head(Queue)}
           /\ UNCHANGED done
  <1>1. /\ batch_ \in Seq(Routines) /\ batch_ # << >>
        /\ Locked \in Seq(Routines) /\ Reverse(stack) \in Seq(Routines)
    BY ReverseSeq DEF IInv, TypeOK, RunNext, Locked
  <1>2. Locked \o Reverse(stack) \in Seq(Routines)
    BY <1>1
  <1>3. /\ Queue = batch_ \o (Locked \o Reverse(stack))
        /\ Tail(batch_) \o Locked \o Reverse(stack)
               = Tail(batch_) \o (Locked \o Reverse(stack))
    BY <1>1 DEF Queue
  <1>4. Queue' = Tail(batch_) \o Locked \o Reverse(stack)
    BY DEF Queue, RunNext, Locked
  <1>5. /\ Queue # << >> /\ Head(Queue) = Head(batch_)
        /\ Tail(Queue) = Tail(batch_) \o (Locked \o Reverse(stack))
    BY <1>1, <1>2, <1>3, ConcatHeadTail
  <1>6. Owns(w) /\ current[w] = Null
    BY DEF IInv, PlaceInv, RunNext, Goto, Owns
  <1>7. \A v \in Workers : current[v] = Null
    BY <1>6 DEF IInv, OwnerInv, Owns, Actors
  <1>8. Head(batch_) \in Routines
    BY <1>1
  <1>9. Current = {}
    BY <1>7 DEF Current
  <1>10. current' = [current EXCEPT ![w] = Head(batch_)]
    BY DEF RunNext
  <1>11. /\ current'[w] = Head(batch_)
         /\ \A v \in Workers : v # w => current'[v] = Null
    BY <1>7, <1>10 DEF IInv, TypeOK
  <1>12. Current' = {Head(batch_)}
    BY <1>8, <1>11, StrandAssumption DEF Current
  <1>13. QED
    BY <1>3, <1>4, <1>5, <1>9, <1>12 DEF RunNext

\* The routine that returns is the one that SerialExecutor is running.
LEMMA FinishFinishes ==
    ASSUME IInv, NEW w \in Workers, Finish(w)
    PROVE  /\ current[w] \in Routines /\ Current = {current[w]}
           /\ Current' = {} /\ done' = done \cup {current[w]}
           /\ UNCHANGED Queue
  <1>1. Owns(w) /\ current[w] \in Routines
    BY DEF IInv, TypeOK, PlaceInv, Finish, Goto, Owns
  <1>2. \A v \in Workers : v # w => current[v] = Null
    BY <1>1 DEF IInv, OwnerInv, Owns, Actors
  <1>3. Current = {current[w]}
    BY <1>1, <1>2, StrandAssumption DEF Current
  <1>4. \A v \in Workers : current'[v] = Null
    BY <1>2 DEF IInv, TypeOK, Finish
  <1>5. Current' = {}
    BY <1>4 DEF Current
  <1>6. UNCHANGED Queue /\ done' = done \cup {current[w]}
    BY DEF Queue, Locked, Finish
  <1>7. QED
    BY <1>1, <1>3, <1>5, <1>6

\* The strand implements SerialExecutor: the routines run one at a time, each
\* once, in the order of their pushes.
THEOREM StrandIsSerial == Spec => ImplementsSerialExecutor
  <1> USE DEF Serial!Init, Serial!Next
  <1>1. Init => Serial!Init
    <2> SUFFICES ASSUME Init PROVE Serial!Init
      OBVIOUS
    <2>1. Locked = << >> /\ batch_ = << >> /\ stack = << >>
      BY LockedByNone DEF Init, Locked, LockedIn
    <2>2. batch_ \o Locked \o Reverse(stack) = << >>
      BY <2>1, ReverseEmpty
    <2>3. QED
      BY <2>2 DEF Init
  <1>2. IInv /\ [Next]_vars => [Serial!Next]_<<Queue, Current, done>>
    <2> SUFFICES ASSUME IInv, [Next]_vars
                 PROVE  [Serial!Next]_<<Queue, Current, done>>
      OBVIOUS
    <2>1. CASE UNCHANGED vars
      BY <2>1 DEF vars, Queue, Locked, Current
    <2>2. ASSUME NEW a \in Actors, Submitting(a)
          PROVE  [Serial!Next]_<<Queue, Current, done>>
      <3>1. CASE Push(a)
        BY <3>1, PushSubmits DEF Serial!Submit, Queue, Current
      <3>2. CASE Close(a) \/ Hand(a)
        BY <3>2, LockMovesOn
      <3>3. CASE Execute(a) \/ PushFails(a) \/ LockLoad(a) \/ CloseFails(a)
        BY <3>3 DEF Execute, PushFails, LockLoad, CloseFails, Queue, Locked, Current
      <3>4. QED
        BY <2>2, <3>1, <3>2, <3>3 DEF Submitting
    <2>3. ASSUME NEW w \in Workers, Running(w)
          PROVE  [Serial!Next]_<<Queue, Current, done>>
      <3>1. CASE RunNext(w)
        BY <3>1, RunStarts DEF Serial!Start, Queue, Current
      <3>2. CASE Finish(w)
        BY <3>2, FinishFinishes DEF Serial!Finish, Queue, Current
      <3>3. CASE Take(w) \/ BatchEnds(w) \/ Open(w) \/ OpenFails(w)
        BY <3>3 DEF Take, BatchEnds, Open, OpenFails, Queue, Locked, Current
      <3>4. QED
        BY <2>3, <3>1, <3>2, <3>3 DEF Running
    <2>4. QED
      BY <2>1, <2>2, <2>3 DEF Next
  <1>3. QED
    BY <1>1, <1>2, Invariance, PTL
       DEF Spec, ImplementsSerialExecutor, Serial!Spec, Queue, Current
==============================================================================
