------------------------- MODULE QueueSpinLockProofs -------------------------
(***************************************************************************)
(* Proofs about Detail::QueueSpinLock for any set of threads: mutual       *)
(* exclusion, safe access to other threads' Guards, and FIFO granting (the *)
(* lock implements FifoLock).                                              *)
(*                                                                         *)
(* The inductive invariant describes the chain of Guards by the history    *)
(* variable line: tail_ is its last element, each next_ that is set leads  *)
(* to the following element, and only the first element can hold the lock. *)
(***************************************************************************)
EXTENDS QueueSpinLock, TLAPS

\* t's Guard is in the chain.
InLine(t) == pc[t] \in Waiting \cup Holding

\* The threads in line are those between their CAS and their release.
Membership ==
    /\ \A t \in Threads : InLine(t) <=> \E i \in 1..Len(line) : line[i] = t
    /\ \A i, j \in 1..Len(line) : line[i] = line[j] => i = j

\* The head of the line holds the lock or has been granted it.
HeadInv ==
    line # << >> => \/ pc[line[1]] \in Holding
                    \/ pc[line[1]] = "spin" /\ owner_[line[1]]

\* Everybody else waits, linked to its predecessor or about to link itself.
ChainInv ==
    \A i \in 1..Len(line) :
        i > 1 => /\ pc[line[i]] \in Waiting
                 /\ ~owner_[line[i]]
                 /\ pc[line[i]] = "link" => /\ old_tail_[line[i]] = line[i-1]
                                            /\ next_[line[i-1]] = Null
                 /\ pc[line[i]] = "spin" => next_[line[i-1]] = line[i]

\* tail_ is the last Guard in line, or Null.
TailInv ==
    /\ line = << >> => tail_ = Null
    /\ line # << >> => tail_ = line[Len(line)] /\ next_[tail_] = Null

\* What a thread knows from where it is.
LocalInv ==
    \A t \in Threads :
        /\ pc[t] = "acquire" => next_[t] = Null /\ ~owner_[t]
        /\ pc[t] = "handover" => tail_ # t
        /\ pc[t] = "grant" => tail_ # t /\ next_[t] # Null
        /\ pc[t] = "unlocked" => released_[t]
        /\ released_[t] => pc[t] \in {"idle", "unlocked"}

\* The inductive invariant: the chain of Guards, read off next_ and old_tail_,
\* is the line of threads, and only its head may be inside.
IInv == TypeOK /\ Membership /\ HeadInv /\ ChainInv /\ TailInv /\ LocalInv
------------------------------------------------------------------------------
\* The two changes of a line: a thread is appended, the first one is removed.
LEMMA AppendLine ==
    ASSUME NEW S, NEW s \in Seq(S), NEW t \in S
    PROVE  /\ Append(s, t) \in Seq(S)
           /\ Append(s, t) # << >>
           /\ Len(Append(s, t)) = Len(s) + 1
           /\ Append(s, t)[Len(s) + 1] = t
           /\ \A i \in 1..Len(s) : Append(s, t)[i] = s[i]
  OBVIOUS

\* Removing the first thread of a line shifts the others by one place.
LEMMA TailLine ==
    ASSUME NEW S, NEW s \in Seq(S), s # << >>
    PROVE  /\ Tail(s) \in Seq(S)
           /\ Len(Tail(s)) = Len(s) - 1
           /\ Len(s) \in Nat \ {0}
           /\ Head(s) = s[1]
           /\ Len(s) > 1 => Tail(s) # << >>
           /\ \A i \in 1..Len(Tail(s)) : Tail(s)[i] = s[i+1]
           /\ \A i \in 1..Len(s) : i > 1 => Tail(s)[i-1] = s[i]
  <1>1. /\ Tail(s) \in Seq(S) /\ Len(Tail(s)) = Len(s) - 1
        /\ Len(s) \in Nat \ {0} /\ Head(s) = s[1]
        /\ \A i \in 1..Len(Tail(s)) : Tail(s)[i] = s[i+1]
    OBVIOUS
  <1>2. Len(s) > 1 => Tail(s) # << >>
    <2>1. Len(<< >>) = 0
      OBVIOUS
    <2>2. Len(s) > 1 => Len(Tail(s)) # 0
      BY <1>1
    <2>3. QED
      BY <2>1, <2>2, Zenon
  <1>3. ASSUME NEW i \in 1..Len(s), i > 1 PROVE Tail(s)[i-1] = s[i]
    <2>1. i - 1 \in 1..Len(Tail(s)) /\ (i - 1) + 1 = i
      BY <1>1, <1>3
    <2>2. QED
      BY <1>1, <2>1
  <1>4. QED
    BY <1>1, <1>2, <1>3

\* A thread that holds the lock is the first one in line.
LEMMA HolderIsHead ==
    ASSUME IInv, NEW t \in Threads, pc[t] \in Holding
    PROVE  line # << >> /\ line[1] = t
  <1>1. PICK i \in 1..Len(line) : line[i] = t
    BY DEF IInv, Membership, InLine
  <1>2. i = 1
    BY <1>1 DEF IInv, TypeOK, ChainInv, Waiting, Holding
  <1>3. QED
    BY <1>1, <1>2 DEF IInv, TypeOK

\* A thread that was granted the lock is the first one in line, too.
LEMMA OwnerIsHead ==
    ASSUME IInv, NEW t \in Threads, pc[t] = "spin", owner_[t]
    PROVE  line # << >> /\ line[1] = t
  <1>1. PICK i \in 1..Len(line) : line[i] = t
    BY DEF IInv, Membership, InLine, Waiting
  <1>2. i = 1
    BY <1>1 DEF IInv, TypeOK, ChainInv
  <1>3. QED
    BY <1>1, <1>2 DEF IInv, TypeOK

\* The thread that grants the lock grants it to the second one in line.
LEMMA GrantTarget ==
    ASSUME IInv, NEW t \in Threads, pc[t] = "grant"
    PROVE  /\ line # << >> /\ line[1] = t
           /\ Len(line) > 1
           /\ line[2] \in Threads
           /\ next_[t] = line[2] /\ pc[line[2]] = "spin"
  <1>1. line # << >> /\ line[1] = t
    BY HolderIsHead DEF Holding
  <1>2. tail_ # t /\ next_[t] # Null
    BY DEF IInv, LocalInv
  <1>3. Len(line) > 1
    BY <1>1, <1>2 DEF IInv, TypeOK, TailInv
  <1>4. 2 \in 1..Len(line) /\ line[2] \in Threads
    BY <1>3 DEF IInv, TypeOK
  <1>5. pc[line[2]] \in Waiting /\ (pc[line[2]] = "link" => next_[line[1]] = Null)
        /\ (pc[line[2]] = "spin" => next_[line[1]] = line[2])
    BY <1>4 DEF IInv, ChainInv
  <1>6. QED
    BY <1>1, <1>2, <1>3, <1>4, <1>5 DEF Waiting

------------------------------------------------------------------------------
\* The initial state satisfies the invariant: nobody is in line.
LEMMA InitIInv == Init => IInv
  <1> SUFFICES ASSUME Init PROVE IInv
    OBVIOUS
  <1>1. TypeOK
    BY DEF Init, TypeOK, Labels
  <1>2. Membership /\ HeadInv /\ ChainInv /\ TailInv /\ LocalInv
    BY DEF Init, Membership, InLine, Waiting, Holding, HeadInv, ChainInv,
           TailInv, LocalInv
  <1>3. QED
    BY <1>1, <1>2 DEF IInv

\* A step that changes neither the line nor who is in it, nor any field of a
\* Guard in line, keeps the four parts of the invariant about the chain.
LEMMA OutsideStep ==
    ASSUME IInv, TypeOK', NEW t \in Threads, ~InLine(t), ~InLine(t)',
           UNCHANGED <<line, tail_>>,
           \A u \in Threads \ {t} : /\ pc'[u] = pc[u]
                                    /\ next_'[u] = next_[u]
                                    /\ owner_'[u] = owner_[u]
                                    /\ old_tail_'[u] = old_tail_[u]
    PROVE  Membership' /\ HeadInv' /\ ChainInv' /\ TailInv'
  <1> USE DEF IInv, TypeOK
  <1>1. \A i \in 1..Len(line) : line[i] \in Threads \ {t}
    BY DEF Membership
  <1>2. Membership'
    BY DEF Membership, InLine
  <1>3. HeadInv'
    BY <1>1 DEF HeadInv
  <1>4. ChainInv'
    BY <1>1 DEF ChainInv
  <1>5. TailInv'
    BY <1>1 DEF TailInv
  <1>6. QED
    BY <1>2, <1>3, <1>4, <1>5

\* A step of the holder that keeps it in line and writes no field of a Guard.
LEMMA HolderStep ==
    ASSUME IInv, TypeOK', NEW t \in Threads,
           line # << >>, line[1] = t, pc'[t] \in Holding,
           UNCHANGED <<line, tail_, next_, owner_, old_tail_>>,
           \A u \in Threads \ {t} : pc'[u] = pc[u]
    PROVE  Membership' /\ HeadInv' /\ ChainInv' /\ TailInv'
  <1> USE DEF IInv, TypeOK
  <1>1. 1 \in 1..Len(line)
    OBVIOUS
  <1>2. \A i \in 1..Len(line) : i > 1 => line[i] \in Threads \ {t}
    BY <1>1 DEF Membership
  <1>3. Membership'
    BY <1>1 DEF Membership, InLine, Waiting, Holding
  <1>4. HeadInv'
    BY DEF HeadInv
  <1>5. ChainInv'
    BY <1>1, <1>2 DEF ChainInv
  <1>6. TailInv'
    BY DEF TailInv
  <1>7. QED
    BY <1>3, <1>4, <1>5, <1>6

\* The invariant is preserved by every step.
LEMMA NextIInv == IInv /\ [Next]_vars => IInv'
  <1> SUFFICES ASSUME IInv, [Next]_vars PROVE IInv'
    OBVIOUS
  <1> USE NullAssumption
  <1>t. TypeOK'
    <2>1. CASE UNCHANGED vars
      BY <2>1 DEF IInv, TypeOK, vars
    <2>2. ASSUME NEW t \in Threads, CasRelease(t) \/ Grant(t) PROVE TypeOK'
      <3>1. line # << >> /\ Tail(line) \in Seq(Threads)
        BY <2>2, HolderIsHead, TailLine
        DEF IInv, TypeOK, CasRelease, Grant, Goto, Holding
      <3>2. CASE CasRelease(t)
        BY <3>1, <3>2 DEF IInv, TypeOK, CasRelease, Goto, Return, Labels
      <3>3. CASE Grant(t)
        BY <3>1, <3>3 DEF IInv, TypeOK, Grant, Goto, Return, Labels
      <3>4. QED
        BY <2>2, <3>2, <3>3
    <2>3. ASSUME NEW t \in Threads, CasTail(t) PROVE TypeOK'
      <3>1. line' \in Seq(Threads)
        BY <2>3, AppendLine DEF CasTail, IInv, TypeOK
      <3>2. QED
        BY <2>3, <3>1 DEF IInv, TypeOK, CasTail, Goto, Labels
    <2>4. ASSUME NEW t \in Threads,
                 \/ Construct(t) \/ CasTailFails(t) \/ Link(t) \/ SetReleased(t)
          PROVE  TypeOK'
      <3>1. CASE Construct(t)
        BY <3>1 DEF IInv, TypeOK, Goto, Labels, Construct
      <3>2. CASE CasTailFails(t)
        BY <3>2 DEF IInv, TypeOK, CasTailFails, lockVars
      <3>3. CASE Link(t)
        BY <3>3 DEF IInv, TypeOK, Goto, Labels, Link
      <3>4. CASE SetReleased(t)
        BY <3>4 DEF IInv, TypeOK, Goto, Labels, SetReleased
      <3>5. QED
        BY <2>4, <3>1, <3>2, <3>3, <3>4
    <2>6. ASSUME NEW t \in Threads,
                 \/ Spin(t) \/ Unlock(t) \/ Destroy(t)
                 \/ CasReleaseFails(t) \/ ReadNext(t)
          PROVE  TypeOK'
      <3>1. pc'[t] \in Labels /\ caller'[t] \in {"Unlock", "~Guard"}
        BY <2>6 DEF IInv, TypeOK, Goto, Labels, Spin, Unlock, Destroy,
             CasReleaseFails, ReadNext
      <3>2. /\ pc' = [pc EXCEPT ![t] = pc'[t]]
            /\ caller' = [caller EXCEPT ![t] = caller'[t]]
            /\ UNCHANGED <<lockVars, old_tail_, line>>
        BY <2>6 DEF IInv, TypeOK, Goto, lockVars, Spin, Unlock, Destroy,
             CasReleaseFails, ReadNext
      <3>3. QED
        BY <3>1, <3>2 DEF IInv, TypeOK, lockVars
    <2>5. QED
      BY <2>1, <2>2, <2>3, <2>4, <2>6 DEF Next, Step
  <1>1. CASE UNCHANGED vars
    BY <1>1, <1>t DEF IInv, TypeOK, Membership, InLine, HeadInv, ChainInv,
         TailInv, LocalInv, vars
  <1>2. ASSUME NEW t \in Threads,
               \/ Construct(t) \/ CasTailFails(t) \/ SetReleased(t)
               \/ Destroy(t) /\ pc[t] = "unlocked"
        PROVE  IInv'
    <2>1. LocalInv'
      BY <1>2 DEF IInv, LocalInv, TypeOK, Construct, CasTailFails, SetReleased,
           Destroy, Goto, lockVars
    <2>2. ~InLine(t) /\ ~InLine(t)' /\ UNCHANGED <<line, tail_>>
      BY <1>2 DEF IInv, LocalInv, TypeOK, InLine, Waiting, Holding, Construct,
           CasTailFails, SetReleased, Destroy, Goto, lockVars
    <2>3. \A u \in Threads \ {t} :
            /\ pc'[u] = pc[u]
            /\ next_'[u] = next_[u]
            /\ owner_'[u] = owner_[u]
            /\ old_tail_'[u] = old_tail_[u]
      BY <1>2 DEF IInv, TypeOK, Construct, CasTailFails, SetReleased, Destroy,
           Goto, lockVars
    <2>4. QED
      BY <1>t, <2>1, <2>2, <2>3, OutsideStep DEF IInv
  <1>3. ASSUME NEW t \in Threads,
               \/ Unlock(t) \/ CasReleaseFails(t) \/ ReadNext(t) \/ Spin(t)
               \/ Destroy(t) /\ pc[t] = "cs" /\ ~released_[t]
        PROVE  IInv'
    <2>1. LocalInv'
      BY <1>3 DEF IInv, LocalInv, TypeOK, Unlock, CasReleaseFails, ReadNext,
           Spin, Destroy, Goto, lockVars
    <2>2. line # << >> /\ line[1] = t
      BY <1>3, HolderIsHead, OwnerIsHead
      DEF Unlock, CasReleaseFails, ReadNext, Spin, Destroy, Goto, Holding
    <2>3. /\ pc'[t] \in Holding
          /\ UNCHANGED <<line, tail_, next_, owner_, old_tail_>>
          /\ \A u \in Threads \ {t} : pc'[u] = pc[u]
      BY <1>3 DEF IInv, TypeOK, Unlock, CasReleaseFails, ReadNext, Spin,
           Destroy, Goto, lockVars, Holding
    <2>4. QED
      BY <1>t, <2>1, <2>2, <2>3, HolderStep DEF IInv
  <1>4. ASSUME NEW t \in Threads, CasTail(t) PROVE IInv'
    <2> USE DEF IInv, TypeOK, CasTail, Goto
    <2>1. ~InLine(t) /\ next_[t] = Null /\ ~owner_[t] /\ tail_' = t
          /\ pc'[t] = IF old_tail_[t] = Null THEN "cs" ELSE "link"
      BY <1>4 DEF InLine, Waiting, Holding, LocalInv
    <2>2. /\ Len(line') = Len(line) + 1 /\ line'[Len(line) + 1] = t
          /\ line' # << >> /\ Len(line) \in Nat
          /\ \A i \in 1..Len(line) : line'[i] = line[i] /\ line'[i] \in Threads \ {t}
      BY <1>4, <2>1, AppendLine DEF Membership
    <2>3. \A u \in Threads \ {t} : pc'[u] = pc[u]
      BY <1>4
    <2>4. UNCHANGED <<next_, owner_, old_tail_>>
      BY <1>4
    <2>5. Membership'
      BY <2>1, <2>2, <2>3, <1>4 DEF Membership, InLine, Waiting, Holding
    <2>6. HeadInv'
      <3>1. CASE line = << >>
        BY <3>1, <2>1, <2>2, <1>4 DEF TailInv, HeadInv, Holding
      <3>2. CASE line # << >>
        BY <3>2, <2>2, <2>3, <2>4 DEF HeadInv
      <3>3. QED
        BY <3>1, <3>2
    <2>7. ChainInv'
      <3> SUFFICES ASSUME NEW i \in 1..Len(line'), i > 1
                   PROVE  ChainInv!(i)!2'
        BY DEF ChainInv
      <3>1. CASE i = Len(line) + 1
        <4>1. line # << >> /\ old_tail_[t] = line[Len(line)] /\ next_[line[Len(line)]] = Null
          BY <3>1, <1>4 DEF TailInv
        <4>2. i - 1 \in 1..Len(line) /\ line'[i-1] = line[Len(line)]
          BY <3>1, <2>2
        <4>3. old_tail_[t] # Null
          BY <4>1, <2>2, <4>2, NullAssumption
        <4>4. QED
          BY <3>1, <4>1, <4>2, <4>3, <2>1, <2>2, <2>4 DEF Waiting
      <3>2. CASE i \in 1..Len(line)
        <4>1. i - 1 \in 1..Len(line)
          BY <3>2
        <4>2. QED
          BY <3>2, <4>1, <2>2, <2>3, <2>4 DEF ChainInv
      <3>3. QED
        BY <3>1, <3>2, <2>2
    <2>8. TailInv'
      BY <2>1, <2>2, <2>4 DEF TailInv
    <2>9. LocalInv'
      BY <2>1, <2>3, <2>4, <1>4, NullAssumption DEF LocalInv
    <2>10. QED
      BY <1>t, <2>5, <2>6, <2>7, <2>8, <2>9
  <1>5. ASSUME NEW t \in Threads, Link(t) PROVE IInv'
    <2> USE DEF IInv, TypeOK, Link, Goto
    <2>1. PICK i \in 1..Len(line) : line[i] = t
      BY <1>5 DEF Membership, InLine, Waiting
    <2>2. i > 1 /\ i - 1 \in 1..Len(line)
      BY <1>5, <2>1 DEF HeadInv, Holding
    <2>3. old_tail_[t] = line[i-1] /\ line[i-1] \in Threads
      BY <1>5, <2>1, <2>2 DEF ChainInv
    <2>4. \A j \in 1..Len(line) : j # i - 1 => line[j] # line[i-1]
      BY <2>2 DEF Membership
    <2>5. \A j \in 1..Len(line) : j # i => line[j] # t
      BY <2>1 DEF Membership
    <2>6. /\ next_'[line[i-1]] = t
          /\ \A u \in Threads : u # line[i-1] => next_'[u] = next_[u]
          /\ pc'[t] = "spin"
          /\ \A u \in Threads \ {t} : pc'[u] = pc[u]
          /\ UNCHANGED <<line, tail_, owner_, old_tail_, released_>>
      BY <1>5, <2>3
    <2>7. Membership'
      BY <1>5, <2>6 DEF Membership, InLine, Waiting
    <2>8. HeadInv'
      BY <2>2, <2>5, <2>6 DEF HeadInv
    <2>9. ChainInv'
      <3> SUFFICES ASSUME NEW j \in 1..Len(line), j > 1
                   PROVE  ChainInv!(j)!2'
        BY <2>6 DEF ChainInv
      <3>1. CASE j = i
        BY <3>1, <2>1, <2>6 DEF ChainInv, Waiting
      <3>2. CASE j # i
        <4>1. j - 1 \in 1..Len(line) /\ line[j-1] # line[i-1]
          BY <3>2, <2>2, <2>4
        <4>2. next_'[line[j-1]] = next_[line[j-1]]
          BY <4>1, <2>6
        <4>3. pc'[line[j]] = pc[line[j]]
          BY <3>2, <2>5, <2>6
        <4>4. QED
          BY <4>2, <4>3, <2>6 DEF ChainInv
      <3>3. QED
        BY <3>1, <3>2
    <2>10. TailInv'
      BY <2>1, <2>2, <2>4, <2>6 DEF TailInv
    <2>11. LocalInv'
      <3>1. pc[line[i-1]] # "acquire"
        BY <2>2, <2>3 DEF Membership, InLine, Waiting, Holding
      <3>2. QED
        BY <1>5, <3>1, <2>6, NullAssumption DEF LocalInv
    <2>12. QED
      BY <1>t, <2>7, <2>8, <2>9, <2>10, <2>11
  <1>6. ASSUME NEW t \in Threads, CasRelease(t) PROVE IInv'
    <2> USE DEF IInv, TypeOK, CasRelease, Goto
    <2>1. line # << >> /\ line[1] = t
      BY <1>6, HolderIsHead DEF Holding
    <2>2. Len(line) = 1
      <3>1. 1 \in 1..Len(line) /\ Len(line) \in 1..Len(line)
        BY <2>1
      <3>2. line[Len(line)] = t
        BY <1>6, <2>1 DEF TailInv
      <3>3. QED
        BY <2>1, <3>1, <3>2 DEF Membership
    <2>3. line' = << >> /\ tail_' = Null
      BY <1>6, <2>2, TailLine
    <2>4. pc'[t] \in {"idle", "flag"} /\ \A u \in Threads \ {t} : pc'[u] = pc[u]
      BY <1>6 DEF Return
    <2>5. \A u \in Threads : ~InLine(u)'
      BY <2>1, <2>2, <2>4 DEF Membership, InLine, Waiting, Holding
    <2>6. Membership' /\ HeadInv' /\ ChainInv' /\ TailInv'
      BY <2>3, <2>5 DEF Membership, HeadInv, ChainInv, TailInv
    <2>7. LocalInv'
      BY <1>6, <2>3, <2>4, NullAssumption DEF LocalInv
    <2>8. QED
      BY <1>t, <2>6, <2>7
  <1>7. ASSUME NEW t \in Threads, Grant(t) PROVE IInv'
    <2> USE DEF IInv, TypeOK, Grant, Goto
    <2>1. /\ line # << >> /\ line[1] = t /\ Len(line) > 1
          /\ line[2] \in Threads /\ next_[t] = line[2] /\ pc[line[2]] = "spin"
      BY <1>7, GrantTarget
    <2>2. /\ Len(line') = Len(line) - 1 /\ Len(line) \in Nat
          /\ line' # << >>
          /\ \A i \in 1..Len(line') : line'[i] = line[i+1]
      <3>1. line \in Seq(Threads) /\ line' = Tail(line)
        BY <1>7
      <3>2. /\ Len(Tail(line)) = Len(line) - 1 /\ Len(line) \in Nat
            /\ \A i \in 1..Len(Tail(line)) : Tail(line)[i] = line[i+1]
        BY <3>1, <2>1, TailLine
      <3>3. Tail(line) # << >>
        BY <3>1, <2>1, TailLine
      <3>4. QED
        BY <3>1, <3>2, <3>3
    <2>3. \A i \in 1..Len(line') : line'[i] \in Threads \ {t}
      BY <2>1, <2>2 DEF Membership
    <2>4. /\ pc'[t] \in {"idle", "flag"} /\ \A u \in Threads \ {t} : pc'[u] = pc[u]
          /\ owner_'[line[2]] /\ \A u \in Threads : u # line[2] => owner_'[u] = owner_[u]
          /\ UNCHANGED <<tail_, next_, released_, old_tail_>>
      BY <1>7, <2>1 DEF Return
    <2>5. Membership'
      <3>1. \A u \in Threads : (\E i \in 1..Len(line') : line'[i] = u) <=>
                               (u # t /\ \E i \in 1..Len(line) : line[i] = u)
        <4> TAKE u \in Threads
        <4>1. ASSUME NEW i \in 1..Len(line), line[i] = u, u # t
              PROVE  \E k \in 1..Len(line') : line'[k] = u
          <5>1. i - 1 \in 1..Len(line') /\ line'[i-1] = u
            BY <4>1, <2>1, <2>2
          <5>2. QED
            BY <5>1
        <4>2. ASSUME NEW i \in 1..Len(line'), line'[i] = u
              PROVE  u # t /\ \E k \in 1..Len(line) : line[k] = u
          <5>1. i + 1 \in 1..Len(line) /\ line[i+1] = u
            BY <4>2, <2>2
          <5>2. QED
            BY <5>1, <4>2, <2>3
        <4>3. QED
          BY <4>1, <4>2
      <3>2. \A i, j \in 1..Len(line') : line'[i] = line'[j] => i = j
        BY <2>2 DEF Membership
      <3>3. ~InLine(t)' /\ \A u \in Threads \ {t} : InLine(u)' <=> InLine(u)
        BY <2>4 DEF InLine, Waiting, Holding
      <3>4. QED
        BY <3>1, <3>2, <3>3 DEF Membership
    <2>6. HeadInv'
      BY <2>1, <2>2, <2>3, <2>4 DEF HeadInv
    <2>7. ChainInv'
      <3> SUFFICES ASSUME NEW i \in 1..Len(line'), i > 1
                   PROVE  ChainInv!(i)!2'
        BY DEF ChainInv
      <3>1. /\ i + 1 \in 1..Len(line) /\ i + 1 > 1 /\ i + 1 # 2
            /\ i - 1 \in 1..Len(line') /\ (i + 1) - 1 = i /\ (i - 1) + 1 = i
            /\ line'[i] = line[i+1] /\ line'[i-1] = line[i]
        BY <2>2
      <3>2. line[i+1] # line[2]
        BY <3>1, <2>1 DEF Membership
      <3>3. /\ pc'[line[i+1]] = pc[line[i+1]]
            /\ owner_'[line[i+1]] = owner_[line[i+1]]
        BY <3>1, <3>2, <2>3, <2>4
      <3>4. /\ pc[line[i+1]] \in Waiting
            /\ ~owner_[line[i+1]]
            /\ pc[line[i+1]] = "link" => old_tail_[line[i+1]] = line[i] /\ next_[line[i]] = Null
            /\ pc[line[i+1]] = "spin" => next_[line[i]] = line[i+1]
        BY <3>1 DEF ChainInv
      <3>5. QED
        BY <3>1, <3>3, <3>4, <2>4
    <2>8. TailInv'
      BY <2>1, <2>2, <2>4 DEF TailInv
    <2>9. LocalInv'
      BY <1>7, <2>1, <2>4 DEF LocalInv
    <2>10. QED
      BY <1>t, <2>5, <2>6, <2>7, <2>8, <2>9
  <1>8. ASSUME NEW t \in Threads, Destroy(t)
        PROVE  pc[t] = "unlocked" \/ (pc[t] = "cs" /\ ~released_[t])
    BY <1>8 DEF IInv, LocalInv, Destroy
  <1>9. QED
    BY <1>1, <1>2, <1>3, <1>4, <1>5, <1>6, <1>7, <1>8 DEF Next, Step

\* IInv holds in every reachable state.
LEMMA Invariance == Spec => []IInv
  <1>1. QED
    BY InitIInv, NextIInv, PTL DEF Spec

\* TypeOK holds in every reachable state, for any set of threads.
THEOREM TypeCorrect == Spec => []TypeOK
  <1>1. IInv => TypeOK
    BY DEF IInv
  <1>2. QED
    BY <1>1, Invariance, PTL

\* Two threads never hold the lock at the same time.
THEOREM LockIsExclusive == Spec => []MutualExclusion
  <1>1. IInv => MutualExclusion
    BY HolderIsHead DEF MutualExclusion
  <1>2. QED
    BY <1>1, Invariance, PTL

\* Acquire and Release never write to a Guard that is gone.
THEOREM GuardsStayAlive == Spec => []GuardsAlive
  <1>1. ASSUME IInv, NEW t \in Threads, pc[t] = "link"
        PROVE  old_tail_[t] \in Threads /\ pc[old_tail_[t]] \in Waiting \cup Holding
    <2>1. PICK i \in 1..Len(line) : line[i] = t
      BY <1>1 DEF IInv, Membership, InLine, Waiting
    <2>2. i > 1 /\ i - 1 \in 1..Len(line)
      BY <1>1, <2>1 DEF IInv, TypeOK, HeadInv, Holding
    <2>3. old_tail_[t] = line[i-1] /\ line[i-1] \in Threads
      BY <1>1, <2>1, <2>2 DEF IInv, TypeOK, ChainInv
    <2>4. InLine(line[i-1])
      BY <1>1, <2>2, <2>3 DEF IInv, Membership
    <2>5. QED
      BY <2>3, <2>4 DEF InLine
  <1>2. ASSUME IInv, NEW t \in Threads, pc[t] = "grant"
        PROVE  next_[t] \in Threads /\ pc[next_[t]] = "spin"
    BY <1>2, GrantTarget
  <1>3. IInv => GuardsAlive
    BY <1>1, <1>2 DEF GuardsAlive
  <1>4. QED
    BY <1>3, Invariance, PTL

------------------------------------------------------------------------------
\* Who is inside, as FifoLock sees it.
LEMMA InsideIsHead ==
    ASSUME IInv
    PROVE  /\ \A t \in Inside : Inside = {t} /\ line # << >> /\ Head(line) = t
           /\ line = << >> => Inside = {}
  <1>1. ASSUME NEW t \in Inside
        PROVE  Inside = {t} /\ line # << >> /\ Head(line) = t
    <2>1. t \in Threads /\ pc[t] \in Holding
      BY DEF Inside
    <2>2. \A u \in Inside : u = t
      BY <2>1, HolderIsHead DEF Inside
    <2>3. QED
      BY <2>1, <2>2, HolderIsHead DEF IInv, TypeOK
  <1>2. QED
    BY <1>1

\* The lock implements FifoLock: it is granted in the order in which the
\* compare_exchanges of Acquire succeeded.
THEOREM ImplementsFifoLock == Spec => GrantedInOrder
  <1> USE DEF Fifo!Init, Fifo!Next
  <1>1. Init => Fifo!Init
    BY DEF Init, Inside, Holding
  <1>2. IInv /\ IInv' /\ [Next]_vars => [Fifo!Next]_<<line, Inside>>
    <2> SUFFICES ASSUME IInv, IInv', [Next]_vars
                 PROVE  [Fifo!Next]_<<line, Inside>>
      OBVIOUS
    <2>1. CASE UNCHANGED vars
      BY <2>1 DEF vars, Inside
    <2>2. ASSUME NEW t \in Threads,
                 \/ Construct(t) \/ CasTailFails(t) \/ Link(t) \/ Unlock(t)
                 \/ Destroy(t) \/ CasReleaseFails(t) \/ ReadNext(t)
                 \/ SetReleased(t)
          PROVE  UNCHANGED <<line, Inside>>
      <3>1. UNCHANGED line /\ \A u \in Threads \ {t} : pc'[u] = pc[u]
        BY <2>2 DEF IInv, TypeOK, Goto, lockVars, Construct, CasTailFails, Link,
             Unlock, Destroy, CasReleaseFails, ReadNext, SetReleased
      <3>2. pc'[t] \in Holding <=> pc[t] \in Holding
        BY <2>2 DEF IInv, TypeOK, LocalInv, Goto, Holding, Construct,
             CasTailFails, Link, Unlock, Destroy, CasReleaseFails, ReadNext,
             SetReleased
      <3>3. QED
        BY <3>1, <3>2 DEF Inside
    <2>3. ASSUME NEW t \in Threads, CasTail(t)
          PROVE  Fifo!Take(t) \/ Fifo!Join(t)
      <3>1. pc[t] = "acquire" /\ line' = Append(line, t)
            /\ \A u \in Threads \ {t} : pc'[u] = pc[u]
        BY <2>3 DEF IInv, TypeOK, CasTail, Goto
      <3>2. CASE line = << >>
        <4>1. pc'[t] = "cs"
          BY <2>3, <3>2 DEF IInv, TypeOK, TailInv, CasTail, Goto
        <4>2. Inside' = {t}
          BY <4>1, <3>1, <3>2, InsideIsHead DEF Inside, Holding
        <4>3. line' = << t >>
          BY <3>1, <3>2
        <4>4. QED
          BY <3>2, <4>2, <4>3 DEF Fifo!Take
      <3>3. CASE line # << >>
        <4>1. Len(line) \in 1..Len(line) /\ line[Len(line)] \in Threads
          BY <3>3 DEF IInv, TypeOK
        <4>2. old_tail_[t] # Null
          BY <2>3, <3>3, <4>1, NullAssumption DEF IInv, TailInv, CasTail
        <4>3. pc'[t] = "link"
          BY <2>3, <4>2 DEF IInv, TypeOK, CasTail, Goto
        <4>4. Inside' = Inside
          BY <3>1, <4>3 DEF Inside, Holding
        <4>5. QED
          BY <3>1, <3>3, <4>4 DEF Fifo!Join
      <3>4. QED
        BY <3>2, <3>3
    <2>4. ASSUME NEW t \in Threads, Spin(t) PROVE Fifo!Enter(t)
      <3>1. /\ pc[t] = "spin" /\ owner_[t] /\ pc'[t] = "cs" /\ line' = line
            /\ \A u \in Threads \ {t} : pc'[u] = pc[u]
        BY <2>4 DEF IInv, TypeOK, Spin, Goto
      <3>2. line # << >> /\ Head(line) = t
        BY <3>1, OwnerIsHead DEF IInv, TypeOK
      <3>3. Inside = {}
        BY <3>1, <3>2, InsideIsHead DEF Inside, Holding
      <3>4. Inside' = {t}
        BY <3>1, <3>3 DEF Inside, Holding
      <3>5. QED
        BY <3>1, <3>2, <3>3, <3>4 DEF Fifo!Enter
    <2>5. ASSUME NEW t \in Threads, CasRelease(t) \/ Grant(t) PROVE Fifo!Leave(t)
      <3>1. /\ pc[t] \in Holding /\ pc'[t] \notin Holding /\ line' = Tail(line)
            /\ \A u \in Threads \ {t} : pc'[u] = pc[u]
        BY <2>5 DEF IInv, TypeOK, CasRelease, Grant, Goto, Return, Holding
      <3>2. Inside = {t} /\ line # << >>
        BY <3>1, InsideIsHead DEF Inside
      <3>3. Inside' = {}
        BY <3>1, <3>2 DEF Inside
      <3>4. QED
        BY <3>1, <3>2, <3>3 DEF Fifo!Leave
    <2>6. QED
      BY <2>1, <2>2, <2>3, <2>4, <2>5 DEF Next, Step
  <1>3. QED
    BY <1>1, <1>2, Invariance, PTL DEF Spec, GrantedInOrder, Fifo!Spec
==============================================================================
