---------------------------- MODULE QueueSpinLock ----------------------------
(***************************************************************************)
(* Detail::QueueSpinLock (detail/spinlock.hpp): a queue lock whose nodes   *)
(* are the Guards on the stacks of its callers.  A thread has at most one  *)
(* Guard of this lock at a time, so the Guard is named by its thread; a    *)
(* Guard that is destroyed and built again has the same address, as it     *)
(* may have on a stack.                                                    *)
(*                                                                         *)
(* A step is one access to shared memory together with the thread's local  *)
(* computation up to the next one.  A compare_exchange_weak that fails     *)
(* spuriously changes nothing and is a stuttering step.                    *)
(***************************************************************************)
EXTENDS Naturals, Sequences, FiniteSets

CONSTANTS Threads,   \* the threads that use the lock
          Null       \* the null pointer

ASSUME NullAssumption == Null \notin Threads

VARIABLES tail_,      \* QueueSpinLock::tail_
          next_,      \* Guard::next_ of each thread's Guard
          owner_,     \* Guard::owner_
          released_,  \* Guard::released_
          old_tail_,  \* the local old_tail_ of Acquire
          pc,         \* where each thread is
          caller,     \* which of the Guard's methods called Release
          line        \* history: the threads whose Guard got into the chain

lockVars == <<tail_, next_, owner_, released_>>
vars == <<tail_, next_, owner_, released_, old_tail_, pc, caller, line>>

Labels == {"idle", "acquire", "link", "spin", "cs",
           "release", "handover", "grant", "flag", "unlocked"}

Init == /\ tail_ = Null
        /\ next_ = [t \in Threads |-> Null]
        /\ owner_ = [t \in Threads |-> FALSE]
        /\ released_ = [t \in Threads |-> FALSE]
        /\ old_tail_ = [t \in Threads |-> Null]
        /\ pc = [t \in Threads |-> "idle"]
        /\ caller = [t \in Threads |-> "~Guard"]
        /\ line = << >>

Goto(t, from, to) == pc[t] = from /\ pc' = [pc EXCEPT ![t] = to]

------------------------------------------------------------------------------
\* Variants: next_ has no initializer, and is no pointer to a Guard; the Guard
\* keeps owner_ from its last use.
Construct_Uninitialized(t) ==
    /\ Goto(t, "idle", "acquire")
    /\ next_' = [next_ EXCEPT ![t] = "no Guard"]
    /\ owner_' = [owner_ EXCEPT ![t] = FALSE]
    /\ released_' = [released_ EXCEPT ![t] = FALSE]
    /\ old_tail_' = [old_tail_ EXCEPT ![t] = tail_]
    /\ UNCHANGED <<tail_, caller, line>>

Construct_StaleOwner(t) ==
    /\ Goto(t, "idle", "acquire")
    /\ next_' = [next_ EXCEPT ![t] = Null]
    /\ released_' = [released_ EXCEPT ![t] = FALSE]
    /\ old_tail_' = [old_tail_ EXCEPT ![t] = tail_]
    /\ UNCHANGED <<tail_, owner_, caller, line>>

\* Guard guard(spinlock): a fresh Guard, and Acquire's first load of tail_.
Construct(t) ==
    /\ Goto(t, "idle", "acquire")
    /\ next_' = [next_ EXCEPT ![t] = Null]
    /\ owner_' = [owner_ EXCEPT ![t] = FALSE]
    /\ released_' = [released_ EXCEPT ![t] = FALSE]
    /\ old_tail_' = [old_tail_ EXCEPT ![t] = tail_]
    /\ UNCHANGED <<tail_, caller, line>>

\* The compare_exchange of Acquire fails and reloads tail_.
CasTailFails(t) ==
    /\ pc[t] = "acquire"
    /\ tail_ # old_tail_[t]
    /\ old_tail_' = [old_tail_ EXCEPT ![t] = tail_]
    /\ UNCHANGED <<lockVars, pc, caller, line>>

\* Variant: a load and a store instead of the compare_exchange.
CasTail_Store(t) ==
    /\ Goto(t, "acquire", IF old_tail_[t] = Null THEN "cs" ELSE "link")
    /\ tail_' = t
    /\ line' = Append(line, t)
    /\ UNCHANGED <<next_, owner_, released_, old_tail_, caller>>

\* It succeeds; with no predecessor the lock is taken.
CasTail(t) ==
    /\ Goto(t, "acquire", IF old_tail_[t] = Null THEN "cs" ELSE "link")
    /\ tail_ = old_tail_[t]
    /\ tail_' = t
    /\ line' = Append(line, t)
    /\ UNCHANGED <<next_, owner_, released_, old_tail_, caller>>

\* old_tail_->next_.store(guard)
Link(t) ==
    /\ Goto(t, "link", "spin")
    /\ next_' = [next_ EXCEPT ![old_tail_[t]] = t]
    /\ UNCHANGED <<tail_, owner_, released_, old_tail_, caller, line>>

\* The spin on owner_ ends.
Spin(t) ==
    /\ Goto(t, "spin", "cs")
    /\ owner_[t]
    /\ UNCHANGED <<lockVars, old_tail_, caller, line>>

\* The critical section ends with an explicit Unlock(); calling it twice is
\* excluded by the class ("twice unlock - UB").
Unlock(t) ==
    /\ Goto(t, "cs", "release")
    /\ caller' = [caller EXCEPT ![t] = "Unlock"]
    /\ UNCHANGED <<lockVars, old_tail_, line>>

\* ~Guard releases unless Unlock() did.
Destroy(t) ==
    /\ pc[t] \in {"cs", "unlocked"}
    /\ pc' = [pc EXCEPT ![t] = IF released_[t] THEN "idle" ELSE "release"]
    /\ caller' = [caller EXCEPT ![t] = "~Guard"]
    /\ UNCHANGED <<lockVars, old_tail_, line>>

\* Where Release returns to.
Return(t) == IF caller[t] = "Unlock" THEN "flag" ELSE "idle"

\* Release: nobody is behind, the lock becomes free.
CasRelease(t) ==
    /\ Goto(t, "release", Return(t))
    /\ tail_ = t
    /\ tail_' = Null
    /\ line' = Tail(line)
    /\ UNCHANGED <<next_, owner_, released_, old_tail_, caller>>

\* Release: somebody is behind.
CasReleaseFails(t) ==
    /\ Goto(t, "release", "handover")
    /\ tail_ # t
    /\ UNCHANGED <<lockVars, old_tail_, caller, line>>

\* Variant: Release does not wait for its successor to link itself.
ReadNext_NoSpin(t) ==
    /\ Goto(t, "handover", "grant")
    /\ UNCHANGED <<lockVars, old_tail_, caller, line>>

\* The spin on next_ ends.  The local next is next_[t]: its only writer, the
\* successor, has written it.
ReadNext(t) ==
    /\ Goto(t, "handover", "grant")
    /\ next_[t] # Null
    /\ UNCHANGED <<lockVars, old_tail_, caller, line>>

\* Variant: the flag is cleared instead of set.
Grant_Clear(t) ==
    /\ Goto(t, "grant", Return(t))
    /\ owner_' = [owner_ EXCEPT ![next_[t]] = FALSE]
    /\ line' = Tail(line)
    /\ UNCHANGED <<tail_, next_, released_, old_tail_, caller>>

\* next->owner_.test_and_set()
Grant(t) ==
    /\ Goto(t, "grant", Return(t))
    /\ owner_' = [owner_ EXCEPT ![next_[t]] = TRUE]
    /\ line' = Tail(line)
    /\ UNCHANGED <<tail_, next_, released_, old_tail_, caller>>

\* Unlock() records that the Guard has been released.
SetReleased(t) ==
    /\ Goto(t, "flag", "unlocked")
    /\ released_' = [released_ EXCEPT ![t] = TRUE]
    /\ UNCHANGED <<tail_, next_, owner_, old_tail_, caller, line>>

Step(t) == \/ CasTailFails(t) \/ CasTail(t) \/ Link(t) \/ Spin(t)
           \/ Unlock(t) \/ Destroy(t)
           \/ CasRelease(t) \/ CasReleaseFails(t) \/ ReadNext(t) \/ Grant(t)
           \/ SetReleased(t)

Next == \E t \in Threads : Construct(t) \/ Step(t)

Spec == Init /\ [][Next]_vars

\* A thread that uses the lock keeps running and leaves its critical section;
\* nothing obliges it to come back for the lock.
FairSpec == Spec /\ \A t \in Threads : WF_vars(Step(t))

------------------------------------------------------------------------------
Waiting == {"link", "spin"}
Holding == {"cs", "release", "handover", "grant"}

TypeOK == /\ tail_ \in Threads \cup {Null}
          /\ next_ \in [Threads -> Threads \cup {Null}]
          /\ owner_ \in [Threads -> BOOLEAN]
          /\ released_ \in [Threads -> BOOLEAN]
          /\ old_tail_ \in [Threads -> Threads \cup {Null}]
          /\ pc \in [Threads -> Labels]
          /\ caller \in [Threads -> {"Unlock", "~Guard"}]
          /\ line \in Seq(Threads)

\* No two threads are between the end of Acquire and the write of Release
\* that lets the next one in.
MutualExclusion ==
    \A t, u \in Threads : pc[t] \in Holding /\ pc[u] \in Holding => t = u

\* Acquire and Release write through pointers to the Guards of other threads:
\* the Guard behind old_tail_ is still in line when its next_ is written, and
\* the Guard that is granted the lock still spins.
GuardsAlive ==
    \A t \in Threads :
        /\ pc[t] = "link" => /\ old_tail_[t] \in Threads
                             /\ pc[old_tail_[t]] \in Waiting \cup Holding
        /\ pc[t] = "grant" => /\ next_[t] \in Threads
                              /\ pc[next_[t]] = "spin"

\* The lock is granted in the order of the compare_exchanges of Acquire.
Inside == {t \in Threads : pc[t] \in Holding}
Fifo == INSTANCE FifoLock WITH queue <- line, inside <- Inside
GrantedInOrder == Fifo!Spec

\* Once its Guard is in the chain a thread gets the lock, and a release never
\* hangs on a successor that has not yet linked itself.
WaiterEnters == \A t \in Threads : pc[t] \in Waiting ~> pc[t] = "cs"
ReleaseReturns == \A t \in Threads :
                      pc[t] = "handover" ~> pc[t] \in {"idle", "flag"}
NobodyHangs == WaiterEnters /\ ReleaseReturns
==============================================================================
