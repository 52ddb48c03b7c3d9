----------------------------- MODULE RingQueue -----------------------------
(***************************************************************************)
(* LockFree::RingQueue (lockfree/ring_queue.hpp): a bounded ring that one  *)
(* thread fills (Owner) and any thread empties, item by item (TryPop) or   *)
(* several at once into an Intrusive::Queue (Grab).                        *)
(*                                                                         *)
(* The k-th item pushed is the number k.  A step is one access to an       *)
(* atomic of the ring with the local computation that follows; a slot that *)
(* Grab copies is linked into its list in the step that reads it.          *)
(***************************************************************************)
EXTENDS Integers, Sequences, FiniteSets, SequencesExt, FiniteSetsExt

CONSTANTS Owner,      \* the thread that pushes
          Thieves,    \* the other threads
          Capacity,
          GrabSizes,  \* the sizes Grab is called with
          MaxPush     \* bound: how many items are pushed in a behaviour

ASSUME RingAssumption == /\ Owner \notin Thieves
                         /\ Capacity \in Nat \ {0}
                         /\ GrabSizes \subseteq Nat \ {0}
                         /\ MaxPush \in Nat

Threads == Thieves \cup {Owner}
Items == 1..MaxPush
Slots == 0..Capacity
None == 0      \* nullptr

VARIABLES buffer_,   \* the items, by slot
          head_,     \* count of successful pops
          tail_,     \* count of successful pushes
          next,      \* SinglyDirectedListNode::next of every item
          pc,
          old_head,  \* locals: the loaded head_,
          size,      \*   the size Grab was called with,
          count,     \*   grabbed_cnt,
          loaded,    \*   the items read from slots since head_ was loaded
          got        \* history: the items that each thread's calls returned

vars == <<buffer_, head_, tail_, next, pc, old_head, size, count, loaded, got>>

Init == /\ buffer_ = [s \in Slots |-> None]
        /\ head_ = 0
        /\ tail_ = 0
        /\ next = [x \in Items |-> None]
        /\ pc = [t \in Threads |-> "idle"]
        /\ old_head = [t \in Threads |-> 0]
        /\ size = [t \in Threads |-> 0]
        /\ count = [t \in Threads |-> 0]
        /\ loaded = [t \in Threads |-> << >>]
        /\ got = [t \in Threads |-> << >>]

Goto(t, from, to) == pc[t] = from /\ pc' = [pc EXCEPT ![t] = to]
Slot(position) == position % (Capacity + 1)

------------------------------------------------------------------------------
\* TryPush: with the head_ it loads and its own tail_ the ring is full or not.
PushBegin ==
    /\ tail_ < MaxPush
    /\ tail_ - head_ # Capacity
    /\ Goto(Owner, "idle", "store")
    /\ UNCHANGED <<buffer_, head_, tail_, next, old_head, size, count, loaded, got>>

Store ==
    /\ Goto(Owner, "store", "publish")
    /\ buffer_' = [buffer_ EXCEPT ![Slot(tail_)] = tail_ + 1]
    /\ UNCHANGED <<head_, tail_, next, old_head, size, count, loaded, got>>

Publish ==
    /\ Goto(Owner, "publish", "idle")
    /\ tail_' = tail_ + 1
    /\ UNCHANGED <<buffer_, head_, next, old_head, size, count, loaded, got>>

------------------------------------------------------------------------------
PopLoadHead(t) ==
    /\ Goto(t, "idle", "pop")
    /\ old_head' = [old_head EXCEPT ![t] = head_]
    /\ UNCHANGED <<buffer_, head_, tail_, next, size, count, loaded, got>>

\* Variants: the test for an empty ring is missing, or compares slots of a ring
\* without the extra one.
PopLoadTail_NoTest(t) ==
    /\ Goto(t, "pop", "read")
    /\ UNCHANGED <<buffer_, head_, tail_, next, old_head, size, count, loaded, got>>

PopLoadTail_Slots(t) ==
    /\ Goto(t, "pop", IF old_head[t] % Capacity = tail_ % Capacity
                      THEN "idle" ELSE "read")
    /\ UNCHANGED <<buffer_, head_, tail_, next, old_head, size, count, loaded, got>>

\* TryPop loads tail_: it returns nullptr, or goes on to read the slot.
PopLoadTail(t) ==
    /\ Goto(t, "pop", IF old_head[t] = tail_ THEN "idle" ELSE "read")
    /\ UNCHANGED <<buffer_, head_, tail_, next, old_head, size, count, loaded, got>>

PopRead(t) ==
    /\ Goto(t, "read", "popCas")
    /\ loaded' = [loaded EXCEPT ![t] = << buffer_[Slot(old_head[t])] >>]
    /\ UNCHANGED <<buffer_, head_, tail_, next, old_head, size, count, got>>

\* head_.compare_exchange_strong moves head_ by n, and the call returns what
\* was read; or it reloads head_ and the call starts over.
CasHead(t, from, n, success) ==
    /\ Goto(t, from, success)
    /\ head_ = old_head[t]
    /\ head_' = head_ + n
    /\ got' = [got EXCEPT ![t] = @ \o loaded[t]]
    /\ UNCHANGED <<buffer_, tail_, next, old_head, size, count>>

\* Variant: what was read before the failed CAS is kept.
CasHeadFails_NoClear(t, from, again) ==
    /\ Goto(t, from, again)
    /\ head_ # old_head[t]
    /\ old_head' = [old_head EXCEPT ![t] = head_]
    /\ UNCHANGED <<buffer_, head_, tail_, next, size, count, loaded, got>>

CasHeadFails(t, from, again) ==
    /\ Goto(t, from, again)
    /\ head_ # old_head[t]
    /\ old_head' = [old_head EXCEPT ![t] = head_]
    /\ loaded' = [loaded EXCEPT ![t] = << >>]
    /\ UNCHANGED <<buffer_, head_, tail_, next, size, count, got>>

PopCas(t) == /\ CasHead(t, "popCas", 1, "idle")
             /\ loaded' = [loaded EXCEPT ![t] = << >>]
PopCasFails(t) == CasHeadFails(t, "popCas", "pop")

------------------------------------------------------------------------------
GrabLoadHead(t) ==
    /\ Goto(t, "idle", "grab")
    /\ \E n \in GrabSizes : size' = [size EXCEPT ![t] = n]
    /\ old_head' = [old_head EXCEPT ![t] = head_]
    /\ UNCHANGED <<buffer_, head_, tail_, next, count, loaded, got>>

GrabLoadTail(t) ==
    LET n == Min({tail_ - old_head[t], size[t]})
    IN  /\ Goto(t, "grab", IF n = 0 THEN "grabCas" ELSE "copy")
        /\ count' = [count EXCEPT ![t] = n]
        /\ UNCHANGED <<buffer_, head_, tail_, next, old_head, size, loaded, got>>

\* Intrusive::Queue::Push of node behind the items of list.
PushNode(list, node) ==
    [x \in Items |-> IF x = node THEN None
                     ELSE IF list # << >> /\ x = Last(list) THEN node
                     ELSE next[x]]

\* One round of the loop that copies naively.
Copy(t) ==
    LET item == buffer_[Slot(old_head[t] + Len(loaded[t]))]
    IN  /\ Goto(t, "copy", IF Len(loaded[t]) + 1 = count[t] THEN "grabCas"
                                                            ELSE "copy")
        /\ loaded' = [loaded EXCEPT ![t] = Append(@, item)]
        /\ next' = PushNode(loaded[t], item)
        /\ UNCHANGED <<buffer_, head_, tail_, old_head, size, count, got>>

GrabCas(t) == /\ CasHead(t, "grabCas", count[t], "drain")
              /\ UNCHANGED loaded
GrabCasFails(t) == CasHeadFails(t, "grabCas", "grab")

\* The caller has emptied the list that Grab filled.
Drain(t) ==
    /\ Goto(t, "drain", "idle")
    /\ loaded' = [loaded EXCEPT ![t] = << >>]
    /\ UNCHANGED <<buffer_, head_, tail_, next, old_head, size, count, got>>

TryPush == PushBegin \/ Store \/ Publish
TryPop(t) == \/ PopLoadHead(t) \/ PopLoadTail(t) \/ PopRead(t)
             \/ PopCas(t) \/ PopCasFails(t)
Grab(t) == \/ GrabLoadHead(t) \/ GrabLoadTail(t) \/ Copy(t)
           \/ GrabCas(t) \/ GrabCasFails(t)

Next == TryPush \/ \E t \in Threads : TryPop(t) \/ Grab(t) \/ Drain(t)

Spec == Init /\ [][Next]_vars

------------------------------------------------------------------------------
TypeOK == /\ buffer_ \in [Slots -> Items \cup {None}]
          /\ head_ \in 0..MaxPush
          /\ tail_ \in 0..MaxPush
          /\ next \in [Items -> Items \cup {None}]
          /\ pc \in [Threads -> {"idle", "store", "publish", "pop", "read",
                                 "popCas", "grab", "copy", "grabCas", "drain"}]
          /\ old_head \in [Threads -> 0..MaxPush]
          /\ size \in [Threads -> GrabSizes \cup {0}]
          /\ count \in [Threads -> 0..MaxPush]
          /\ loaded \in [Threads -> Seq(Items)]
          /\ got \in [Threads -> Seq(Items)]

\* The ring is a bounded FIFO: an item in it is never overwritten, and what a
\* call returns are the oldest items at the instant its CAS succeeds, although
\* they were read before.
InRing == [i \in 1..(tail_ - head_) |-> buffer_[Slot(head_ + i - 1)]]
Ring == INSTANCE BoundedFifo WITH items <- InRing
ImplementsBoundedFifo == Ring!Spec

\* TryPop returns nullptr ("if queue is empty"), and Grab copies nothing, only
\* if the ring is empty when they load tail_, however old the head_ they
\* compare it with.
NothingMeansEmpty ==
    [][\A t \in Threads :
          \/ pc[t] = "pop" /\ pc'[t] = "idle"
          \/ pc[t] = "grab" /\ pc'[t] = "grabCas"
          => head_ = tail_]_vars

\* A thread that has finished a Grab finds in its list the items it grabbed,
\* linked in their order: "if sequence of slots was affected by other threads
\* then we start again" leaves no trace of the copies that were thrown away.
GrabbedListIntact ==
    \A t \in Threads :
        pc[t] = "drain" =>
            \A i \in 1..Len(loaded[t]) :
                next[loaded[t][i]] = IF i < Len(loaded[t]) THEN loaded[t][i+1]
                                                           ELSE None
=============================================================================
