------------------------------ MODULE Channels ------------------------------
(***************************************************************************)
(* Channels and Select.  A channel has a ring of values, the producers     *)
(* that wait because it is full and the consumers that wait because it is  *)
(* empty, all under one spin lock.  Select puts one awaiter into the list  *)
(* of each channel; the channel that gives it a value removes the others   *)
(* from their lists, without the spin locks of these.                      *)
(*                                                                         *)
(* An awaiter is the pair of its fiber and 0, for Receive, or the number   *)
(* of its channel among the arguments of Select: it is an address on the   *)
(* fiber's stack, which the next call uses again.                          *)
(***************************************************************************)
EXTENDS Fibers

CONSTANTS ChannelNames,    \* the channels
          kCapacity,       \* of each
          kArgsCount,      \* the number of channels of a Select
          Values

ASSUME ChannelAssumption ==
    /\ ChannelNames \subseteq Locks
    /\ kCapacity \in [ChannelNames -> Nat]
    /\ kArgsCount \in Nat \ {0}
    /\ Null \notin Values

Awaiters == Fibers \X (0..kArgsCount)
FiberOf(n) == n[1]
Slots == 1..kArgsCount

List == INSTANCE IntrusiveList WITH Nodes <- Awaiters, Lists <- ChannelNames

VARIABLES
    buffer_,            \* the values between head_ and tail_
    producers_queue_,   \* the fibers whose awaiters are in it
    consumers_queue_,   \* the memory of the lists of awaiters
    selector,           \* the locals of Select and its awaiters
    popped,             \* the SelectorAwaiter whose Resume each runner executes
    sender,             \* the producer whose result_ each runner is to move out,
                        \* and, as history, what is in it
    got                 \* the results of each runner's calls; the last one of a
                        \* call that waits is Null until it is given a value

queues == <<buffer_, producers_queue_, consumers_queue_>>
channels == <<queues, selector, popped, sender, got>>

ChannelInit ==
    /\ buffer_ = [c \in ChannelNames |-> << >>]
    /\ producers_queue_ = [c \in ChannelNames |-> << >>]
    /\ consumers_queue_ = List!Empty
    /\ selector = [f \in Fibers |-> [first |-> [i \in Slots |-> Null],
                                     second |-> [i \in Slots |-> Null],
                                     index_ |-> [k \in Slots |-> k],
                                     is_result_set |-> FALSE]]
    /\ popped = [a \in Runners |-> Null]
    /\ sender = [a \in Runners |-> Null]
    /\ got = [a \in Runners |-> << >>]

At(a) == Call(a).at
Results(r, v) == got' = [got EXCEPT ![r] = Append(@, v)]
SetResult(f, v) == got' = [got EXCEPT ![f][Len(got[f])] = v]
HasConsumers(c) == consumers_queue_.size[c] > 0

\* Variant: the ring has room for one more.
HasSpace_OffByOne(c) == Len(buffer_[c]) <= kCapacity[c]

HasSpace(c) == Len(buffer_[c]) < kCapacity[c]

------------------------------------------------------------------------------
\* TrySendImpl, when a consumer waits: it is the first to be popped and is
\* given the value.  A ChannelConsumerAwaiter schedules its fiber at once.
Sending == {"Send", "TrySend"}
SendToConsumer(a) ==
    LET n == consumers_queue_.head[At(a)]
    IN  /\ Inside(a, Sending)
        /\ HasConsumers(At(a))
        /\ consumers_queue_' = List!TryPopFront(consumers_queue_, At(a))
        /\ SetResult(FiberOf(n), Call(a).value)
        /\ IF n = <<FiberOf(n), 0>>
           THEN To(a, "unguard") /\ Schedule(FiberOf(n)) /\ UNCHANGED popped
           ELSE /\ To(a, "unlink")
                /\ popped' = [popped EXCEPT ![a] = n]
                /\ UNCHANGED scheduled
        /\ UNCHANGED <<coroutines, spinlocks, todo, buffer_, producers_queue_, selector,
                       sender>>

\* Variant: the value goes to the buffer although a consumer waits.
SendToBuffer_ConsumersLater(a) ==
    /\ Inside(a, Sending)
    /\ HasSpace(At(a))
    /\ To(a, "unguard")
    /\ buffer_' = [buffer_ EXCEPT ![At(a)] = Append(@, Call(a).value)]
    /\ UNCHANGED <<runtime, spinlocks, todo, producers_queue_, consumers_queue_, selector,
                   popped, sender, got>>

SendToBuffer(a) ==
    /\ Inside(a, Sending)
    /\ ~HasConsumers(At(a)) /\ HasSpace(At(a))
    /\ To(a, "unguard")
    /\ buffer_' = [buffer_ EXCEPT ![At(a)] = Append(@, Call(a).value)]
    /\ UNCHANGED <<runtime, spinlocks, todo, producers_queue_, consumers_queue_, selector,
                   popped, sender, got>>

\* Send waits, TrySend returns false.
SendWaits(f) ==
    /\ Inside(f, {"Send"})
    /\ ~HasConsumers(At(f)) /\ ~HasSpace(At(f))
    /\ To(f, "suspend")
    /\ producers_queue_' = [producers_queue_ EXCEPT ![At(f)] = Append(@, f)]
    /\ UNCHANGED <<runtime, spinlocks, todo, buffer_, consumers_queue_, selector, popped,
                   sender, got>>

TrySendFails(a) ==
    /\ Inside(a, {"TrySend"})
    /\ ~HasConsumers(At(a)) /\ ~HasSpace(At(a))
    /\ To(a, "unguard")
    /\ UNCHANGED <<runtime, spinlocks, todo, channels>>

------------------------------------------------------------------------------
\* The rest of a Select or a TrySelect is skipped.
SkipRest(a) == todo' = [todo EXCEPT ![a] = << Head(@) >> \o SubSeq(@, 2 + Call(a).rest, Len(@))]

\* Receive and TryReceive, when there is a value: it leaves the buffer.
Receive(a) ==
    /\ Inside(a, {"Receive", "TryReceive"})
    /\ buffer_[At(a)] # << >>
    /\ To(a, "refill")
    /\ Results(a, Head(buffer_[At(a)]))
    /\ buffer_' = [buffer_ EXCEPT ![At(a)] = Tail(@)]
    /\ SkipRest(a)
    /\ UNCHANGED <<runtime, spinlocks, producers_queue_, consumers_queue_, selector, popped,
                   sender>>

\* Variant: the producers are not looked at.
Refill_Not(a) ==
    /\ Goto(a, "refill", "unguard")
    /\ UNCHANGED <<runtime, spinlocks, todo, channels>>

\* TryTakeValueFromProducersQueue.  ChannelProducerAwaiter::Resume schedules the
\* first producer that waits,
Refill(a) ==
    LET waiting == producers_queue_[At(a)]
        f == Head(waiting)
    IN  /\ Goto(a, "refill", IF waiting = << >> THEN "unguard" ELSE "move")
        /\ IF waiting = << >>
           THEN UNCHANGED <<producers_queue_, sender, scheduled>>
           ELSE /\ producers_queue_' = [producers_queue_ EXCEPT ![At(a)] = Tail(@)]
                /\ sender' = [sender EXCEPT ![a] = [fiber |-> f, value |-> Call(f).value]]
                /\ Schedule(f)
        /\ UNCHANGED <<coroutines, spinlocks, todo, buffer_, consumers_queue_, selector,
                       popped, got>>

\* and then moves the value out of the awaiter.  That is gone if the producer,
\* which needs no spin lock to go on, has left Send: then it may be anything.
InSend(f, c) == pc[f] = "unguard" /\ Call(f).op = "Send" /\ At(f) = c
MoveValue(a) ==
    /\ Goto(a, "move", "unguard")
    /\ \E v \in IF InSend(sender[a].fiber, At(a)) THEN {sender[a].value} ELSE Values :
          buffer_' = [buffer_ EXCEPT ![At(a)] = Append(@, v)]
    /\ sender' = [sender EXCEPT ![a] = Null]
    /\ UNCHANGED <<runtime, spinlocks, todo, producers_queue_, consumers_queue_, selector,
                   popped, got>>

\* Receive waits, TryReceive returns nullopt.
ReceiveWaits(f) ==
    /\ Inside(f, {"Receive"})
    /\ buffer_[At(f)] = << >>
    /\ To(f, "suspend")
    /\ consumers_queue_' = List!PushBack(consumers_queue_, At(f), <<f, 0>>)
    /\ Results(f, Null)
    /\ UNCHANGED <<runtime, spinlocks, todo, buffer_, producers_queue_, selector, popped,
                   sender>>

TryReceiveFails(a) ==
    /\ Inside(a, {"TryReceive"})
    /\ buffer_[At(a)] = << >>
    /\ To(a, "unguard")
    /\ UNCHANGED <<runtime, spinlocks, todo, channels>>

------------------------------------------------------------------------------
\* GenerateRandomPermutation of the channels and the awaiters.  An awaiter
\* learns its place only when it is swapped into the place at hand: the one
\* that ends in the first place keeps the index it had.
Swap(s, i, j) == [s EXCEPT ![i] = s[j], ![j] = s[i]]
Permuted(chans, f, picks) ==
    FoldLeft(LAMBDA s, i : LET first == Swap(s.first, i, picks[i])
                           IN  [chans |-> Swap(s.chans, i, picks[i]), first |-> first,
                                index_ |-> [s.index_ EXCEPT ![first[i][2]] = i]],
             [chans |-> chans, first |-> [k \in Slots |-> <<f, k>>],
              index_ |-> [k \in Slots |-> k]],
             [i \in 1..(kArgsCount - 1) |-> kArgsCount + 1 - i])
Picks == {p \in [Slots -> Slots] : \A i \in Slots : p[i] <= i}

\* Select makes its awaiters, and then calls Receive of the channels.
Select(f) ==
    /\ Calls(f, {"Select"})
    /\ \E picks \in Picks :
          LET s == Permuted(Call(f).of, f, picks)
          IN  /\ selector' = [selector EXCEPT ![f] =
                                [first |-> s.first, second |-> [i \in Slots |-> Null],
                                 index_ |-> s.index_, is_result_set |-> FALSE]]
              /\ todo' = [todo EXCEPT ![f] =
                             [i \in Slots |-> [op |-> "SelectorReceive", at |-> s.chans[i],
                                               slot |-> i, rest |-> kArgsCount - i + 1]]
                             \o << [op |-> "SelectSuspend"] >> \o Tail(@)]
    /\ Results(f, Null)
    /\ UNCHANGED <<runtime, spinlocks, pc, queues, popped, sender>>

\* TrySelect calls TryReceive of the channels, in any order.
TrySelect(a) ==
    /\ Calls(a, {"TrySelect"})
    /\ \E p \in [Slots -> Slots] :
          /\ \A i, j \in Slots : p[i] = p[j] => i = j
          /\ todo' = [todo EXCEPT ![a] =
                         [i \in Slots |-> [op |-> "TryReceive", at |-> Call(a).of[p[i]],
                                           rest |-> kArgsCount - i]] \o Tail(@)]
    /\ UNCHANGED <<runtime, spinlocks, pc, channels>>

\* SelectorReceive, when there is a value: the fiber executes Resume of its
\* own awaiter, then refills the buffer, and Select will return.
SelectorReceive(f) ==
    /\ Inside(f, {"SelectorReceive"})
    /\ buffer_[At(f)] # << >>
    /\ To(f, "unlink")
    /\ SetResult(f, Head(buffer_[At(f)]))
    /\ buffer_' = [buffer_ EXCEPT ![At(f)] = Tail(@)]
    /\ popped' = [popped EXCEPT ![f] = selector[f].first[Call(f).slot]]
    /\ SkipRest(f)
    /\ UNCHANGED <<runtime, spinlocks, producers_queue_, consumers_queue_, selector, sender>>

\* SelectorReceive, when there is none: the awaiter is in the list, and then
\* SetQueue says in which list it is.
SelectorWaits(f) ==
    /\ Inside(f, {"SelectorReceive"})
    /\ buffer_[At(f)] = << >>
    /\ To(f, "setQueue")
    /\ consumers_queue_' = List!PushBack(consumers_queue_, At(f),
                                         selector[f].first[Call(f).slot])
    /\ UNCHANGED <<runtime, spinlocks, todo, buffer_, producers_queue_, selector, popped,
                   sender, got>>

SetQueue(f) ==
    LET n == selector[f].first[Call(f).slot]
    IN  /\ Goto(f, "setQueue", "unguard")
        /\ selector' = [selector EXCEPT ![f].second[selector[f].index_[n[2]]] = At(f)]
        /\ UNCHANGED <<runtime, spinlocks, todo, queues, popped, sender, got>>

\* SelectorAwaiter::Resume, after result_: the other awaiters leave the lists.
Unlink(a) ==
    LET n == popped[a]
        s == selector[FiberOf(n)]
        others == {i \in Slots : i # s.index_[n[2]] /\ s.second[i] # Null}
    IN  /\ Goto(a, "unlink", "set")
        /\ consumers_queue_' =
              FoldLeft(LAMBDA mem, i : List!Unlink(mem, s.second[i], s.first[i]),
                       consumers_queue_, SetToSortSeq(others, <))
        /\ UNCHANGED <<runtime, spinlocks, todo, buffer_, producers_queue_, selector, popped,
                       sender, got>>

\* SelectorAwaiter::Resume and AwaitSuspend: whoever tests is_result_set second
\* schedules the fiber.
TestResultSet(f) ==
    /\ selector' = [selector EXCEPT ![f].is_result_set = TRUE]
    /\ IF selector[f].is_result_set THEN Schedule(f) ELSE UNCHANGED scheduled

SetIsResult(a) ==
    /\ Goto(a, "set", IF Call(a).op = "SelectorReceive" THEN "refill" ELSE "unguard")
    /\ TestResultSet(FiberOf(popped[a]))
    /\ popped' = [popped EXCEPT ![a] = Null]
    /\ UNCHANGED <<coroutines, spinlocks, todo, queues, sender, got>>

\* SelectorAwaiter::AwaitSuspend, on the worker.
AwaitSelect(w) ==
    /\ Awaits(w, {"SelectSuspend"})
    /\ Stage(w, "await", "discard")
    /\ TestResultSet(running[w])
    /\ UNCHANGED <<running, awaiter_, need_to_delete_after_discard_, completed, deleted,
                   spinlocks, program, queues, popped, sender, got>>

------------------------------------------------------------------------------
ChannelStep(a) ==
    \/ SendToConsumer(a) \/ SendToBuffer(a) \/ TrySendFails(a)
    \/ Receive(a) \/ TryReceiveFails(a) \/ Refill(a) \/ MoveValue(a)
    \/ TrySelect(a) \/ Unlink(a) \/ SetIsResult(a)

\* What only a fiber can do, since it may block.
FiberChannelStep(f) ==
    \/ SendWaits(f) \/ ReceiveWaits(f)
    \/ Select(f) \/ SelectorReceive(f) \/ SelectorWaits(f) \/ SetQueue(f)

------------------------------------------------------------------------------
ChannelTypeOK ==
    /\ \A c \in ChannelNames : buffer_[c] \in Seq(Values) /\ Len(buffer_[c]) <= kCapacity[c]
    /\ producers_queue_ \in [ChannelNames -> Seq(Fibers)]
    /\ \A c \in ChannelNames : /\ consumers_queue_.head[c] \in Awaiters \cup {Null}
                               /\ consumers_queue_.tail[c] \in Awaiters \cup {Null}
                               /\ consumers_queue_.size[c] \in Nat
    /\ \A n \in Awaiters : /\ consumers_queue_.next[n] \in Awaiters \cup {Null}
                           /\ consumers_queue_.prev[n] \in Awaiters \cup {Null}
    /\ ~consumers_queue_.broken
    /\ \A f \in Fibers : /\ selector[f].first \in [Slots -> Awaiters \cup {Null}]
                         /\ selector[f].second \in [Slots -> ChannelNames \cup {Null}]
                         /\ selector[f].index_ \in [Slots -> Slots]
                         /\ selector[f].is_result_set \in BOOLEAN
    /\ popped \in [Runners -> Awaiters \cup {Null}]
    /\ sender \in [Runners -> [fiber : Fibers, value : Values] \cup {Null}]
    /\ got \in [Runners -> Seq(Values \cup {Null})]

\* The value that is on its way from a producer to the buffer.
InTransit(c) == IF line[c] # << >> /\ sender[Head(line[c])] # Null
                THEN << sender[Head(line[c])].value >> ELSE << >>

\* A value that is sent is received once, in order, whether it goes through
\* the buffer, from a producer that waits or to a consumer that waits.
Channel == INSTANCE FifoChannel
               WITH Channels <- ChannelNames, Receivers <- Runners,
                    queue <- [c \in ChannelNames |->
                                 buffer_[c] \o InTransit(c)
                                     \o [i \in DOMAIN producers_queue_[c] |->
                                            Call(producers_queue_[c][i]).value]],
                    got <- [a \in Runners |-> SelectSeq(got[a], LAMBDA v : v # Null)]
ImplementsFifoChannel == Channel!Spec

\* The awaiters in the list of a channel.
InList(c) ==
    LET mem == consumers_queue_
        at[i \in 1..mem.size[c]] ==
            IF i = 1 THEN mem.head[c] ELSE IF at[i-1] = Null THEN Null ELSE mem.next[at[i-1]]
    IN  {at[i] : i \in 1..mem.size[c]} \ {Null}

\* A fiber whose Receive or Select has not been given a value.
Unserved(f) == got[f] # << >> /\ Last(got[f]) = Null
Consumes(f, c) == Unserved(f) /\ \E k \in 0..kArgsCount : <<f, k>> \in InList(c)

\* A runner that has taken a value, under the spin lock, and has not filled its
\* place in the buffer yet.
Refilling(a) == \/ pc[a] \in {"refill", "move"}
                \/ pc[a] \in {"unlink", "set"} /\ Call(a).op = "SelectorReceive"

\* Nobody waits in vain: a producer only while the buffer is full or is being
\* filled again, a consumer only while it is empty.
NobodyWaitsInVain ==
    \A c \in ChannelNames :
        /\ producers_queue_[c] # << >>
              => ~HasSpace(c) \/ (line[c] # << >> /\ Refilling(Head(line[c])))
        /\ (\E f \in Fibers : Consumes(f, c)) => buffer_[c] = << >>

\* "return nullptr if queue is empty" (list.hpp): an awaiter that leaves the
\* list is that of a call which has not been given a value.
PopsWaiting ==
    [][\A c \in ChannelNames :
          consumers_queue_'.size[c] < consumers_queue_.size[c]
              => Unserved(FiberOf(consumers_queue_.head[c]))]_channels

\* Where the awaiter of a fiber may be.
AwaitsChannel(f) == \/ \E c \in ChannelNames : f \in Range(producers_queue_[c]) \/ Consumes(f, c)
                    \/ \E a \in Runners : popped[a] # Null /\ FiberOf(popped[a]) = f
=============================================================================
