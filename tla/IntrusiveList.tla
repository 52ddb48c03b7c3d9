---------------------------- MODULE IntrusiveList ----------------------------
(***************************************************************************)
(* Intrusive::List, as operators on the memory that lists and nodes share: *)
(* head, tail and size of each list, next and prev of each node; broken    *)
(* says that an operation has used nullptr as a node.                      *)
(***************************************************************************)
EXTENDS Integers

CONSTANTS Nodes, Lists, Null

Empty == [head |-> [l \in Lists |-> Null], tail |-> [l \in Lists |-> Null],
          size |-> [l \in Lists |-> 0], broken |-> FALSE,
          next |-> [n \in Nodes |-> Null], prev |-> [n \in Nodes |-> Null]]

SetNext(mem, n, m) == IF n = Null THEN [mem EXCEPT !.broken = TRUE]
                                  ELSE [mem EXCEPT !.next[n] = m]
SetPrev(mem, n, m) == IF n = Null THEN [mem EXCEPT !.broken = TRUE]
                                  ELSE [mem EXCEPT !.prev[n] = m]

PushFront(mem, l, n) ==
    IF mem.size[l] = 0
    THEN [mem EXCEPT !.size[l] = 1, !.head[l] = n, !.tail[l] = n,
                     !.next[n] = Null, !.prev[n] = Null]
    ELSE SetPrev([mem EXCEPT !.size[l] = @ + 1, !.next[n] = mem.head[l], !.prev[n] = Null,
                             !.head[l] = n],
                 mem.head[l], n)

\* Onto an empty list PushBack calls PushFront and goes on, which links the
\* node to itself and counts it twice.
PushBack(mem, l, n) ==
    LET m == IF mem.size[l] = 0 THEN PushFront(mem, l, n) ELSE mem
        last == m.tail[l]
        linked == [m EXCEPT !.next[n] = Null, !.prev[n] = last]
    IN  SetNext([linked EXCEPT !.size[l] = @ + 1, !.tail[l] = n], last, n)

\* The list without its first or its last node, mem.head[l] or mem.tail[l],
\* which TryPopFront and TryPopBack return when the size is not 0; with size 1
\* both return the head.
PopLast(mem, l) == [mem EXCEPT !.size[l] = 0, !.head[l] = Null, !.tail[l] = Null]

TryPopFront(mem, l) ==
    IF mem.size[l] = 0 THEN mem
    ELSE IF mem.size[l] = 1 THEN PopLast(mem, l)
    ELSE IF mem.head[l] = Null THEN [mem EXCEPT !.broken = TRUE]
    ELSE LET second == mem.next[mem.head[l]]
         IN  SetPrev([mem EXCEPT !.size[l] = @ - 1, !.head[l] = second], second, Null)

TryPopBack(mem, l) ==
    IF mem.size[l] = 0 THEN mem
    ELSE IF mem.size[l] = 1 THEN PopLast(mem, l)
    ELSE IF mem.tail[l] = Null THEN [mem EXCEPT !.broken = TRUE]
    ELSE LET last == mem.prev[mem.tail[l]]
         IN  SetNext([mem EXCEPT !.size[l] = @ - 1, !.tail[l] = last], last, Null)

Unlink(mem, l, n) ==
    IF n = Null THEN mem
    ELSE IF n = mem.head[l] THEN TryPopFront(mem, l)
    ELSE IF n = mem.tail[l] THEN TryPopBack(mem, l)
    ELSE SetPrev(SetNext([mem EXCEPT !.size[l] = @ - 1], mem.prev[n], mem.next[n]),
                 mem.next[n], mem.prev[n])
=============================================================================
