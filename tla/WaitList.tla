------------------------------ MODULE WaitList ------------------------------
(***************************************************************************)
(* The intrusive wait list every queue of the library uses:                *)
(* asyncband/src/internal/waitlist.rs, a doubly linked list of ids whose   *)
(* nodes live in an arena.  A list is a record, an operation a function of *)
(* it: the owner's lock makes every use of it one step.                    *)
(***************************************************************************)
EXTENDS Arena

None == NoId

NewList == [head |-> None, tail |-> None, nodes |-> NewArena]

Node(prev, next, value) == [linked |-> TRUE, prev |-> prev, next |-> next, value |-> value]

Linked(l, id) == Get(l.nodes, id).linked

Value(l, id) == Get(l.nodes, id).value

\* waiter_mut: the value of a waiter, linked or detached, is replaced.
WithValue(l, id, value) ==
    [l EXCEPT !.nodes = Put(@, id, [Get(@, id) EXCEPT !.value = value])]

\* a with the next, or prev, field of a neighbour changed; None has none.
WithNext(a, id, next) == IF id = None THEN a ELSE Put(a, id, [Get(a, id) EXCEPT !.next = next])

WithPrev(a, id, prev) == IF id = None THEN a ELSE Put(a, id, [Get(a, id) EXCEPT !.prev = prev])

PushFrontKeepsTail(l, value) ==
    LET id == NewId(l.nodes)
    IN  [head |-> id, tail |-> l.tail,
         nodes |-> WithPrev(Insert(l.nodes, Node(None, l.head, value)), l.head, id)]

PushFront(l, value) ==
    LET id == NewId(l.nodes)
    IN  [head |-> id,
         tail |-> IF l.head = None THEN id ELSE l.tail,
         nodes |-> WithPrev(Insert(l.nodes, Node(None, l.head, value)), l.head, id)]

PushBack(l, value) ==
    LET id == NewId(l.nodes)
    IN  [head |-> IF l.tail = None THEN id ELSE l.head,
         tail |-> id,
         nodes |-> WithNext(Insert(l.nodes, Node(l.tail, None, value)), l.tail, id)]

UnlinkWaiterKeepsTail(l, id) ==
    LET prev == Get(l.nodes, id).prev
        next == Get(l.nodes, id).next
        detached == [linked |-> FALSE, prev |-> None, next |-> None, value |-> Value(l, id)]
    IN  IF ~Linked(l, id) THEN l
        ELSE [head |-> IF prev = None THEN next ELSE l.head,
              tail |-> l.tail,
              nodes |-> WithPrev(WithNext(Put(l.nodes, id, detached), prev, next), next, prev)]

\* unlink_waiter, once its predicate agreed: a detached waiter stays as it is.
\* unlink_first_waiter has id = head.
UnlinkWaiter(l, id) ==
    LET prev == Get(l.nodes, id).prev
        next == Get(l.nodes, id).next
        detached == [linked |-> FALSE, prev |-> None, next |-> None, value |-> Value(l, id)]
    IN  IF ~Linked(l, id) THEN l
        ELSE [head |-> IF prev = None THEN next ELSE l.head,
              tail |-> IF next = None THEN prev ELSE l.tail,
              nodes |-> WithPrev(WithNext(Put(l.nodes, id, detached), prev, next), next, prev)]

\* remove_unlinked_waiter asserts that the waiter is not linked.
RemoveUnlinkedWaiter(l, id) == [l EXCEPT !.nodes = RemoveSlot(@, id)]

-----------------------------------------------------------------------------

\* The ids met from first by following a field, cut off once there are too many.
Follow(l, first, field) ==
    LET walk[n \in 0..Len(l.nodes.slots)] ==
          IF n = 0 THEN <<first>>
          ELSE LET last == Last(walk[n - 1])
               IN  IF last = None THEN walk[n - 1]
                   ELSE Append(walk[n - 1], Get(l.nodes, last)[field])
    IN  SelectSeq(walk[Len(l.nodes.slots)], LAMBDA id : id # None)

InOrder(l) == Follow(l, l.head, "next")

LinkedIds(l) == {id \in OccupiedIds(l.nodes) : Linked(l, id)}

DetachedIds(l) == OccupiedIds(l.nodes) \ LinkedIds(l)

\* Following next from the head and prev from the tail meets the linked waiters,
\* each once, in opposite orders.
ListIsWellFormed(l) ==
    /\ ArenaIsConsistent(l.nodes)
    /\ Follow(l, l.tail, "prev") = Reverse(InOrder(l))
    /\ ToSet(InOrder(l)) = LinkedIds(l)
    /\ IsInjective(InOrder(l))
=============================================================================
