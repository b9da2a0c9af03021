------------------------------- MODULE Arena -------------------------------
(***************************************************************************)
(* asyncband/src/internal/arena.rs: a vector of slots in which the vacant  *)
(* ones form a free list, the storage of wait lists and waker sets.  An    *)
(* arena is a record; its owner's lock makes every operation one step.     *)
(* Ids are 1, 2, ...; NoId stands for None.                                *)
(***************************************************************************)
EXTENDS Integers, SequencesExt

NoId == 0

Full(v) == [occupied |-> TRUE, value |-> v]

Vacant(next) == [occupied |-> FALSE, next |-> next]

NewArena == [slots |-> <<>>, vacantHead |-> NoId, len |-> 0]

\* get and get_mut find a value.
Has(a, id) == id \in DOMAIN a.slots /\ a.slots[id].occupied

Get(a, id) == a.slots[id].value

Put(a, id, v) == [a EXCEPT !.slots[id] = Full(v)]

OccupiedIds(a) == {id \in DOMAIN a.slots : a.slots[id].occupied}

\* The id that insert returns: the first vacant slot, or a new one.
NewId(a) == IF a.vacantHead # NoId THEN a.vacantHead ELSE Len(a.slots) + 1

Insert(a, v) ==
    IF a.vacantHead # NoId
    THEN [slots |-> [a.slots EXCEPT ![a.vacantHead] = Full(v)],
          vacantHead |-> a.slots[a.vacantHead].next,
          len |-> a.len + 1]
    ELSE [a EXCEPT !.slots = Append(@, Full(v)), !.len = @ + 1]

\* remove panics on a slot that is vacant.
RemoveSlot(a, id) ==
    [slots |-> [a.slots EXCEPT ![id] = Vacant(a.vacantHead)], vacantHead |-> id, len |-> a.len - 1]

\* take_all and into_iter: what they yield; take_all leaves a new arena.
Values(a) == {a.slots[id].value : id \in OccupiedIds(a)}

\* The vacant slots in the order of the free list, cut off once it is too long.
FreeList(a) ==
    LET walk[n \in 0..Len(a.slots)] ==
          IF n = 0 THEN <<a.vacantHead>>
          ELSE LET last == Last(walk[n - 1])
               IN  IF last = NoId \/ Has(a, last) THEN walk[n - 1]
                   ELSE Append(walk[n - 1], a.slots[last].next)
    IN  SelectSeq(walk[Len(a.slots)], LAMBDA id : id # NoId)

\* The free list holds each vacant slot exactly once, so insert never hands out a
\* slot that is in use (its unreachable! arm), and len counts the others.
ArenaIsConsistent(a) ==
    /\ ToSet(FreeList(a)) = DOMAIN a.slots \ OccupiedIds(a)
    /\ IsInjective(FreeList(a))
    /\ a.len = Cardinality(OccupiedIds(a))
=============================================================================
