----------------------------- MODULE WaiterList -----------------------------
(***************************************************************************)
(* What a wait list promises: linked waiters in order, and detached ones   *)
(* that keep their id until they are removed.                              *)
(***************************************************************************)
EXTENDS WaiterSeq

CONSTANT Ids

VARIABLES
    linked,     \* the ids of the linked waiters, first to last
    detached    \* the ids of waiters unlinked and not removed

vars == <<linked, detached>>

Unused(id) == id \notin ToSet(linked) \cup detached

Init == linked = <<>> /\ detached = {}

PushFront == \E id \in Ids : Unused(id) /\ linked' = <<id>> \o linked /\ UNCHANGED detached

PushBack == \E id \in Ids : Unused(id) /\ linked' = Append(linked, id) /\ UNCHANGED detached

\* The first one or any other; a waiter unlinked before stays as it is.
UnlinkWaiter ==
    \E id \in ToSet(linked) :
       /\ linked' = Unlink(linked, id)
       /\ detached' = detached \cup {id}

RemoveUnlinked == \E id \in detached : detached' = detached \ {id} /\ UNCHANGED linked

Next == PushFront \/ PushBack \/ UnlinkWaiter \/ RemoveUnlinked

Spec == Init /\ [][Next]_vars
=============================================================================
