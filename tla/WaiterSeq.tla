------------------------------ MODULE WaiterSeq ------------------------------
(***************************************************************************)
(* A wait list (asyncband/src/internal/waitlist.rs) as its users see it: a *)
(* sequence of linked waiters, each at most once, detached from the front  *)
(* or from anywhere.  WaitList shows that the arena-backed list behaves so.*)
(***************************************************************************)
EXTENDS Integers, SequencesExt

Place(queue, w) == CHOOSE i \in 1..Len(queue) : queue[i] = w

\* unlink_waiter: a waiter that is already detached is left alone.
Unlink(queue, w) == IF w \in ToSet(queue) THEN RemoveAt(queue, Place(queue, w)) ELSE queue
=============================================================================
