----------------------------- MODULE PoolState -----------------------------
(***************************************************************************)
(* PoolState (asyncband/src/pool/state.rs): the idle objects of a pool in  *)
(* the order they came, and the number of objects that belong to it.       *)
(***************************************************************************)
EXTENDS Integers, SequencesExt

EmptyPool == [idle |-> <<>>, size |-> 0]

\* pop takes the object that waits longest, or the one that came last.
Popped(s, order) == IF order = "fifo" THEN Head(s.idle) ELSE Last(s.idle)

AfterPop(s, order) ==
    [s EXCEPT !.idle = IF order = "fifo" THEN Tail(@) ELSE Front(@)]

AddIdle(s, o) == [idle |-> Append(s.idle, o), size |-> s.size + 1]

AddActive(s) == [s EXCEPT !.size = @ + 1]

ReturnIdle(s, o) == [s EXCEPT !.idle = Append(@, o)]

DetachOne(s) == [s EXCEPT !.size = @ - 1]

Swap(q, i, j) == [q EXCEPT ![i] = q[j], ![j] = q[i]]

\* The first n iterations of retain: an object that is kept is swapped to the end of
\* the objects kept so far.
Compact(q, keep, n) ==
    LET After[i \in 0..n] ==
            IF i = 0 THEN [q |-> q, retained |-> 0]
            ELSE LET before == After[i - 1]
                 IN  IF before.q[i] \in keep
                     THEN [q |-> Swap(before.q, before.retained + 1, i),
                           retained |-> before.retained + 1]
                     ELSE before
    IN  After[n]

Retain(s, keep) ==
    LET all == Compact(s.idle, keep, Len(s.idle))
    IN  [idle |-> SubSeq(all.q, 1, all.retained),
         size |-> s.size - (Len(s.idle) - all.retained)]

\* The predicate panics after n objects: nothing is removed.
RetainPanics(s, keep, n) == [s EXCEPT !.idle = Compact(@, keep, n).q]

-----------------------------------------------------------------------------

\* retain keeps exactly the objects the predicate keeps, in their order, and one
\* that panics keeps them all.
RetainIsFilter(s) ==
    \A keep \in SUBSET ToSet(s.idle) :
       /\ Retain(s, keep).idle = SelectSeq(s.idle, LAMBDA o : o \in keep)
       /\ \A n \in 0..Len(s.idle) : ToSet(RetainPanics(s, keep, n).idle) = ToSet(s.idle)
=============================================================================
