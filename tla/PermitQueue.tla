---------------------------- MODULE PermitQueue ----------------------------
(***************************************************************************)
(* What the internal semaphore promises its users (mutex, rwlock, condvar, *)
(* pool, ...): a FIFO queue of permit requests in which every operation on *)
(* the counter and the queue takes effect at one instant.  Permits are     *)
(* available, assigned to a request, held by a caller, or in the hand of a *)
(* caller that is giving them back.                                        *)
(***************************************************************************)
EXTENDS Integers, Sequences

CONSTANTS
    Tasks,    \* callers, with at most one pending request each
    Debt,     \* the owner of a debt left by reduce_permits
    Permits,  \* permits at the start
    Amounts   \* the permit counts callers ask for, add or remove

VARIABLES
    avail,    \* permits nobody holds
    queue,    \* requests not yet fully assigned, first to last
    granted,  \* callers whose request is fully assigned but not collected
    want,     \* the size of each caller's pending request, 0 if none
    held,     \* permits each caller holds
    hand      \* permits each caller is giving back

vars == <<avail, queue, granted, want, held, hand>>

Init ==
    /\ avail = Permits
    /\ queue = <<>>
    /\ granted = {}
    /\ want = [t \in Tasks |-> 0]
    /\ held = [t \in Tasks |-> 0]
    /\ hand = [t \in Tasks |-> 0]

Busy(t) == want[t] > 0 \/ hand[t] > 0

\* Permits are taken directly only when no request is queued.
Take(t, n) ==
    /\ ~Busy(t)
    /\ queue = <<>>
    /\ n <= avail
    /\ avail' = avail - n
    /\ held' = [held EXCEPT ![t] = @ + n]
    /\ UNCHANGED <<queue, granted, want, hand>>

\* A request that cannot be met takes what there is and queues for the rest.
Wait(t, n) ==
    /\ ~Busy(t)
    /\ avail < n
    /\ avail' = 0
    /\ queue' = Append(queue, [owner |-> t, needed |-> n - avail])
    /\ want' = [want EXCEPT ![t] = n]
    /\ UNCHANGED <<granted, held, hand>>

\* A reduction that cannot be met is repaid before any request.
Reduce(n) ==
    /\ \/ n <= avail /\ avail' = avail - n /\ UNCHANGED queue
       \/ /\ avail < n
          /\ avail' = 0
          /\ queue' = <<[owner |-> Debt, needed |-> n - avail]>> \o queue
    /\ UNCHANGED <<granted, want, held, hand>>

GiveBack(t, n) ==
    /\ ~Busy(t)
    /\ n <= held[t]
    /\ held' = [held EXCEPT ![t] = @ - n]
    /\ hand' = [hand EXCEPT ![t] = n]
    /\ UNCHANGED <<avail, queue, granted, want>>

Add(t, n) ==
    /\ ~Busy(t)
    /\ hand' = [hand EXCEPT ![t] = n]
    /\ UNCHANGED <<avail, queue, granted, want, held>>

\* Permits that are consumed rather than given back.
Forget(t, n) ==
    /\ ~Busy(t)
    /\ n <= held[t]
    /\ held' = [held EXCEPT ![t] = @ - n]
    /\ UNCHANGED <<avail, queue, granted, want, hand>>

Satisfy(owner) == granted' = granted \cup ({owner} \ {Debt})

\* Permits given back go to the first request, as many as it still needs.
Assign(t) ==
    /\ hand[t] > 0
    /\ queue # <<>>
    /\ LET first == Head(queue)
       IN  \/ /\ first.needed <= hand[t]
              /\ hand' = [hand EXCEPT ![t] = @ - first.needed]
              /\ queue' = Tail(queue)
              /\ Satisfy(first.owner)
           \/ /\ first.needed > hand[t]
              /\ hand' = [hand EXCEPT ![t] = 0]
              /\ queue' = <<[first EXCEPT !.needed = @ - hand[t]]>> \o Tail(queue)
              /\ UNCHANGED granted
    /\ UNCHANGED <<avail, want, held>>

\* They become available only when no request is queued.
Publish(t) ==
    /\ hand[t] > 0
    /\ queue = <<>>
    /\ avail' = avail + hand[t]
    /\ hand' = [hand EXCEPT ![t] = 0]
    /\ UNCHANGED <<queue, granted, want, held>>

Collect(t) ==
    /\ t \in granted
    /\ granted' = granted \ {t}
    /\ held' = [held EXCEPT ![t] = @ + want[t]]
    /\ want' = [want EXCEPT ![t] = 0]
    /\ UNCHANGED <<avail, queue, hand>>

\* A dropped request gives back what was assigned to it.
Abandon(t) ==
    /\ want[t] > 0
    /\ \/ /\ t \in granted
          /\ granted' = granted \ {t}
          /\ hand' = [hand EXCEPT ![t] = want[t]]
          /\ UNCHANGED queue
       \/ \E i \in DOMAIN queue :
             /\ queue[i].owner = t
             /\ hand' = [hand EXCEPT ![t] = want[t] - queue[i].needed]
             /\ queue' = SubSeq(queue, 1, i - 1) \o SubSeq(queue, i + 1, Len(queue))
             /\ UNCHANGED granted
    /\ want' = [want EXCEPT ![t] = 0]
    /\ UNCHANGED <<avail, held>>

\* notify_all satisfies the first request out of nothing.
NotifyFirst ==
    /\ queue # <<>>
    /\ queue' = Tail(queue)
    /\ Satisfy(Head(queue).owner)
    /\ UNCHANGED <<avail, want, held, hand>>

Next ==
    \/ \E t \in Tasks :
          \/ \E n \in 1..avail : Take(t, n)
          \/ \E n \in 1..held[t] : GiveBack(t, n) \/ Forget(t, n)
          \/ \E n \in Amounts : Wait(t, n) \/ Add(t, n)
          \/ Assign(t) \/ Publish(t) \/ Collect(t) \/ Abandon(t)
    \/ \E n \in Amounts : Reduce(n)
    \/ NotifyFirst

Spec == Init /\ [][Next]_vars
=============================================================================
