------------------------------- MODULE Queues -------------------------------
(***************************************************************************)
(* The channels with one sender or one receiver: mpsc::bounded,            *)
(* mpsc::unbounded and spmc.  They owe their users the same: every         *)
(* accepted value arrives once and in order, and nobody sleeps through     *)
(* what they wait for.                                                     *)
(***************************************************************************)
EXTENDS Channel

CONSTANTS Capacities, SegmentCapacity, Unbounded

ASSUME QueuesAssumption ==
    /\ Capacities \subseteq Nat \ {0}
    /\ {MaxValues, MaxPermits, SegmentCapacity} \subseteq Nat \ {0}
    /\ One \notin Many /\ Nobody \notin Tasks

VARIABLE kind   \* "mpsc", "mpsc unbounded" or "spmc"

allVars == <<kind, vars>>

B == INSTANCE MpscBounded
U == INSTANCE MpscUnbounded
S == INSTANCE Spmc

Init ==
    \/ kind = "mpsc" /\ B!Init
    \/ kind = "mpsc unbounded" /\ U!Init
    \/ kind = "spmc" /\ S!Init

Step(t) ==
    \/ kind = "mpsc" /\ B!Step(t)
    \/ kind = "mpsc unbounded" /\ U!Step(t)
    \/ kind = "spmc" /\ S!Step(t)

Next == UNCHANGED kind /\ \E t \in Tasks : Step(t) \/ Wake(t)

Spec == Init /\ [][Next]_allVars

Poll(t) ==
    \/ kind = "mpsc" /\ B!Poll(t)
    \/ kind = "mpsc unbounded" /\ U!Poll(t)
    \/ kind = "spmc" /\ S!Poll(t)

\* Threads call the wakers they have collected and go on to the first poll; executors
\* poll woken futures.
Fairness ==
    \A t \in Tasks :
       /\ WF_allVars(UNCHANGED kind /\ Wake(t))
       /\ WF_allVars(UNCHANGED kind /\ (pc[t] = "polling" \/ t \in woken) /\ Poll(t))

LiveSpec == Spec /\ Fairness

-----------------------------------------------------------------------------

\* Every accepted value is received once, in the order of acceptance, as long as a
\* receiver is left: the queue, or the batch, the sealed segments and the writable
\* one together, hold exactly the values accepted and not received.
DeliversInOrder ==
    /\ ChannelTypeOK
    /\ kind = "mpsc" /\ chan.receiver => HoldsInOrder(B!Values)
    /\ kind = "mpsc unbounded" /\ chan.receiver => HoldsInOrder(U!Values)
    /\ kind = "spmc" /\ chan.receivers # 0 => HoldsInOrder(S!Values)

\* Capacity and notifications are accounted for: capacity of a bounded mpsc has one
\* owner, an spmc value that a receiver waits for has a notified receiver, segments
\* are sealed full; and a waiter id refers to a node while its list is in place (a
\* wrong one would panic in the arena).
NothingIsStranded ==
    /\ kind = "mpsc" => B!CapacityIsOwned
    /\ kind = "mpsc unbounded" => U!SegmentsAreFull
    /\ kind = "spmc" => S!NoStrandedValue

Ready(t) ==
    \/ kind = "mpsc" /\ B!Ready(t)
    \/ kind = "mpsc unbounded" /\ U!Ready(t)
    \/ kind = "spmc" /\ S!Ready(t)

\* A future that could complete does not stay so: it was woken and completes, or
\* others took what it waits for.
ReadyFutureEnds == \A t \in Tasks : Ready(t) ~> ~Ready(t)
=============================================================================
