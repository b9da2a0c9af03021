------------------------- MODULE SemaphoreLiveness -------------------------
(***************************************************************************)
(* Progress of queued acquisitions.  Callers follow the rule every user of *)
(* a semaphore must: ask for no more than there is, and do not wait while  *)
(* holding permits.  Each task makes Rounds acquisitions, so that finitely *)
(* many steps compete with any one exchange loop or lock and weak fairness *)
(* of the steps is enough: the code's lock is not fair, and an exchange    *)
(* that competitors keep losing to can only be delayed by finitely many.   *)
(***************************************************************************)
EXTENDS Semaphore

CONSTANT Rounds  \* bound: acquisitions each task starts

ASSUME RoundsAssumption == Rounds \in Nat /\ Amounts \subseteq 1..Permits

VARIABLE round   \* acquisitions each task has started

liveVars == <<vars, round>>

LiveInit == Init /\ round = [t \in Tasks |-> 0]

Start(t) ==
    /\ round[t] < Rounds
    /\ held[t] = 0
    /\ \E n \in Amounts : Acquire(t, n)
    /\ round' = [round EXCEPT ![t] = @ + 1]

GiveBack(t) == Release(t, held[t]) /\ held[t] > 0 /\ UNCHANGED round

Internal(t) == Step(t) /\ UNCHANGED round

\* An executor polls a future again after its waker was called.
WokenPoll(t) == t \in woken /\ (PollReady(t) \/ PollPending(t)) /\ UNCHANGED round

DropFuture(t) == DropAcquire(t) /\ UNCHANGED round

LiveNext ==
    \E t \in Tasks :
       Start(t) \/ GiveBack(t) \/ Internal(t) \/ WokenPoll(t) \/ DropFuture(t)

\* Threads keep running, guards are dropped eventually and woken futures are
\* polled.  Nobody is obliged to start an acquisition or to drop a future.
Fairness ==
    \A t \in Tasks :
       WF_liveVars(Internal(t)) /\ WF_liveVars(GiveBack(t)) /\ WF_liveVars(WokenPoll(t))

LiveSpec == LiveInit /\ [][LiveNext]_liveVars /\ Fairness

\* A queued acquisition completes unless it is dropped: neither a partially
\* assigned head, a cancelled neighbour, a full wake-up batch nor a release on
\* the lock-free path leaves it waiting for ever.
QueuedCompletes ==
    \A t \in Tasks : pc[t] = "pending" ~> pc[t] # "pending"

\* The permits all come back to the counter once the callers are done.
AllReturned ==
    <>[](avail = Permits /\ queue = <<>> /\ \A t \in Tasks : pc[t] = "idle")
=============================================================================
