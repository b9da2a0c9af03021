------------------------------ MODULE Condvar ------------------------------
(***************************************************************************)
(* Condvar (asyncband/src/condvar/mod.rs) with the Mutex it is used with   *)
(* (asyncband/src/mutex/mod.rs).  The mutex is the permit queue that       *)
(* Semaphore implements, with one permit; the condvar is a list of waiters *)
(* behind a lock, each of whose critical sections is one step.  Wakers are *)
(* called after it.                                                        *)
(*                                                                         *)
(* The tasks use both as wait_while is meant to be used: producers add an  *)
(* item under the mutex and notify, consumers wait while there is no item  *)
(* and take one.  Every future may be dropped while it is pending.         *)
(***************************************************************************)
EXTENDS WaiterSeq, Integers

CONSTANTS
    Producers,
    Consumers,
    Debt,        \* reduce_permits is not called on a mutex
    MaxItems     \* bound on the items

Tasks == Producers \cup Consumers

VARIABLES
    avail, queue, granted, want, held, hand,   \* the mutex: a PermitQueue
    waiters,     \* Condvar::waiters, the linked ones
    node,        \* the WaitState of a task's node, "none" without one
    baton,       \* tasks that own a NotifyOneBaton
    items,       \* the data the mutex protects
    pc,          \* where each task is
    toWake,      \* wakers of the condvar each task has still to call
    woken        \* tasks whose Wait future has to be polled

mutex == <<avail, queue, granted, want, held, hand>>
condvar == <<waiters, node, toWake, woken>>
vars == <<mutex, condvar, baton, items, pc>>

M == INSTANCE PermitQueue WITH Permits <- 1, Amounts <- {1}

\* "locking" and "relocking" wait for the mutex, in lock and at the end of wait;
\* "registered" has still to drop the guard; "relock" has a notification.
PCs == {"idle", "locking", "locked", "registered", "waiting", "relock", "relocking", "passing", "notify"}

TypeOK ==
    /\ waiters \in Seq(Tasks)
    /\ node \in [Tasks -> {"none", "waiting", "one", "all"}]
    /\ baton \subseteq Tasks
    /\ items \in 0..MaxItems
    /\ pc \in [Tasks -> PCs]
    /\ toWake \in [Tasks -> SUBSET Tasks]
    /\ woken \subseteq Tasks

CondvarInit ==
    /\ waiters = <<>>
    /\ node = [t \in Tasks |-> "none"]
    /\ baton = {}
    /\ items = 0
    /\ toWake = [t \in Tasks |-> {}]
    /\ woken = {}

\* t has left the critical sections and the drops it was in.
Goto(t, from, to) ==
    /\ pc[t] = from
    /\ hand[t] = 0 /\ toWake[t] = {}
    /\ pc' = [pc EXCEPT ![t] = to]

-----------------------------------------------------------------------------
(* The mutex.                                                              *)

Lock(t) ==
    /\ \/ M!Take(t, 1) /\ Goto(t, "idle", "locked")
       \/ M!Wait(t, 1) /\ Goto(t, "idle", "locking")
       \/ M!Collect(t) /\ Goto(t, "locking", "locked")
    /\ UNCHANGED <<condvar, baton, items>>

LockDrop(t) ==
    /\ M!Abandon(t)
    /\ Goto(t, "locking", "idle")
    /\ UNCHANGED <<condvar, baton, items>>

\* release_with_lock distributing the permit.
Distribute(t) ==
    /\ M!Assign(t) \/ M!Publish(t)
    /\ UNCHANGED <<condvar, baton, items, pc>>

\* A guard dropped without more; a consumer that sees an item takes it.
Unlock(t) ==
    /\ t \in Producers \/ items = 0
    /\ Goto(t, "locked", "idle")
    /\ M!GiveBack(t, 1)
    /\ UNCHANGED <<condvar, baton, items>>

\* A producer adds an item, drops its guard and then notifies.
Produce(t) ==
    /\ t \in Producers
    /\ items < MaxItems
    /\ Goto(t, "locked", "notify")
    /\ items' = items + 1
    /\ M!GiveBack(t, 1)
    /\ UNCHANGED <<condvar, baton>>

\* wait_while returned: a consumer takes an item and drops its guard.
Consume(t) ==
    /\ t \in Consumers
    /\ items > 0
    /\ Goto(t, "locked", "idle")
    /\ items' = items - 1
    /\ M!GiveBack(t, 1)
    /\ UNCHANGED <<condvar, baton>>

-----------------------------------------------------------------------------
(* Notifying.                                                              *)

\* notify_one_locked, in a list and with nodes that may have changed before.
NotifyOneLocked(t, list, nodes) ==
    /\ waiters' = IF list = <<>> THEN list ELSE Tail(list)
    /\ node' = IF list = <<>> THEN nodes ELSE [nodes EXCEPT ![Head(list)] = "one"]
    /\ toWake' = [toWake EXCEPT ![t] = IF list = <<>> THEN {} ELSE {Head(list)}]

NotifyOne(t) ==
    /\ Goto(t, "notify", "idle")
    /\ NotifyOneLocked(t, waiters, node)
    /\ UNCHANGED <<mutex, baton, items, woken>>

NotifyAll(t) ==
    /\ Goto(t, "notify", "idle")
    /\ waiters' = <<>>
    /\ node' = [u \in Tasks |-> IF u \in ToSet(waiters) THEN "all" ELSE node[u]]
    /\ toWake' = [toWake EXCEPT ![t] = ToSet(waiters)]
    /\ UNCHANGED <<mutex, baton, items, woken>>

Wake(t) ==
    /\ \E u \in toWake[t] :
          /\ toWake' = [toWake EXCEPT ![t] = @ \ {u}]
          /\ woken' = woken \cup {u}
    /\ UNCHANGED <<mutex, waiters, node, baton, items, pc>>

-----------------------------------------------------------------------------
(* Waiting.                                                                *)

\* The first poll of Wait, in wait_while: the node is linked ...
Register(t) ==
    /\ t \in Consumers
    /\ items = 0
    /\ Goto(t, "locked", "registered")
    /\ waiters' = Append(waiters, t)
    /\ node' = [node EXCEPT ![t] = "waiting"]
    /\ UNCHANGED <<mutex, baton, items, toWake, woken>>

\* ... before the guard is dropped.
UnlockGuard(t) ==
    /\ Goto(t, "registered", "waiting")
    /\ M!GiveBack(t, 1)
    /\ UNCHANGED <<condvar, baton, items>>

WaitPollPending(t) ==
    /\ Goto(t, "waiting", "waiting")
    /\ node[t] = "waiting"
    /\ woken' = woken \ {t}
    /\ UNCHANGED <<mutex, waiters, node, baton, items, toWake>>

WaitPollNotified(t) ==
    /\ Goto(t, "waiting", "relock")
    /\ node[t] \in {"one", "all"}
    /\ baton' = IF node[t] = "one" THEN baton \cup {t} ELSE baton
    /\ node' = [node EXCEPT ![t] = "none"]
    /\ woken' = woken \ {t}
    /\ UNCHANGED <<mutex, waiters, items, toWake>>

\* mutex.lock() again, in the same poll; then the baton is completed.
Relock(t) ==
    /\ \/ M!Take(t, 1) /\ Goto(t, "relock", "locked") /\ baton' = baton \ {t}
       \/ M!Wait(t, 1) /\ Goto(t, "relock", "relocking") /\ UNCHANGED baton
       \/ M!Collect(t) /\ Goto(t, "relocking", "locked") /\ baton' = baton \ {t}
    /\ UNCHANGED <<condvar, items>>

\* Wait::drop: a notification it was given goes to the next waiter.
WaitDrop(t) ==
    /\ Goto(t, "waiting", "idle")
    /\ woken' = woken \ {t}
    /\ LET list == Unlink(waiters, t)
           nodes == [node EXCEPT ![t] = "none"]
       IN  \/ node[t] = "one" /\ NotifyOneLocked(t, list, nodes)
           \/ node[t] # "one" /\ waiters' = list /\ node' = nodes /\ UNCHANGED toWake
    /\ UNCHANGED <<mutex, baton, items>>

\* Mutant: the baton is not passed on.
RelockDropForgetsBaton(t) ==
    /\ M!Abandon(t)
    /\ Goto(t, "relocking", "idle")
    /\ baton' = baton \ {t}
    /\ UNCHANGED <<condvar, items>>

\* The lock future is dropped first, then the baton.
RelockDrop(t) ==
    /\ M!Abandon(t)
    /\ Goto(t, "relocking", IF t \in baton THEN "passing" ELSE "idle")
    /\ UNCHANGED <<condvar, baton, items>>

\* NotifyOneBaton::drop.
BatonDrop(t) ==
    /\ Goto(t, "passing", "idle")
    /\ baton' = baton \ {t}
    /\ NotifyOneLocked(t, waiters, node)
    /\ UNCHANGED <<mutex, items, woken>>

-----------------------------------------------------------------------------

\* What a thread does once it is in a call.
Proceed(t) ==
    \/ Distribute(t) \/ Wake(t)
    \/ Unlock(t) \/ Produce(t) \/ Consume(t) \/ NotifyOne(t) \/ NotifyAll(t)
    \/ Register(t) \/ UnlockGuard(t) \/ Relock(t) \/ BatonDrop(t)

WaitPoll(t) == WaitPollPending(t) \/ WaitPollNotified(t)

Step(t) ==
    \/ Lock(t) \/ LockDrop(t)
    \/ WaitPoll(t) \/ WaitDrop(t) \/ RelockDrop(t)
    \/ Proceed(t)

-----------------------------------------------------------------------------

\* No item is stranded: while there is one, a consumer does not stay in wait, also
\* when the consumer that was notified of it is dropped before it has the mutex
\* again.  Registration before the unlock, the hand-over in Wait::drop and the baton
\* are all needed for it.
ItemIsTaken ==
    \A t \in Consumers :
       (items > 0 /\ pc[t] = "waiting") ~> (items = 0 \/ pc[t] # "waiting")
=============================================================================
