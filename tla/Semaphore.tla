----------------------------- MODULE Semaphore -----------------------------
(***************************************************************************)
(* The internal semaphore (asyncband/src/internal/semaphore.rs) at the     *)
(* granularity of its atomics.  Permits live in three places: the atomic   *)
(* counter, the nodes of the FIFO queue behind a lock, and the hands of a  *)
(* thread that is distributing them.  The counter is read and exchanged    *)
(* without the lock, so every load and exchange is a step of its own; what *)
(* a thread does to the queue under the lock, between two accesses of the  *)
(* counter, is one step.                                                   *)
(*                                                                         *)
(* contention_detected is read and written Relaxed and a stale read is     *)
(* allowed, so a release that sees permits may take either path: the flag  *)
(* itself is not part of the state.                                        *)
(***************************************************************************)
EXTENDS Integers, FiniteSets, SequencesExt

CONSTANTS
    Tasks,       \* threads, each driving at most one Acquire future
    Debt,        \* the owner of a node queued by reduce_permits
    Free,        \* the queue lock has no holder
    Permits,     \* Semaphore::new(permits)
    MaxPermits,  \* bound: permits ever in existence at once
    MaxDebt,     \* bound: permits reduce_permits may take beyond those
    Batch,       \* WakerBatch::STACK_SIZE
    Amounts,     \* the permit counts callers pass
    Calls        \* the operations callers use

ASSUME TasksAssumption == Debt \notin Tasks /\ Free \notin Tasks /\ IsFiniteSet(Tasks)

ASSUME PermitsAssumption ==
    /\ Permits \in Nat /\ MaxPermits \in Nat /\ Permits <= MaxPermits
    /\ MaxDebt \in Nat
    /\ Batch \in Nat \ {0}
    /\ Amounts \subseteq Nat \ {0}

VARIABLES
    avail,    \* available_permits
    lock,     \* the holder of the waiters mutex
    queue,    \* linked nodes, first to last
    granted,  \* owners of detached nodes: needed_permits = 0, not yet removed
    pc,       \* where each task is in the operation it runs
    op,       \* which caller of acquired_or_enqueue the task is in
    req,      \* permits requested by the operation
    seen,     \* the counter as last loaded
    rem,      \* permits a release has not yet placed
    batch,    \* wakers taken from detached nodes, not yet woken
    woken,    \* pending tasks whose waker was called since their last poll
    held,     \* permits owned by the task's guards
    supply    \* history: permits in existence, less the ones reduced away

vars == <<avail, lock, queue, granted, pc, op, req, seen, rem, batch, woken,
          held, supply>>

Node == [owner : Tasks \cup {Debt}, needed : Nat \ {0}]

PCs == {"idle", "load", "lockq", "cas", "push", "pending", "tryCas", "drainCas",
        "relLoad", "relCas", "dlock", "dist", "dadd", "dcas", "dwake", "notify"}

TypeOK ==
    /\ avail \in Nat
    /\ lock \in Tasks \cup {Free}
    /\ queue \in Seq(Node)
    /\ granted \subseteq Tasks
    /\ pc \in [Tasks -> PCs]
    /\ op \in [Tasks -> {"acquire", "reduce"}]
    /\ req \in [Tasks -> Nat]
    /\ seen \in [Tasks -> Nat]
    /\ rem \in [Tasks -> Nat]
    /\ batch \in [Tasks -> SUBSET Tasks]
    /\ woken \subseteq Tasks
    /\ held \in [Tasks -> Nat]
    /\ supply \in Int

Init ==
    /\ avail = Permits
    /\ lock = Free
    /\ queue = <<>>
    /\ granted = {}
    /\ pc = [t \in Tasks |-> "idle"]
    /\ op = [t \in Tasks |-> "acquire"]
    /\ req = [t \in Tasks |-> 0]
    /\ seen = [t \in Tasks |-> 0]
    /\ rem = [t \in Tasks |-> 0]
    /\ batch = [t \in Tasks |-> {}]
    /\ woken = {}
    /\ held = [t \in Tasks |-> 0]
    /\ supply = Permits

Goto(t, label) == pc' = [pc EXCEPT ![t] = label]

\* The call returns: its locals are gone.
Return(t) ==
    /\ pc' = [pc EXCEPT ![t] = "idle"]
    /\ op' = [op EXCEPT ![t] = "acquire"]
    /\ req' = [req EXCEPT ![t] = 0]
    /\ seen' = [seen EXCEPT ![t] = 0]

At(t, label) == pc[t] = label

-----------------------------------------------------------------------------
(* acquired_or_enqueue, called by the first poll of an Acquire and by      *)
(* reduce_permits.                                                         *)

\* Acquire is created and polled for the first time.
Acquire(t, n) ==
    /\ At(t, "idle")
    /\ op' = [op EXCEPT ![t] = "acquire"]
    /\ req' = [req EXCEPT ![t] = n]
    /\ Goto(t, "load")
    /\ UNCHANGED <<avail, lock, queue, granted, seen, rem, batch, woken, held, supply>>

ReducePermits(t, n) ==
    /\ At(t, "idle")
    /\ supply - n >= -MaxDebt
    /\ op' = [op EXCEPT ![t] = "reduce"]
    /\ req' = [req EXCEPT ![t] = n]
    /\ supply' = supply - n
    /\ Goto(t, "load")
    /\ UNCHANGED <<avail, lock, queue, granted, seen, rem, batch, woken, held>>

\* Mutant: the lock is left to the enqueueing step, after the exchange.
LoadWithoutLocking(t) ==
    /\ At(t, "load")
    /\ seen' = [seen EXCEPT ![t] = avail]
    /\ Goto(t, "cas")
    /\ UNCHANGED <<avail, lock, queue, granted, op, req, rem, batch, woken, held, supply>>

Load(t) ==
    /\ At(t, "load")
    /\ seen' = [seen EXCEPT ![t] = avail]
    /\ Goto(t, IF avail >= req[t] THEN "cas" ELSE "lockq")
    /\ UNCHANGED <<avail, lock, queue, granted, op, req, rem, batch, woken, held, supply>>

\* The lock is taken before the exchange that empties the counter.
LockQueue(t) ==
    /\ At(t, "lockq")
    /\ lock = Free
    /\ lock' = t
    /\ Goto(t, "cas")
    /\ UNCHANGED <<avail, queue, granted, op, req, seen, rem, batch, woken, held, supply>>

CasFails(t) ==
    /\ At(t, "cas")
    /\ avail # seen[t]
    /\ seen' = [seen EXCEPT ![t] = avail]
    /\ Goto(t, IF avail >= req[t] \/ lock = t THEN "cas" ELSE "lockq")
    /\ UNCHANGED <<avail, lock, queue, granted, op, req, rem, batch, woken, held, supply>>

\* Every requested permit was there; a lock taken on the way is dropped.
CasTakesAll(t) ==
    /\ At(t, "cas")
    /\ avail = seen[t]
    /\ seen[t] >= req[t]
    /\ avail' = seen[t] - req[t]
    /\ lock' = IF lock = t THEN Free ELSE lock
    /\ held' = IF op[t] = "acquire" THEN [held EXCEPT ![t] = @ + req[t]] ELSE held
    /\ Return(t)
    /\ UNCHANGED <<queue, granted, rem, batch, woken, supply>>

\* What was there is taken and the rest is still to be queued for.
CasTakesSome(t) ==
    /\ At(t, "cas")
    /\ avail = seen[t]
    /\ seen[t] < req[t]
    /\ avail' = 0
    /\ Goto(t, "push")
    /\ UNCHANGED <<lock, queue, granted, op, req, seen, rem, batch, woken, held, supply>>

\* An acquisition joins the tail, a debt the head.
Enqueue(t) ==
    /\ At(t, "push")
    /\ LET needed == req[t] - seen[t]
       IN  queue' = IF op[t] = "acquire"
                    THEN Append(queue, [owner |-> t, needed |-> needed])
                    ELSE <<[owner |-> Debt, needed |-> needed]>> \o queue
    /\ lock' = Free
    /\ \/ /\ op[t] = "acquire"
          /\ Goto(t, "pending")
          /\ seen' = [seen EXCEPT ![t] = 0]
          /\ UNCHANGED <<op, req>>
       \/ op[t] = "reduce" /\ Return(t)
    /\ UNCHANGED <<avail, granted, rem, batch, woken, held, supply>>

-----------------------------------------------------------------------------
(* Acquire::poll_once of a queued acquisition, and Acquire::drop.          *)

PollReady(t) ==
    /\ At(t, "pending")
    /\ lock = Free
    /\ t \in granted
    /\ granted' = granted \ {t}
    /\ woken' = woken \ {t}
    /\ held' = [held EXCEPT ![t] = @ + req[t]]
    /\ Return(t)
    /\ UNCHANGED <<avail, lock, queue, rem, batch, supply>>

\* The poll re-registers the waker: a wake-up seen so far is used up.
PollPending(t) ==
    /\ At(t, "pending")
    /\ lock = Free
    /\ t \notin granted
    /\ woken' = woken \ {t}
    /\ UNCHANGED <<avail, lock, queue, granted, pc, op, req, seen, rem, batch, held, supply>>

Position(t) == CHOOSE i \in DOMAIN queue : queue[i].owner = t

\* Permits the pending acquisition still needs.
Outstanding(t) == IF t \in granted THEN 0 ELSE queue[Position(t)].needed

\* Mutant: only a complete assignment is given back.
AssignedIfComplete(t) == IF t \in granted THEN req[t] ELSE 0

Assigned(t) == req[t] - Outstanding(t)

\* Cancelling unlinks and removes the node; permits already assigned to it are
\* redistributed under the same lock.
DropAcquire(t) ==
    /\ At(t, "pending")
    /\ lock = Free
    /\ queue' = IF t \in granted THEN queue ELSE RemoveAt(queue, Position(t))
    /\ granted' = granted \ {t}
    /\ woken' = woken \ {t}
    /\ rem' = [rem EXCEPT ![t] = Assigned(t)]
    /\ lock' = IF Assigned(t) > 0 THEN t ELSE Free
    /\ pc' = [pc EXCEPT ![t] = IF Assigned(t) > 0 THEN "dist" ELSE "idle"]
    /\ req' = [req EXCEPT ![t] = 0]
    /\ UNCHANGED <<avail, op, seen, batch, held, supply>>

-----------------------------------------------------------------------------
(* The operations that never queue.                                        *)

\* try_acquire: a load that sees too few permits returns false at once.
TryAcquireLoad(t, n) ==
    /\ At(t, "idle")
    /\ avail >= n
    /\ req' = [req EXCEPT ![t] = n]
    /\ seen' = [seen EXCEPT ![t] = avail]
    /\ Goto(t, "tryCas")
    /\ UNCHANGED <<avail, lock, queue, granted, op, rem, batch, woken, held, supply>>

TryAcquireCas(t) ==
    /\ At(t, "tryCas")
    /\ \/ /\ avail = seen[t]
          /\ avail' = avail - req[t]
          /\ held' = [held EXCEPT ![t] = @ + req[t]]
          /\ Return(t)
       \/ /\ avail # seen[t]
          /\ avail < req[t]
          /\ Return(t)
          /\ UNCHANGED <<avail, held>>
       \/ /\ avail # seen[t]
          /\ avail >= req[t]
          /\ seen' = [seen EXCEPT ![t] = avail]
          /\ UNCHANGED <<avail, held, pc, op, req>>
    /\ UNCHANGED <<lock, queue, granted, rem, batch, woken, supply>>

DrainLoad(t, upTo) ==
    /\ At(t, "idle")
    /\ req' = [req EXCEPT ![t] = upTo]
    /\ seen' = [seen EXCEPT ![t] = avail]
    /\ Goto(t, "drainCas")
    /\ UNCHANGED <<avail, lock, queue, granted, op, rem, batch, woken, held, supply>>

\* compare_exchange_weak: the second disjunct is also its spurious failure.
DrainCas(t) ==
    /\ At(t, "drainCas")
    /\ \/ LET drained == IF req[t] <= avail THEN req[t] ELSE avail
          IN  /\ avail = seen[t]
              /\ avail' = avail - drained
              /\ held' = [held EXCEPT ![t] = @ + drained]
              /\ Return(t)
       \/ /\ seen' = [seen EXCEPT ![t] = avail]
          /\ UNCHANGED <<avail, held, pc, op, req>>
    /\ UNCHANGED <<lock, queue, granted, rem, batch, woken, supply>>

-----------------------------------------------------------------------------
(* release, release_with_lock, release_if_waiters and notify_all.          *)

\* A guard gives back n of its permits, through release or release_with_lock.
Release(t, n) ==
    /\ At(t, "idle")
    /\ n <= held[t]
    /\ held' = [held EXCEPT ![t] = @ - n]
    /\ rem' = [rem EXCEPT ![t] = n]
    /\ \E label \in {"relLoad", "dlock"} : Goto(t, label)
    /\ UNCHANGED <<avail, lock, queue, granted, op, req, seen, batch, woken, supply>>

\* Semaphore::release adds permits nobody held.
AddPermits(t, n) ==
    /\ At(t, "idle")
    /\ supply + n <= MaxPermits
    /\ supply' = supply + n
    /\ rem' = [rem EXCEPT ![t] = n]
    /\ Goto(t, "relLoad")
    /\ UNCHANGED <<avail, lock, queue, granted, op, req, seen, batch, woken, held>>

\* Mutant: the exchange is tried even when no permit is available.
ReleaseLoadFromZero(t) ==
    /\ At(t, "relLoad")
    /\ seen' = [seen EXCEPT ![t] = avail]
    /\ Goto(t, "relCas")
    /\ UNCHANGED <<avail, lock, queue, granted, op, req, rem, batch, woken, held, supply>>

\* With permits available and no contention seen the exchange is tried once.
ReleaseLoad(t) ==
    /\ At(t, "relLoad")
    /\ \/ /\ avail # 0
          /\ seen' = [seen EXCEPT ![t] = avail]
          /\ Goto(t, "relCas")
       \/ /\ UNCHANGED seen
          /\ Goto(t, "dlock")
    /\ UNCHANGED <<avail, lock, queue, granted, op, req, rem, batch, woken, held, supply>>

ReleaseCas(t) ==
    /\ At(t, "relCas")
    /\ \/ /\ avail = seen[t]
          /\ avail' = avail + rem[t]
          /\ rem' = [rem EXCEPT ![t] = 0]
          /\ Goto(t, "idle")
       \/ /\ avail # seen[t]
          /\ Goto(t, "dlock")
          /\ UNCHANGED <<avail, rem>>
    /\ seen' = [seen EXCEPT ![t] = 0]
    /\ UNCHANGED <<lock, queue, granted, op, req, batch, woken, held, supply>>

ReleaseIfWaiters(t, n) ==
    /\ At(t, "idle")
    /\ lock = Free
    /\ queue # <<>>
    /\ supply + n <= MaxPermits
    /\ supply' = supply + n
    /\ rem' = [rem EXCEPT ![t] = n]
    /\ lock' = t
    /\ Goto(t, "dist")
    /\ UNCHANGED <<avail, queue, granted, op, req, seen, batch, woken, held>>

DistributeLock(t) ==
    /\ At(t, "dlock")
    /\ lock = Free
    /\ lock' = t
    /\ Goto(t, "dist")
    /\ UNCHANGED <<avail, queue, granted, op, req, seen, rem, batch, woken, held, supply>>

BatchHasRoom(t) == Cardinality(batch[t]) < Batch

\* Detaching the first node: its owner is woken later, a debt is removed.
DetachFirst(t) ==
    LET owner == Head(queue).owner
    IN  /\ queue' = Tail(queue)
        /\ granted' = granted \cup ({owner} \ {Debt})
        /\ batch' = [batch EXCEPT ![t] = @ \cup ({owner} \ {Debt})]

\* One turn of the loop that assigns permits to the first node.
DistributeAssign(t) ==
    /\ At(t, "dist")
    /\ rem[t] > 0
    /\ BatchHasRoom(t)
    /\ queue # <<>>
    /\ LET needed == Head(queue).needed
       IN  \/ /\ needed <= rem[t]
              /\ rem' = [rem EXCEPT ![t] = @ - needed]
              /\ DetachFirst(t)
           \/ /\ needed > rem[t]
              /\ queue' = [queue EXCEPT ![1].needed = @ - rem[t]]
              /\ rem' = [rem EXCEPT ![t] = 0]
              /\ UNCHANGED <<granted, batch>>
    /\ UNCHANGED <<avail, lock, pc, op, req, seen, woken, held, supply>>

\* Surplus permits with nobody queued go to the counter.
DistributeSurplus(t) ==
    /\ At(t, "dist")
    /\ rem[t] > 0
    /\ queue = <<>>
    /\ seen' = [seen EXCEPT ![t] = avail]
    /\ Goto(t, IF avail = 0 THEN "dadd" ELSE "dcas")
    /\ UNCHANGED <<avail, lock, queue, granted, op, req, rem, batch, woken, held, supply>>

DistributeFetchAdd(t) ==
    /\ At(t, "dadd")
    /\ avail' = avail + rem[t]
    /\ rem' = [rem EXCEPT ![t] = 0]
    /\ lock' = Free
    /\ Goto(t, "dwake")
    /\ UNCHANGED <<queue, granted, op, req, seen, batch, woken, held, supply>>

DistributeCas(t) ==
    /\ At(t, "dcas")
    /\ \/ /\ avail = seen[t]
          /\ avail' = avail + rem[t]
          /\ rem' = [rem EXCEPT ![t] = 0]
          /\ lock' = Free
          /\ Goto(t, "dwake")
          /\ seen' = [seen EXCEPT ![t] = 0]
       \/ /\ avail # seen[t]
          /\ seen' = [seen EXCEPT ![t] = avail]
          /\ UNCHANGED <<avail, rem, lock, pc>>
    /\ UNCHANGED <<queue, granted, op, req, batch, woken, held, supply>>

\* All permits are placed, or the batch is full: unlock before waking.
DistributeUnlock(t) ==
    /\ At(t, "dist")
    /\ rem[t] = 0 \/ (queue # <<>> /\ ~BatchHasRoom(t))
    /\ lock' = Free
    /\ Goto(t, "dwake")
    /\ UNCHANGED <<avail, queue, granted, op, req, seen, rem, batch, woken, held, supply>>

DistributeWake(t) ==
    /\ At(t, "dwake")
    /\ woken' = woken \cup {u \in batch[t] : pc[u] = "pending"}
    /\ batch' = [batch EXCEPT ![t] = {}]
    /\ Goto(t, IF rem[t] = 0 THEN "idle" ELSE "dlock")
    /\ UNCHANGED <<avail, lock, queue, granted, op, req, seen, rem, held, supply>>

\* Permits the linked nodes still wait for.
NeededBy(nodes) == FoldSeq(LAMBDA node, sum : node.needed + sum, 0, nodes)

NotifyAll(t) ==
    /\ At(t, "idle")
    /\ lock = Free
    /\ supply + NeededBy(queue) <= MaxPermits
    /\ lock' = t
    /\ Goto(t, "notify")
    /\ UNCHANGED <<avail, queue, granted, op, req, seen, rem, batch, woken, held, supply>>

\* One turn of notify_all's loop: the node gets what it needs from nowhere.
NotifyAllDetach(t) ==
    /\ At(t, "notify")
    /\ queue # <<>>
    /\ supply' = supply + Head(queue).needed
    /\ DetachFirst(t)
    /\ UNCHANGED <<avail, lock, pc, op, req, seen, rem, woken, held>>

NotifyAllUnlock(t) ==
    /\ At(t, "notify")
    /\ queue = <<>>
    /\ lock' = Free
    /\ Goto(t, "dwake")
    /\ UNCHANGED <<avail, queue, granted, op, req, seen, rem, batch, woken, held, supply>>

-----------------------------------------------------------------------------

\* A call made by an idle task.
Call(t) ==
    \/ \E n \in Amounts :
          \/ "acquire" \in Calls /\ Acquire(t, n)
          \/ "release" \in Calls /\ Release(t, n)
          \/ "add" \in Calls /\ AddPermits(t, n)
          \/ "reduce" \in Calls /\ ReducePermits(t, n)
          \/ "try_acquire" \in Calls /\ TryAcquireLoad(t, n)
          \/ "drain" \in Calls /\ DrainLoad(t, n)
          \/ "release_if_waiters" \in Calls /\ ReleaseIfWaiters(t, n)
    \/ "notify_all" \in Calls /\ NotifyAll(t)

\* A step inside a call that has begun.
Step(t) ==
    \/ Load(t) \/ LockQueue(t) \/ CasFails(t) \/ CasTakesAll(t) \/ CasTakesSome(t)
    \/ Enqueue(t) \/ TryAcquireCas(t) \/ DrainCas(t)
    \/ ReleaseLoad(t) \/ ReleaseCas(t)
    \/ DistributeLock(t) \/ DistributeAssign(t) \/ DistributeSurplus(t)
    \/ DistributeFetchAdd(t) \/ DistributeCas(t) \/ DistributeUnlock(t)
    \/ DistributeWake(t) \/ NotifyAllDetach(t) \/ NotifyAllUnlock(t)

\* A queued acquisition is polled again or dropped.
Future(t) == PollReady(t) \/ PollPending(t) \/ DropAcquire(t)

Next == \E t \in Tasks : Call(t) \/ Step(t) \/ Future(t)

Spec == Init /\ [][Next]_vars

-----------------------------------------------------------------------------
(* Properties.                                                             *)

IsLinked(t) == \E node \in ToSet(queue) : node.owner = t

OneNodeEach(nodes) ==
    \A i, j \in 1..Len(nodes) :
       nodes[i].owner = nodes[j].owner /\ nodes[i].owner # Debt => i = j

\* Where a task holds the queue lock; inside the exchange loop it may or may not.
LockedPCs == {"push", "dist", "dadd", "dcas", "notify"}

\* The claim release's lock-free path rests on (semaphore.rs:149-151): while a
\* node is linked no permit is available, so adding to the counter can never
\* bypass a queued acquisition or a debt.
NoPermitsPastQueue == queue # <<>> => avail = 0

\* A permit reaches a caller while nodes are linked only through its own node:
\* neither try_acquire, drain_permits nor a new acquire overtakes the queue.
NoBarging ==
    [][\A t \in Tasks :
          held'[t] > held[t] /\ queue # <<>> => t \in granted]_vars

\* distribute_permits adds with fetch_add, without an overflow check, when it
\* loaded 0 (semaphore.rs:256-262): no other thread can have added meanwhile.
FetchAddFromZero == \A t \in Tasks : pc[t] = "dadd" => avail = 0 /\ queue = <<>>

\* An acquisition whose permits are all assigned has been woken, or its waker
\* is in the batch of a thread that will wake it after unlocking.
NoLostWakeup ==
    \A t \in granted : t \in woken \/ \E u \in Tasks : t \in batch[u]

\* A pending future owns exactly one node, linked or detached, and no node
\* outlives its future: waiter_mut and remove_unlinked_waiter never miss.
NodeOwnership ==
    /\ OneNodeEach(queue)
    /\ \A t \in Tasks : pc[t] = "pending" <=> t \in granted \/ IsLinked(t)
    /\ \A t \in granted : ~IsLinked(t)

\* Permits of the task's guards, release in progress and acquisition.
PermitsOf(t) ==
    held[t] + rem[t] +
    (IF pc[t] = "pending" THEN req[t] - Outstanding(t)
     ELSE IF pc[t] = "push" /\ op[t] = "acquire" THEN seen[t]
     ELSE 0)

\* Permits a running reduce_permits has not yet taken or queued for.
OwedBy(t) ==
    IF op[t] # "reduce" THEN 0
    ELSE IF pc[t] \in {"load", "lockq", "cas"} THEN req[t]
    ELSE IF pc[t] = "push" THEN req[t] - seen[t]
    ELSE 0

IsDebt(node) == node.owner = Debt

\* No interleaving of the lock-free paths, partial assignment, cancellation,
\* batching or debt repayment creates or loses a permit.
Conservation ==
    avail + MapThenSumSet(PermitsOf, Tasks)
    = supply + MapThenSumSet(OwedBy, Tasks) + NeededBy(SelectSeq(queue, IsDebt))

-----------------------------------------------------------------------------
(* The inductive invariant.                                                *)

LockOwnership ==
    \A t \in Tasks :
       /\ pc[t] \in LockedPCs => lock = t
       /\ pc[t] = "cas" /\ seen[t] < req[t] => lock = t

\* The counter leaves 0 only with the queue empty and nobody about to link.
CounterDiscipline ==
    /\ NoPermitsPastQueue
    /\ \A t \in Tasks :
          /\ pc[t] = "push" => avail = 0 /\ seen[t] < req[t]
          /\ pc[t] = "dcas" => queue = <<>>
          /\ pc[t] = "relCas" => seen[t] # 0
          /\ pc[t] = "tryCas" => req[t] <= seen[t]
    /\ FetchAddFromZero

NeedBounded ==
    \A node \in ToSet(queue) :
       node.owner # Debt => node.needed <= req[node.owner]

\* Every fact a step relies on: who holds the lock, what the counter may be
\* while nodes are linked, which future owns which node, who will be woken.
IInv ==
    /\ TypeOK
    /\ LockOwnership
    /\ CounterDiscipline
    /\ NodeOwnership
    /\ NeedBounded
    /\ NoLostWakeup
=============================================================================
