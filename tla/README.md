# asyncband: a TLA+ verification project

asyncband is a Rust library of runtime-agnostic synchronisation primitives and channels for async
code. Its correctness rests on a few patterns that are hard to test: futures that may be dropped at
any await, wakers that are called after a lock was released, and counters that are changed without
the lock that guards the queue beside them. This directory models these in TLA+, checks the models
with TLC on small instances, and proves results about its two most delicate algorithms, the internal
semaphore and the oneshot channel, with TLAPS for every number of tasks, permits and wakers.

All paths below are relative to `asyncband/src/`. PROJECT.json gives, for every definition that models
code, the lines it models; for every property, a mutation of a definition that breaks it; and the
list of the main hazards, with the properties that cover each.

## 1. The system and its parts

Three internal building blocks carry almost everything else.

* The **semaphore** (`internal/semaphore.rs`): an atomic permit counter and a FIFO list of waiters
  behind a lock. Mutex, rwlock, once, once cell, once map, singleflight, pools and bounded broadcast
  channels wait through it.
* The **wait list** (`internal/waitlist.rs` over `internal/arena.rs`): a linked list in an arena, whose
  nodes outlive their links. Semaphore, condvar, events, mpmc, mpsc and spmc queues keep waiters in it.
* The **waker set** (`internal/wakerset.rs`), alone or with a counter (`internal/countdown.rs`): latch,
  wait group, once, shutdown, barrier, phaser, completion, watch and broadcast wake all their waiters
  with it.

A *task* is a thread or an executor's task that drives one operation at a time. A *pending* future owns
a node or a token. It is polled after its waker was called, may be polled spuriously, and may be dropped.

| Part | State | Operations | What is hard, and what must hold |
| --- | --- | --- | --- |
| internal semaphore | counter, lock, FIFO of nodes, wakers taken in batches | acquire, try_acquire, drain, reduce, release, release_if_waiters, notify_all, poll and drop of a future | the counter moves without the lock; a future is dropped while permits are assigned to it; a batch fills up in the middle. No permit is lost, made up, or passes the queue; every queued request ends |
| wait list, arena | slots, links, free list, head and tail | push_front, push_back, unlink, remove | ids of detached nodes stay valid until removed; it is a sequence plus a set |
| oneshot | one atomic state byte, message and waker slots, the allocation | send, drop of each side, poll, try_recv | both sides race to free one allocation; slots are uninitialised memory. Freed once, read only when initialised, outcomes agree |
| mpmc queue | values, free capacity, two wait lists, endpoint counts | send, reserve, permits, receive, clone, drop, disconnect | grants and notifications held by futures that are dropped; wait lists moved out at disconnect. Slots are conserved, no value or sender is stranded |
| countdown, latch, wait group | counter, waker set | arrive, count_down; clone, drop and into_future of handles; wait | the counter reaches zero around a registration. Exact count, final zero, no lost waiter |
| mutex, rwlock, public semaphore | a semaphore; borrowed and owned guards, each possibly mapped | lock, read, write, acquire, their owned and try_ forms, map, filter_map, downgrade, split, merge, forget, drops | permits and strong counts move between guard types. Writers are alone, permits come back, the lock outlives its guards |
| upgradable rwlock | two semaphores | read, write, upgradable_read, try_ forms, upgrade, downgrade, guard drops | upgrades and writers wait for each other; calls are dropped with half of their permits |
| condvar | a wait list, beside a mutex | wait, wait_owned, wait_while, notify_one, notify_all | a notified wait is dropped before, or while, it locks again. No notification is lost |
| broadcast | cursors, retained slots, waker set, a semaphore that signals free slots | send, try_send, recv, try_recv, subscribe, clone, drop | slots are freed between a check and a registration; counts are read outside the lock |
| pools | idle objects, size, a semaphore | get, return, detach, retain, replenish_to, extend, drop of the pool | capacity is promised while objects are created; creation fails, panics or is dropped half-way; objects outlive their pool |
| once cell, once map, singleflight | a cell, or an entry per key, with a semaphore of one | get_or_try_init, set, take; compute, try_compute, work, try_work, discard, forget | a value is published in two steps; an abandoned entry is removed by exactly one call, while others join it |
| events | flag or stored signal, wait list | set, reset, wait | signals held by dropped waits; flag read before the lock |
| barrier, phaser | generation or phase, counts, waker set | wait; register, arrive, deregister, close | a dropped wait that has arrived; the last party leaves |
| once, lazy cell | countdown and semaphore; a mutex, an attempt, a poison flag | call_once, wait; force | an attempt is dropped and resumed by another caller; poisoning |
| completion, watch | result or version, waker set | complete, wait; send, changed, recv, subscribe | publication around a registration; versions read twice |
| shutdown | a latch and a wait group | request, poll, guards | completion waits for every guard |
| mpsc, spmc queues | values, capacity, wait list, one waker | as mpmc with one side single | private batches; a notification nobody else may use |
| blocking | a parker with three states and a condition variable | park, park_timeout, unpark | unpark between the check and the sleep; timeouts |

All of these rows are modelled; section 7 says what is left out.

## 2. How the code is modelled

* What a thread does between taking and releasing a lock is one step, unless it touches an atomic
  that others use without the lock: then each access is a step, and the lock a variable.
* Wakers that the code calls after it released the lock are called in steps of their own where the
  order can matter: Semaphore, Events, MpmcQueue, Channel, ZeroWait, WakerSet, Oneshot, Condvar. In
  Broadcast they are called together with the critical section, to keep the model small: a woken task
  reads the state again under the same lock. The variant with separate calls has 944 thousand
  states and passes too, in about twelve minutes.
* Dropping a pending future is an action of every module, enabled at every await of the code.
* Payloads are counted, numbered or left out. The mpmc queue is one VecDeque behind one lock and
  keeps its order by construction, so its values are counted; the mpsc and spmc channels pass values
  through segments, batches and grants, so theirs are numbered.
* Components that owe their users the same are composed in one module, in which a variable that never
  changes says which of them the tasks use (`kind`, `use`, `capacity`). A property stated there is
  checked for each of them, and is stated once.
* Atomics are sequentially consistent in the models. `contention_detected` (a Relaxed hint) is a
  nondeterministic choice in Semaphore. Whether the orderings the code names suffice on
  weaker hardware is not examined.
* Panics that guard against overflow are outside the models; the counters stay far below their width.
  Panics of user code are modelled where the code handles them: pool, once map, lazy cell.

The semaphore is modelled twice. `Semaphore` has every load, exchange and lock; `PermitQueue` is what it
promises: a FIFO of requests, where permits go from a *hand* (a release in progress) to the head of the
queue and become available only when the queue is empty. `SemaphoreRefinement` states that the first
implements the second, and the modules of the semaphore's users are built on `PermitQueue` or, where there is
a single permit that nobody adds to (Once, Cells, OnceMap), on the FIFO lock that it then is.

## 3. Modules

| Module | Code | Notes |
| --- | --- | --- |
| `Semaphore` | `internal/semaphore.rs` | `pc` names the point between two atomic accesses; `seen` is the loaded counter, `rem` what a release still has to place, `granted` the detached nodes, `batch` the wakers in a WakerBatch |
| `PermitQueue` | its promise | `hand` holds the permits of a release in progress |
| `SemaphoreRefinement`, `SemaphoreLiveness`, `MCSemaphore` | | refinement mapping; clients that give back what they acquired; two uses and symmetry for TLC |
| `SequenceLemmas`, `SemaphoreProofs`, `RefinementProofs` | | proofs, section 6 |
| `Arena`, `WaitList` | `internal/arena.rs`, `internal/waitlist.rs` | slots, free list, links and ends, as operators on a record |
| `WaiterList`, `WaiterSeq` | their promise | the sequence with detached nodes that a wait list implements; unlinking from a sequence, as the users of the wait list see it |
| `Events` | `event/auto_reset.rs`, `event/manual_reset.rs` | both events on `WaitList`, and an owner that uses a list in every possible way |
| `Oneshot` | `oneshot/` | one step per atomic or slot access of either side; `alloc`, `slot` and `msg` track memory |
| `Parker`, `Blocking` | `blocking/` | the parker's state, lock and condition variable; a thread in block_on or wait_timeout that awaits a oneshot receiver |
| `BlockingProofs` | | proofs about both, section 6 |
| `MpmcQueue`, `MpmcLiveness` | `mpmc/` | capacity 0 stands for the unbounded queue; a waiter id is absent, waiting, signalled (granted or notified) or stale |
| `Channel`, `MpscBounded`, `MpscUnbounded`, `Spmc`, `Queues` | `mpsc/`, `spmc/` | what the channels share, the three of them, and their composition |
| `ZeroWait`, `Latch`, `WaitGroup`, `Once`, `Shutdown`, `Gates` | `internal/countdown.rs`, `internal/wakerset.rs`, `latch/`, `waitgroup/`, `once/once/`, `shutdown/` | waiting for a counter to reach zero, the four gates built on it, and their composition |
| `WakerSet`, `Barrier`, `Phaser`, `Watch`, `Completion`, `Rounds` | `internal/wakerset.rs`, `barrier/`, `phaser/`, `watch/`, `completion/` | waker sets with the arena's ids as tokens, which are reused, the four primitives that keep one under their own lock, and their composition |
| `Guards`, `UpgradableRwLock`, `Condvar`, `Locks` | `mutex/`, `rwlock/`, `semaphore/`, `condvar/` | guards as tokens for permits of a `PermitQueue`; two queues for the upgradable lock; a condvar with producers and consumers; their composition |
| `Broadcast` | `broadcast/mpmc/` | capacity 0 stands for the unbounded channel; a PermitQueue announces freed slots |
| `PoolState`, `Pool` | `pool/` | the idle objects and the size; bounded or unbounded pools, chosen at the start |
| `OnceMap`, `Cells`, `OneTime` | `once/once_map/`, `singleflight/`, `once/once_cell/`, `once/lazy_cell/`, `internal/value_cell.rs` | one key, whose entries have identities, so that a stale one differs from its successor; the two cells; their composition |

## 4. Runs

| Run | Module, config | Distinct states | What it shows |
| --- | --- | --- | --- |
| `semaphore` | MCSemaphore, Semaphore.cfg | 374 341 | with permits that are taken and given back, and without any at the start, as the broadcast channel uses it: `IInv` (the inductive invariant), `Conservation` (permits in the counter, nodes, hands and guards add up), `NoBarging` (while a node is linked only fully assigned waiters obtain permits), `ImplementsPermitQueue` |
| `semaphore_liveness` | SemaphoreLiveness, SemaphoreLiveness.cfg | 129 925 | `QueuedCompletes`, `AllReturned`: queued requests end, and the permits come back |
| `events` | Events, Events.cfg | 113 117 | `ListIsConsistent` (links, ends and free list agree), `ImplementsWaiterList`; `SignalIsKept` (no cancellation loses a signal), `SelectedWaitEnds` (a selected wait completes although the event is reset) |
| `oneshot` | Blocking, Blocking.cfg | 3 996 | `MemorySafety` (freed once, read when initialised), `NoPanic` (no `unreachable!` arm of channel or parker), `OutcomesAgree`, `AwaitCompletes`, for tasks and for a blocked thread |
| `mpmc` | MpmcLiveness, MpmcQueue.cfg | 104 438 | `QueueIsSound` (slots are conserved; poll and drop use no id of a list that was moved out), `NobodyIsPassed` (no sender waits beside a free slot, no value without a receiver on its way), `ReceiveProceeds`, `SendCompletes` |
| `gates` | Gates, Gates.cfg | 64 280 | latch, wait group, once, shutdown: `GateIsSound` (exact counts, valid tokens), `ZeroIsFinal`, `WaitEnds` |
| `rounds` | Rounds, Rounds.cfg | 157 703 | barrier, phaser, watch, completion: `TokensAreValid` (a token of an earlier generation never removes another's waker), `CountIsExact`, `ReleasedWaitEnds` |
| `locks` | Locks, Locks.cfg | 63 926 | mutex, rwlock, semaphore, upgradable lock, condvar: `WriterIsAlone`, across maps, upgrades and downgrades; `PermitsComeBack`; `LockOutlivesUse`; `RequestsEnd`, so writers and upgrades do not deadlock and readers starve nobody; `ItemIsTaken`: no notification is lost to a dropped wait |
| `queues` | Queues, Queues.cfg | 35 950 | both mpsc channels and spmc: `DeliversInOrder`, `NothingIsStranded` (capacity and notifications have an owner), `ReadyFutureEnds` |
| `broadcast` | Broadcast, Broadcast.cfg | 129 435 | `BacklogIsExact` (cursors are counted, tokens valid), `SenderProceeds`, `ReceiverProceeds` |
| `pool` | Pool, Pool.cfg | 30 524 | `PoolAccounting` (the pool never exceeds its size, no permit is lost), `GetCompletes` |
| `onetime` | OneTime, OneTime.cfg | 200 354 | once map, singleflight, once cell, lazy cell: `InitIsExclusive`, `EntryIsShared`, `CallEnds` |

All runs pass; no disagreement between the code and its documentation was found. Each takes between a few
seconds and two minutes.

Deadlock is checked where calls can always be made again (`semaphore`, `events`, `onetime`). It is not where the
system really stops: endpoints that are all dropped (`oneshot`, `mpmc`, `queues`, `broadcast`, the watch channel of
`rounds`), gates that are open and completions that are complete (`gates`, `rounds`), locks and pools that are
dropped (`locks`, `pool`), and clients that have made all their calls (`semaphore_liveness`, `locks`).

### Bounds

* Three tasks, or two on each side. Three are needed for the interesting races of a queue: one gives
  back, one is cancelled, and one waits behind it.
* Semaphore: 2 permits and requests of 1 and 2, so that a request can be partly assigned, and a waker
  batch of 1 (`Batch`; the code's is larger), so that a distribution is interrupted after every waiter.
  `MaxPermits` and `MaxDebt` cap what release adds and reduce_permits removes; debts are queued
  whenever the permits are held by guards. Requests of 0 permits return at once and are not modelled.
* Semaphore liveness: `Rounds` = 2 acquisitions per task, so that one can queue again behind others.
* Events: `MaxSlots` = 4 slots of the arena, enough to unlink at both ends and between linked neighbours,
  and to reuse slots.
* Mpmc: capacities 1 and 2, and unbounded with at most `MaxValues` = 2 queued values. Queues: the same
  capacities, `MaxValues` = 4 values in all, so that with segments of 2 (`SegmentCapacity`; the code's is
  larger) one is sealed while the receiver has a batch, and at most `MaxPermits` = 1 reserved permit per task.
* Gates: a latch of 3 with arrivals of 0, 1 and 2 (it saturates), at most one handle per task of a wait group.
* Rounds: a barrier of 2 among 3 tasks, so that somebody always belongs to another generation, over
  `MaxGenerations` = 3; a phaser of at most `MaxParties` = 3 over `MaxPhase` = 2 phases; `MaxVersion` = 2
  publications.
* Locks: `MaxReaders` = 2 reader permits. With 1 an upgrade would not wait, with 2 there are a reader beside
  the upgradable reader and a writer that needs both. Guards are mapped up to `MaxDepth` = 2 times, a
  task has at most `MaxTokens` = 2 of them, and a semaphore loses at most `MaxLost` = 2 permits.
  Condvar: `MaxItems` = 2 items for 2 consumers.
* Broadcast: `MaxTail` = 3 publications, refused when a send starts and never in the middle of one, on one
  slot (full after every publication) and on the unbounded channel.
* Pool: 2 objects for 3 tasks; in the unbounded pool `MaxObjects` = 3. OneTime: one more entry than
  tasks, so that a fresh one is always available; keys do not interact.

## 5. Fairness

Only weak fairness of individual tasks, and only of these:

* a thread inside a call goes on (the code has no unbounded spinning: a failed exchange is followed by
  a retry, and the exchanges that succeed are those of tasks that make progress), and so does one that
  has wakers to call;
* an executor polls a future whose waker was called; where `PermitQueue` stands for the semaphore, one
  whose permits were assigned, which by `NoLostWakeup` means that its waker is called;
* guards, permits and pooled objects are dropped in the end, and the futures of user code (a manager's
  creation, a map's computation, a lazy cell's attempt) end. Without this, waiting for them may of course
  last for ever. The sender of a oneshot channel sends or is dropped in the end.

Nobody is obliged to start, cancel, upgrade, subscribe or receive. `SendCompletes` (mpmc) assumes in
addition that receivers take values, as part of the property.

## 6. Proofs

### The semaphore

`SemaphoreProofs` and `RefinementProofs` prove, for all sets of tasks, permits, amounts and batch sizes that
satisfy `TasksAssumption` (finitely many tasks; `Debt` and `Free` are none of them) and `PermitsAssumption`
(numbers are naturals, requests and batch are positive), and for any set of calls:

| Theorem | Statement |
| --- | --- |
| `Invariance` | `Spec => []IInv` |
| `TypeCorrect` | `Spec => []TypeOK`; the counter never goes below zero |
| `PermitsNeverPassQueue` | while a node is linked the counter is 0 |
| `FetchAddStartsAtZero` | the unchecked `fetch_add` of distribute_permits adds to 0 |
| `WakeupsAreKept` | a fully assigned waiter was woken or is in a batch about to be |
| `NodesAreOwned` | each pending future owns exactly one node, each node has one future |
| `QueueIsNotOvertaken` | `Spec => NoBarging` |
| `Refinement` | `Spec => ImplementsPermitQueue`: each step is one of the permit queue or changes nothing it shows |
| `SemaphoreIsPermitQueue` | `Spec => PQ!Spec`: the same with the initial states |

The claim that matters is the one in the comment of `release`: permits are available only if no waiter is
linked, so the counter can be raised without the lock. It is not inductive. The task that links a node has
emptied the counter some steps before, and in between others release: that this leaves the counter at 0
depends on the lock (`LockOwnership`: at a program point under the lock, the task holds it) and on what each
task knows at its program point (`CounterDiscipline`: before it pushes, the counter is 0 and it asks for more
than it saw; before the exchange of a surplus, the queue is empty; a release on the fast path saw a counter
other than 0). `FetchAddFromZero` is part of it: a distributor that loaded 0 under the lock finds 0 again,
since every other task that could raise the counter needs the lock or a counter other than 0. The other
conjuncts concern the nodes: `NodeOwnership` (needed to find the node of a future that is dropped),
`NeedBounded` (a node needs no more than was requested, so that what a dropped future gives back is not
negative) and `NoLostWakeup`. `IInv` is their conjunction.

The proofs have one lemma per conjunct, with one step per action: `StepLock`, `StepCounter`, `StepNodes`,
`StepWakeup`, `StepType`, collected in `StepIInv`. `SequenceLemmas` has what they need about the elements of
`Tail`, `Append`, `RemoveAt` and concatenations.

The refinement mapping shows a task that has emptied the counter as queued already, before its node is
linked: between the two steps the lock is its own, so nobody can tell. That at most one task is in this
state, and none while permits are available, follows from `IInv`. `CallInv` adds what the permit queue
asks of its callers: only a release in progress has permits in hand, and requests are of at least one permit.
The lemmas of `RefinementProofs` then take one or a few actions each to the action of `PermitQueue` they
implement; `QuietStep` and `EnqueueIsQuiet` collect those that it does not show. What is checked
on `PermitQueue` about the mutex, the locks, the pool and the broadcast channel so rests on the code's
atomics, not on an assumed semaphore.

### The oneshot channel

`BlockingProofs` proves, for any set of wakers, and for a receiver that is polled by tasks or by a thread whose
parker others unpark at any time:

| Theorem | Statement |
| --- | --- |
| `ChannelInvariance` | `BlockingSpec => []OneshotInv` |
| `MemoryIsSafe` | `BlockingSpec => []MemorySafety` |
| `SidesAgree` | `BlockingSpec => []OutcomesAgree` |
| `PanicsAreUnreachable` | `BlockingSpec => []NoPanic` |

One byte tells two sides who owns two slots and an allocation. `MemorySafety` is about single accesses; that
they are safe depends on what happened since each side last read the byte. `OneshotInv` says, for every
program point, what the byte can be and who owns what: `SenderKnows` and `ReceiverKnows` for what each side
has learned, `BeforeTheEnd` and `AfterTheEnd` for the byte before and after the sender's last change of
it, `SlotOwnership` for the waker slot, `Outcomes` for the message. The lemma `StepInv` has one step per action;
`ChannelStep` lifts it to the composition with the parker, which changes nothing of the channel.

### Only model-checked

Liveness (out of the prover's reach); `Conservation`, and the accounting properties of the other modules, which
sum over sets and sequences and would need induction; the refinement of `WaiterList` by the linked list, for
the same reason; and the modules not named above.

## 7. Not modelled

* Memory orderings weaker than sequential consistency.
* Overflow panics, which the counts cannot reach, and the allocation of memory, except in Oneshot.
* Operations that only read (`len`, `is_disconnected`, `available_permits`, Debug) and endpoints that only forward.
* The error types, and the internal lock, a wrapper of `std::sync::Mutex` that ignores poisoning: a critical
  section is a step, or the lock a variable, where it is used.
* In the pools, ObjectStatus, a statistic that only predicates of user code read; in the broadcast channel,
  the drops of payloads and the shrinking of the buffer; in the lazy cell, a poll from a destructor that
  runs during another panic.
* Tests, benchmarks, examples and xtask, which are not part of the library. They are about half of the
  repository's Rust code.

What would come next is proof: `WriterIsAlone` from `PermitQueue`; `QueueIsSound` of MpmcQueue; `TokensAreValid` of
Rounds and `GateIsSound`; `InitIsExclusive` of OneTime.
