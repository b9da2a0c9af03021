-------------------------------- MODULE Pool --------------------------------
(***************************************************************************)
(* The object pools (asyncband/src/pool/): bounded.rs, in which a checkout *)
(* holds a permit of a semaphore with MaxSize permits, and unbounded.rs,   *)
(* which has no semaphore; the objects are in the PoolState behind a lock. *)
(* The semaphore is the permit queue that Semaphore implements.            *)
(*                                                                         *)
(* A critical section of `slots` is one step; create and is_recyclable are *)
(* awaited outside it, may fail and may be cancelled.  Objects refer to    *)
(* their pool weakly and may outlive it.                                   *)
(***************************************************************************)
EXTENDS PoolState, FiniteSetsExt

CONSTANTS
    Tasks,
    NoDebt,     \* reduce_permits is not called on this semaphore
    NoObject,
    MaxSize,    \* PoolConfig::max_size of the bounded pool
    MaxObjects  \* bound on the objects of an unbounded pool

ASSUME PoolAssumption ==
    /\ NoDebt \notin Tasks /\ NoObject \notin Nat
    /\ MaxSize \in Nat \ {0} /\ MaxObjects \in Nat

VARIABLES
    kind,       \* "bounded" or "unbounded"
    strategy,   \* RecycleCancelledStrategy: "detach" or "return"
    order,      \* QueueStrategy: "fifo" or "lifo"
    alive,      \* the pool has not been dropped
    slots,      \* Pool::slots, a PoolState
    object,     \* the object that each task has
    avail, queue, granted, want, held, hand,   \* permits: a PermitQueue
    todo,       \* objects each replenish_to has still to create
    pc          \* where each task is

permits == <<avail, queue, granted, want, held, hand>>
config == <<kind, strategy, order>>
vars == <<config, alive, slots, object, permits, todo, pc>>

P == INSTANCE PermitQueue WITH
        Debt <- NoDebt, Permits <- MaxSize, Amounts <- 1..MaxSize

\* "pop" to "using" are get and the object it returns, "unpermit" has the permit
\* still to drop, "planning" and "replenishing" are replenish_to.
PCs == {"none", "waiting", "pop", "creating", "checking", "using", "unpermit",
        "planning", "replenishing", "replenished"}

At(places) == {t \in Tasks : pc[t] \in places}

\* Objects that exist, in the pool or with a task, and one that does not.
Existing == ToSet(slots.idle) \cup {object[t] : t \in At({"checking", "using"})}

Fresh == CHOOSE o \in 1..Cardinality(Tasks) + MaxObjects + 1 : o \notin Existing

TypeOK ==
    /\ slots.idle \in Seq(Nat) /\ slots.size \in Nat
    /\ object \in [Tasks -> Nat \cup {NoObject}]
    /\ alive \in BOOLEAN
    /\ todo \in [Tasks -> 0..MaxSize]
    /\ pc \in [Tasks -> PCs]

Init ==
    /\ kind \in {"bounded", "unbounded"}
    /\ strategy \in {"detach", "return"}
    /\ order \in {"fifo", "lifo"}
    /\ alive = TRUE
    /\ slots = EmptyPool
    /\ object = [t \in Tasks |-> NoObject]
    /\ P!Init
    /\ todo = [t \in Tasks |-> 0]
    /\ pc = [t \in Tasks |-> "none"]

\* t goes on once it has distributed the permits in its hand.
Goto(t, from, to) ==
    /\ pc[t] = from
    /\ hand[t] = 0
    /\ pc' = [pc EXCEPT ![t] = to]
    /\ UNCHANGED <<config, alive>>

\* A call on a pool starts while the pool is there, and keeps it there.
Start(t, to) == alive /\ Goto(t, "none", to)

Has(t, o) == object' = [object EXCEPT ![t] = o]

\* Only in the bounded pool is there a permit to drop.
Unpermit == IF kind = "bounded" THEN "unpermit" ELSE "none"

-----------------------------------------------------------------------------
(* get.                                                                    *)

\* In the bounded pool a permit comes first.
Acquire(t) ==
    /\ kind = "bounded"
    /\ \/ P!Take(t, 1) /\ Start(t, "pop")
       \/ P!Wait(t, 1) /\ Start(t, "waiting")
       \/ P!Collect(t) /\ Goto(t, "waiting", "pop")
    /\ UNCHANGED <<slots, object, todo>>

CancelAcquire(t) ==
    /\ Goto(t, "waiting", "none")
    /\ P!Abandon(t)
    /\ UNCHANGED <<slots, object, todo>>

\* In the unbounded pool get goes on as in the bounded one, without a permit.
GetUnbounded(t) ==
    /\ kind = "unbounded"
    /\ Start(t, "pop")
    /\ UNCHANGED <<slots, object, permits, todo>>

\* An object is taken, or create is awaited, both after the lock is released.
PopTo(t, taken) ==
    \/ /\ slots.idle = <<>>
       /\ Goto(t, "pop", "creating")
       /\ UNCHANGED <<slots, object>>
    \/ /\ slots.idle # <<>>
       /\ Goto(t, "pop", taken)
       /\ slots' = AfterPop(slots, order)
       /\ Has(t, Popped(slots, order))

Pop(t) == PopTo(t, "checking") /\ UNCHANGED <<permits, todo>>

\* try_get and get_or_create of a pool without manager, which checks no object.
GetOrCreate(t) ==
    /\ kind = "unbounded"
    /\ PopTo(t, "using")
    /\ UNCHANGED <<permits, todo>>

\* create succeeds, and the object is counted.
Created(t) ==
    /\ Goto(t, "creating", "using")
    /\ slots' = AddActive(slots)
    /\ Has(t, Fresh)
    /\ UNCHANGED <<permits, todo>>

\* Mutant: the permit of a failed creation is not given back.
CreateFailsKeepsPermit(t) ==
    /\ Goto(t, "creating", "none")
    /\ UNCHANGED <<slots, object, permits, todo>>

\* create fails, or get is dropped while it waits for it.
CreateFails(t) ==
    /\ Goto(t, "creating", Unpermit)
    /\ UNCHANGED <<slots, object, permits, todo>>

Recyclable(t) ==
    /\ Goto(t, "checking", "using")
    /\ UNCHANGED <<slots, object, permits, todo>>

\* An object that is not recyclable is detached, and get tries the next one.
NotRecyclable(t) ==
    /\ Goto(t, "checking", "pop")
    /\ slots' = DetachOne(slots)
    /\ Has(t, NoObject)
    /\ UNCHANGED <<permits, todo>>

-----------------------------------------------------------------------------
(* Objects that leave their task.                                          *)

ReturnObject(t) == slots' = (IF alive THEN ReturnIdle(slots, object[t]) ELSE slots)

DetachObject(t) == slots' = (IF alive THEN DetachOne(slots) ELSE slots)

\* UnreadyObject::drop, when get is dropped during is_recyclable.
DropUnready(t) ==
    /\ Goto(t, "checking", Unpermit)
    /\ IF strategy = "detach" THEN DetachObject(t) ELSE ReturnObject(t)
    /\ Has(t, NoObject)
    /\ UNCHANGED <<permits, todo>>

CancelCheck(t) == kind = "bounded" /\ DropUnready(t)

CancelCheckUnbounded(t) == kind = "unbounded" /\ DropUnready(t)

\* Object::drop returns the object to a pool that is still there, then the permit.
DropObject(t) ==
    /\ kind = "bounded"
    /\ Goto(t, "using", "unpermit")
    /\ ReturnObject(t)
    /\ Has(t, NoObject)
    /\ UNCHANGED <<permits, todo>>

DropUnboundedObject(t) ==
    /\ kind = "unbounded"
    /\ Goto(t, "using", "none")
    /\ ReturnObject(t)
    /\ Has(t, NoObject)
    /\ UNCHANGED <<permits, todo>>

Detach(t) ==
    /\ kind = "bounded"
    /\ Goto(t, "using", "unpermit")
    /\ DetachObject(t)
    /\ Has(t, NoObject)
    /\ UNCHANGED <<permits, todo>>

DetachUnbounded(t) ==
    /\ kind = "unbounded"
    /\ Goto(t, "using", "none")
    /\ DetachObject(t)
    /\ Has(t, NoObject)
    /\ UNCHANGED <<permits, todo>>

DropPermit(t) ==
    /\ Goto(t, "unpermit", "none")
    /\ P!GiveBack(t, 1)
    /\ UNCHANGED <<slots, object, todo>>

Distribute(t) ==
    /\ P!Assign(t) \/ P!Publish(t)
    /\ UNCHANGED <<config, alive, slots, object, todo, pc>>

\* The last Arc of the pool is dropped, with the idle objects; no call is under way.
DropPool ==
    /\ alive
    /\ At({"none", "using", "unpermit"}) = Tasks
    /\ alive' = FALSE
    /\ slots' = EmptyPool
    /\ UNCHANGED <<config, object, permits, todo, pc>>

-----------------------------------------------------------------------------
(* retain, extend and replenish_to.                                        *)

\* Any of the idle objects are kept, or the predicate panics.
RetainSome(t) ==
    /\ Start(t, "none")
    /\ \E keep \in SUBSET ToSet(slots.idle) :
          \/ slots' = Retain(slots, keep)
          \/ \E n \in 1..Len(slots.idle) - 1 : slots' = RetainPanics(slots, keep, n)
    /\ UNCHANGED <<object, permits, todo>>

RetainBounded(t) == kind = "bounded" /\ RetainSome(t)

RetainUnbounded(t) == kind = "unbounded" /\ RetainSome(t)

Extend(t) ==
    /\ kind = "unbounded"
    /\ slots.size + Cardinality(At({"creating"})) < MaxObjects
    /\ Start(t, "none")
    /\ slots' = AddIdle(slots, Fresh)
    /\ UNCHANGED <<object, permits, todo>>

\* The reservation drains up to target permits; todo is the target until it is known
\* how many objects are to be created.
Reserve(t, target) ==
    /\ kind = "bounded"
    /\ avail > 0
    /\ P!Take(t, Min({target, avail}))
    /\ Start(t, "planning")
    /\ todo' = [todo EXCEPT ![t] = target]
    /\ UNCHANGED <<slots, object>>

SaturatingSub(a, b) == Max({a - b, 0})

\* Mutant: the idle objects are not subtracted from the capacity.
ToCreateBesideIdle(t) == Min({SaturatingSub(todo[t], Len(slots.idle)), held[t], avail + held[t]})

\* Permits nobody has, and the reserved ones, less the objects that are idle.
ToCreate(t) ==
    Min({SaturatingSub(todo[t], Len(slots.idle)), held[t], SaturatingSub(avail + held[t], Len(slots.idle))})

\* The reservation keeps one permit for each object it will create.
Plan(t) ==
    /\ Goto(t, "planning", "replenishing")
    /\ todo' = [todo EXCEPT ![t] = ToCreate(t)]
    /\ P!GiveBack(t, held[t] - ToCreate(t))
    /\ UNCHANGED <<slots, object>>

ReplenishCreated(t) ==
    /\ todo[t] > 0
    /\ Goto(t, "replenishing", "replenished")
    /\ slots' = AddIdle(slots, Fresh)
    /\ todo' = [todo EXCEPT ![t] = @ - 1]
    /\ UNCHANGED <<object, permits>>

ReleaseOne(t) ==
    /\ Goto(t, "replenished", "replenishing")
    /\ P!GiveBack(t, 1)
    /\ UNCHANGED <<slots, object, todo>>

\* All created, a creation failed, or the future is dropped: the reservation's drop
\* gives back the rest.
ReplenishEnds(t) ==
    /\ Goto(t, "replenishing", "none")
    /\ todo' = [todo EXCEPT ![t] = 0]
    /\ P!GiveBack(t, held[t])
    /\ UNCHANGED <<slots, object>>

-----------------------------------------------------------------------------

\* What a thread does once it is in a call, and the manager's futures, which end.
Proceed(t) ==
    \/ Pop(t) \/ Created(t) \/ CreateFails(t) \/ Recyclable(t) \/ NotRecyclable(t)
    \/ DropPermit(t) \/ Distribute(t)
    \/ Plan(t) \/ ReplenishCreated(t) \/ ReleaseOne(t) \/ ReplenishEnds(t)

Next ==
    \/ \E t \in Tasks :
          \/ Acquire(t) \/ GetUnbounded(t) \/ GetOrCreate(t)
          \/ CancelAcquire(t) \/ CancelCheck(t) \/ CancelCheckUnbounded(t)
          \/ DropObject(t) \/ DropUnboundedObject(t) \/ Detach(t) \/ DetachUnbounded(t)
          \/ RetainBounded(t) \/ RetainUnbounded(t)
          \/ Extend(t)
          \/ \E target \in 1..MaxSize : Reserve(t, target)
          \/ Proceed(t)
    \/ DropPool

Spec == Init /\ [][Next]_vars

\* Calls go on, the manager's futures end, a granted get is polled and objects are
\* given back.
Fairness ==
    \A t \in Tasks :
       WF_vars(Proceed(t)) /\ WF_vars(t \in granted /\ Acquire(t)) /\ WF_vars(DropObject(t))

LiveSpec == Spec /\ Fairness

-----------------------------------------------------------------------------

\* current_size counts the objects that are idle, being checked or in use, and each
\* of them is in one place.  In a bounded pool these and the ones being created never
\* exceed max_size, which restore_idle and detach_object assert, although idle
\* objects hold no permit; and without calls and objects in use all permits are back,
\* also when the pool is gone.
PoolAccounting ==
    /\ TypeOK
    /\ alive => /\ slots.size = Len(slots.idle) + Cardinality(At({"checking", "using"}))
                /\ slots.size = Cardinality(Existing)
    /\ kind = "bounded" =>
          /\ slots.size + Cardinality(At({"creating"}))
               + MapThenSumSet(LAMBDA t : todo[t], At({"replenishing", "replenished"}))
             <= MaxSize
          /\ (\A t \in Tasks : pc[t] = "none" /\ hand[t] = 0) => avail = MaxSize
    /\ RetainIsFilter(slots)

\* A get that waits for a permit comes to an end if objects are given back, whatever
\* creations fail and whatever calls are cancelled.
GetCompletes == \A t \in Tasks : pc[t] = "waiting" ~> pc[t] # "waiting"
=============================================================================
