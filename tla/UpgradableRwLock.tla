-------------------------- MODULE UpgradableRwLock --------------------------
(***************************************************************************)
(* UpgradableRwLock (asyncband/src/rwlock/upgradable.rs).  The data is     *)
(* behind a semaphore with MaxReaders permits: a reader holds one, a       *)
(* writer all of them.  A reservation semaphore with one permit is held by *)
(* a writer until it has the data and by an upgradable reader as long as   *)
(* it may upgrade.  Both are the permit queues that Semaphore implements.  *)
(*                                                                         *)
(* Any future may be dropped while it waits; the permits it owns go back   *)
(* in the order the tokens are dropped, the data before the reservation.   *)
(***************************************************************************)
EXTENDS Integers, Sequences

CONSTANTS
    Tasks,
    Debt,         \* reduce_permits is not called on these semaphores
    MaxReaders

VARIABLES
    avail, queue, granted, want, held, hand,        \* the data semaphore s
    ravail, rqueue, rgranted, rwant, rheld, rhand,  \* the reservation
    pc                                              \* where each task is

data == <<avail, queue, granted, want, held, hand>>
reservation == <<ravail, rqueue, rgranted, rwant, rheld, rhand>>
vars == <<data, reservation, pc>>

D == INSTANCE PermitQueue WITH
        Permits <- MaxReaders, Amounts <- 1..MaxReaders

R == INSTANCE PermitQueue WITH
        Permits <- 1, Amounts <- {1},
        avail <- ravail, queue <- rqueue, granted <- rgranted,
        want <- rwant, held <- rheld, hand <- rhand

\* Futures that are pending.
Pending == {"reading", "writing", "reservingW", "reservingU", "upreading", "upgrading"}

\* Between the awaits of a call that goes on by itself: with the reservation
\* (for a write, an upgradable read, or a try_ of them), with all data permits and
\* the reservation still to drop, and in the drops of an abandoned call.
Running == {"reservedW", "reservedU", "tryingW", "tryingU", "wrote", "dropUp", "unreserve"}

Guards == {"read", "write", "upgradable"}

TypeOK ==
    /\ avail \in 0..MaxReaders /\ ravail \in 0..1
    /\ granted \subseteq Tasks /\ rgranted \subseteq Tasks
    /\ held \in [Tasks -> 0..MaxReaders] /\ rheld \in [Tasks -> 0..1]
    /\ pc \in [Tasks -> {"idle"} \cup Pending \cup Running \cup Guards]

Goto(t, from, to) ==
    /\ pc[t] = from
    /\ pc' = [pc EXCEPT ![t] = to]

\* The task is in no drop that still distributes permits.
Settled(t) == hand[t] = 0 /\ rhand[t] = 0

OnData(t, A, from, to) == Settled(t) /\ Goto(t, from, to) /\ A /\ UNCHANGED reservation

OnReservation(t, A, from, to) == Settled(t) /\ Goto(t, from, to) /\ A /\ UNCHANGED data

-----------------------------------------------------------------------------
(* read and try_read.                                                      *)

Read(t) ==
    \/ OnData(t, D!Take(t, 1), "idle", "read")
    \/ OnData(t, D!Wait(t, 1), "idle", "reading")
    \/ OnData(t, D!Collect(t), "reading", "read")

-----------------------------------------------------------------------------
(* write, upgradable_read and their try_ forms: the reservation first.     *)

Reserve(t) ==
    \E to \in {"reservedW", "reservedU", "tryingW", "tryingU"} :
       OnReservation(t, R!Take(t, 1), "idle", to)

ReserveWait(t) ==
    \E to \in {"reservingW", "reservingU"} : OnReservation(t, R!Wait(t, 1), "idle", to)

Reserved(t) ==
    \/ OnReservation(t, R!Collect(t), "reservingW", "reservedW")
    \/ OnReservation(t, R!Collect(t), "reservingU", "reservedU")

Write(t) ==
    \/ OnData(t, D!Take(t, MaxReaders), "reservedW", "wrote")
    \/ OnData(t, D!Wait(t, MaxReaders), "reservedW", "writing")
    \/ OnData(t, D!Collect(t), "writing", "wrote")

UpgradableRead(t) ==
    \/ OnData(t, D!Take(t, 1), "reservedU", "upgradable")
    \/ OnData(t, D!Wait(t, 1), "reservedU", "upreading")
    \/ OnData(t, D!Collect(t), "upreading", "upgradable")

\* try_acquire fails when there are not enough permits.
Try(t) ==
    \/ OnData(t, D!Take(t, MaxReaders), "tryingW", "wrote")
    \/ OnData(t, avail < MaxReaders /\ UNCHANGED data, "tryingW", "unreserve")
    \/ OnData(t, D!Take(t, 1), "tryingU", "upgradable")
    \/ OnData(t, avail < 1 /\ UNCHANGED data, "tryingU", "unreserve")

-----------------------------------------------------------------------------
(* upgrade, try_upgrade and the downgrades.                                *)

\* The permits an upgrade lacks; none, and no wait, if MaxReaders is 1.
TakeOthers(t) ==
    IF MaxReaders = 1 THEN UNCHANGED data ELSE D!Take(t, MaxReaders - 1)

\* Mutant: the upgrade asks for its own permit too.
UpgradeAsksForAll(t) ==
    \/ OnData(t, TakeOthers(t), "upgradable", "wrote")
    \/ OnData(t, D!Wait(t, MaxReaders), "upgradable", "upgrading")
    \/ OnData(t, D!Collect(t), "upgrading", "wrote")

\* The upgradable reader keeps its data permit and its reservation.
Upgrade(t) ==
    \/ OnData(t, TakeOthers(t), "upgradable", "wrote")
    \/ OnData(t, D!Wait(t, MaxReaders - 1), "upgradable", "upgrading")
    \/ OnData(t, D!Collect(t), "upgrading", "wrote")

\* The reservation is dropped once the writer has the data.
DropReservation(t) == OnReservation(t, R!GiveBack(t, 1), "wrote", "write")

DowngradeUpgradable(t) == OnReservation(t, R!GiveBack(t, 1), "upgradable", "read")

Downgrade(t) == OnData(t, D!GiveBack(t, MaxReaders - 1), "write", "read")

-----------------------------------------------------------------------------
(* Drops of guards and of pending futures.                                 *)

DropGuard(t) ==
    \/ OnData(t, D!GiveBack(t, 1), "read", "idle")
    \/ OnData(t, D!GiveBack(t, MaxReaders), "write", "idle")
    \/ OnData(t, D!GiveBack(t, 1), "upgradable", "unreserve")

\* The acquisition is dropped first, then the tokens the call holds.
Cancel(t) ==
    \/ OnData(t, D!Abandon(t), "reading", "idle")
    \/ OnData(t, D!Abandon(t), "writing", "unreserve")
    \/ OnData(t, D!Abandon(t), "upreading", "unreserve")
    \/ OnData(t, D!Abandon(t), "upgrading", "dropUp")
    \/ OnReservation(t, R!Abandon(t), "reservingW", "idle")
    \/ OnReservation(t, R!Abandon(t), "reservingU", "idle")

\* Mutant: the data permit of a cancelled upgrade is lost.
DropReservationOnly(t) ==
    \/ OnData(t, UNCHANGED data, "dropUp", "unreserve")
    \/ OnReservation(t, R!GiveBack(t, 1), "unreserve", "idle")

DropTokens(t) ==
    \/ OnData(t, D!GiveBack(t, 1), "dropUp", "unreserve")
    \/ OnReservation(t, R!GiveBack(t, 1), "unreserve", "idle")

\* release distributing the permits it was given.
Distribute(t) ==
    /\ \/ (D!Assign(t) \/ D!Publish(t)) /\ UNCHANGED reservation
       \/ (R!Assign(t) \/ R!Publish(t)) /\ UNCHANGED data
    /\ UNCHANGED pc

-----------------------------------------------------------------------------

\* What a task does without being asked: it goes on after its future completed.
Proceed(t) ==
    \/ Reserved(t) \/ Write(t) \/ UpgradableRead(t) \/ Try(t)
    \/ DropReservation(t) \/ DropTokens(t) \/ Distribute(t)

Step(t) ==
    \/ Read(t)
    \/ Reserve(t) \/ ReserveWait(t)
    \/ Upgrade(t) \/ DowngradeUpgradable(t) \/ Downgrade(t)
    \/ DropGuard(t) \/ Cancel(t)
    \/ Proceed(t)

\* The data permits came, and the future is polled.
DataArrives(t) == t \in granted /\ (Read(t) \/ Upgrade(t))

-----------------------------------------------------------------------------

\* Tasks that may read the data through a guard, an upgrade included.
Sharing == {t \in Tasks : pc[t] \in {"read", "upgradable", "upgrading"}}

Writers == {t \in Tasks : pc[t] \in {"write", "wrote"}}

\* A writer has the data to itself.  An upgrade in progress still counts as a
\* reader: nobody writes between the read it is based on and the write it becomes,
\* nor between a write and the read it is downgraded to.
WriterIsAlone ==
    /\ TypeOK
    /\ \A t \in Writers : Writers = {t} /\ Sharing = {}

\* Every permit comes back: when no call and no guard is left, all data permits
\* and the reservation are there again, however futures were cancelled.
PermitsComeBack ==
    (\A t \in Tasks : pc[t] = "idle" /\ Settled(t)) => avail = MaxReaders /\ ravail = 1
=============================================================================
