------------------------------- MODULE Locks -------------------------------
(***************************************************************************)
(* The locks: the guards of Mutex, RwLock and Semaphore, UpgradableRwLock, *)
(* and Condvar with its Mutex.  kind says which of them the tasks use; the *)
(* variables of the others do not change.                                  *)
(***************************************************************************)
EXTENDS Integers, Sequences

CONSTANTS
    Producers, Consumers,
    Debt,
    MaxReaders, MaxDepth, MaxTokens, MaxLost, MaxItems,
    Owners, Clients

Tasks == Producers \cup Consumers

ASSUME LocksAssumption ==
    /\ Producers \cap Consumers = {} /\ Debt \notin Tasks
    /\ Owners \subseteq Tasks /\ Clients \subseteq Tasks
    /\ MaxReaders \in Nat \ {0}
    /\ {MaxDepth, MaxTokens, MaxLost, MaxItems} \subseteq Nat

VARIABLES
    kind, pc,
    avail, queue, granted, want, held, hand,
    ravail, rqueue, rgranted, rwant, rheld, rhand,
    asked, tokens, handles, strong, lost,
    waiters, node, baton, items, toWake, woken

permitVars == <<avail, queue, granted, want, held, hand>>
reservationVars == <<ravail, rqueue, rgranted, rwant, rheld, rhand>>
guardVars == <<asked, tokens, handles, strong, lost>>
condvarVars == <<waiters, node, baton, items, toWake, woken>>
vars == <<kind, pc, permitVars, reservationVars, guardVars, condvarVars>>

G == INSTANCE Guards
U == INSTANCE UpgradableRwLock
C == INSTANCE Condvar

Init ==
    /\ \/ G!Init
       \/ kind = "upgradable" /\ U!D!Init /\ pc = [t \in Tasks |-> "idle"]
       \/ kind = "condvar" /\ C!M!Init /\ pc = [t \in Tasks |-> "idle"]
    /\ U!R!Init
    /\ kind \in {"upgradable", "condvar"} => G!Unused
    /\ C!CondvarInit

OfGuards(A) ==
    /\ kind \in {"mutex", "rwlock", "semaphore"} /\ A
    /\ UNCHANGED <<reservationVars, condvarVars>>

OfUpgradable(A) ==
    /\ kind = "upgradable" /\ A
    /\ UNCHANGED <<kind, guardVars, condvarVars>>

OfCondvar(A) ==
    /\ kind = "condvar" /\ A
    /\ UNCHANGED <<kind, reservationVars, guardVars>>

Next ==
    \E t \in Tasks : OfGuards(G!Step(t)) \/ OfUpgradable(U!Step(t)) \/ OfCondvar(C!Step(t))

Proceed(t) ==
    OfGuards(G!Proceed(t)) \/ OfUpgradable(U!Proceed(t)) \/ OfCondvar(C!Proceed(t))

DropGuard(t) == OfGuards(G!Drop(t)) \/ OfUpgradable(U!DropGuard(t))

PollReady(t) ==
    \/ OfUpgradable(U!DataArrives(t))
    \/ OfCondvar(t \in granted /\ C!Lock(t))

\* Calls go on, and futures that were granted permits or woken are polled.  Guards
\* are dropped in the end.  Nobody has to start, cancel, map, upgrade or downgrade.
\* kind does not change, so that each disjunction stands for one of its actions.
Fairness ==
    \A t \in Tasks :
       /\ WF_vars(Proceed(t))
       /\ WF_vars(DropGuard(t) \/ OfCondvar(t \in woken /\ C!WaitPoll(t)))
       /\ WF_vars(PollReady(t))

Spec == Init /\ [][Next]_vars /\ Fairness

-----------------------------------------------------------------------------

TypeOK ==
    IF kind = "upgradable" THEN U!TypeOK ELSE
    IF kind = "condvar" THEN C!TypeOK ELSE G!TypeOK

\* Who may write through a guard is alone with the data, whatever the guard was
\* mapped to.  An upgrade in progress still counts as a reader: nobody writes
\* between the read it is based on and the write it becomes, nor between a write
\* and the read it is downgraded to.
WriterIsAlone ==
    /\ TypeOK
    /\ kind = "upgradable" => U!WriterIsAlone
    /\ kind \notin {"upgradable", "condvar"} => G!ExclusiveIsAlone

\* No permit is lost or made up: the tokens have what their tasks acquired, and when
\* no call and no guard is left all permits are there again, however futures were
\* cancelled and guards mapped, merged or split.
PermitsComeBack ==
    /\ kind = "upgradable" => U!PermitsComeBack
    /\ kind \notin {"upgradable", "condvar"} => G!TokensOwnPermits

\* The lock lives as long as an owned guard, an owned future or a handle refers to it,
\* until the permits of the last guard are released, and no longer.
LockOutlivesUse == G!LockOutlivesUse

Waits(t) ==
    \/ kind = "upgradable" /\ pc[t] \in U!Pending
    \/ kind \notin {"upgradable", "condvar"} /\ pc[t] = "waiting"

\* Every request ends if guards are dropped, unless permits were taken away: readers
\* cannot starve a writer, and an upgrade never waits for a writer that waits for it.
RequestsEnd ==
    G!NoMoreSplits => \A t \in Tasks : Waits(t) ~> (~Waits(t) \/ lost > 0)

\* No item is stranded: while there is one, a consumer does not stay in wait, also
\* when the consumer that was notified of it is dropped before it has the mutex again.
ItemIsTaken == C!ItemIsTaken
=============================================================================
