------------------------------- MODULE Guards -------------------------------
(***************************************************************************)
(* The guards of Mutex, RwLock and Semaphore (asyncband/src/mutex/mod.rs,  *)
(* rwlock/, semaphore/mod.rs): tokens for permits of the permit queue that *)
(* the internal semaphore implements.  A borrowed token refers to a lock   *)
(* that its task keeps alive; an owned one has an Arc of its own, which is *)
(* dropped after the permits are released.  Mapping, downgrading, merging  *)
(* and splitting move permits and Arcs between tokens.                     *)
(***************************************************************************)
EXTENDS Integers, SequencesExt, FiniteSetsExt

CONSTANTS
    Tasks,
    Debt,          \* the owner of a reduce_permits in the queue
    MaxReaders,    \* permits of the read-write lock and of the semaphore
    MaxDepth,      \* bound on maps of maps
    MaxTokens,     \* bound on a task's tokens
    MaxLost,       \* bound on lost
    Clients,       \* tasks that use the semaphore
    Owners         \* tasks that use the _owned forms; the others borrow

VARIABLES
    kind,                                       \* "mutex", "rwlock" or "semaphore"
    avail, queue, granted, want, held, hand,    \* the permit queue
    pc,            \* "idle", "waiting" in an acquisition, or "dropping"
    asked,         \* the token a task waits for, or drops
    tokens,        \* each task's tokens
    handles,       \* tasks that have an Arc<Mutex>, Arc<RwLock> or Arc<Semaphore>
    strong,        \* the strong count of the Arcs
    lost           \* permits that were forgotten, drained or reduced

permitVars == <<avail, queue, granted, want, held, hand>>
guardVars == <<pc, asked, tokens>>
arcVars == <<handles, strong>>
vars == <<kind, permitVars, guardVars, arcVars, lost>>

P == INSTANCE PermitQueue WITH Permits <- MaxReaders, Amounts <- 1..MaxReaders
M == INSTANCE PermitQueue WITH Permits <- 1, Amounts <- {1}

Permits == IF kind = "mutex" THEN 1 ELSE MaxReaders

\* mode names the type of the guard; depth counts the maps it went through.
Token ==
    [mode : {"none", "lock", "read", "write", "permit"}, permits : 0..MaxReaders,
     owned : BOOLEAN, depth : 0..MaxDepth]

NewToken(mode, n, owned) == [mode |-> mode, permits |-> n, owned |-> owned, depth |-> 0]

NoToken == NewToken("none", 0, FALSE)

TypeOK ==
    /\ pc \in [Tasks -> {"idle", "waiting", "dropping"}]
    /\ asked \in [Tasks -> Token]
    /\ \A t \in Tasks : Len(tokens[t]) <= MaxTokens /\ ToSet(tokens[t]) \subseteq Token
    /\ handles \subseteq Tasks
    /\ strong \in Nat
    /\ lost \in 0..MaxLost

\* No guards, and a clone of the Arc for every task.
Unused ==
    /\ asked = [t \in Tasks |-> NoToken]
    /\ tokens = [t \in Tasks |-> <<>>]
    /\ handles = Tasks
    /\ strong = Cardinality(Tasks)
    /\ lost = 0

Init ==
    /\ kind \in {"mutex", "rwlock", "semaphore"}
    /\ IF kind = "mutex" THEN M!Init ELSE P!Init
    /\ pc = [t \in Tasks |-> "idle"]
    /\ Unused

Count(owned) == IF owned THEN 1 ELSE 0

\* The borrow checker keeps the handle that a token or a future borrows.
Borrows(t) ==
    \/ pc[t] # "idle" /\ ~asked[t].owned
    \/ \E i \in DOMAIN tokens[t] : ~tokens[t][i].owned

Call(t, p, token) ==
    /\ pc' = [pc EXCEPT ![t] = p]
    /\ asked' = [asked EXCEPT ![t] = token]

SetTokens(t, s) == tokens' = [tokens EXCEPT ![t] = s]

-----------------------------------------------------------------------------
(* Acquisitions.                                                           *)

\* The _owned forms take an Arc: a clone of the task's handle, or the handle.
TakeArc(t) ==
    /\ t \in handles
    /\ \/ t \notin Owners /\ UNCHANGED arcVars
       \/ t \in Owners /\ strong' = strong + 1 /\ UNCHANGED handles
       \/ t \in Owners /\ handles' = handles \ {t} /\ UNCHANGED strong

\* The permits are there, or the future waits for them; token is the guard it returns.
AcquireToken(t, token) ==
    /\ pc[t] = "idle" /\ tokens[t] = <<>>
    /\ token.owned <=> t \in Owners
    /\ TakeArc(t)
    /\ \/ P!Take(t, token.permits) /\ SetTokens(t, <<token>>) /\ UNCHANGED <<pc, asked>>
       \/ P!Wait(t, token.permits) /\ Call(t, "waiting", token) /\ UNCHANGED tokens
    /\ UNCHANGED <<kind, lost>>

\* Each with its try_ form, which does not wait.
Lock(t) == kind = "mutex" /\ AcquireToken(t, NewToken("lock", 1, FALSE))
LockOwned(t) == kind = "mutex" /\ AcquireToken(t, NewToken("lock", 1, TRUE))
Read(t) == kind = "rwlock" /\ AcquireToken(t, NewToken("read", 1, FALSE))
ReadOwned(t) == kind = "rwlock" /\ AcquireToken(t, NewToken("read", 1, TRUE))
Write(t) == kind = "rwlock" /\ AcquireToken(t, NewToken("write", MaxReaders, FALSE))
WriteOwned(t) == kind = "rwlock" /\ AcquireToken(t, NewToken("write", MaxReaders, TRUE))

AcquirePermit(t) ==
    /\ kind = "semaphore" /\ t \in Clients
    /\ \E n \in 1..MaxReaders : AcquireToken(t, NewToken("permit", n, FALSE))

AcquireOwned(t) ==
    /\ kind = "semaphore" /\ t \in Clients
    /\ \E n \in 1..MaxReaders : AcquireToken(t, NewToken("permit", n, TRUE))

Acquire(t) ==
    \/ Lock(t) \/ LockOwned(t)
    \/ Read(t) \/ ReadOwned(t) \/ Write(t) \/ WriteOwned(t)
    \/ AcquirePermit(t) \/ AcquireOwned(t)

\* A try_ form that fails drops the Arc it was given, here the task's handle.
TryFails(t) ==
    /\ pc[t] = "idle" /\ tokens[t] = <<>> /\ t \in handles \cap Owners
    /\ avail < IF kind = "mutex" THEN 1 ELSE MaxReaders
    /\ handles' = handles \ {t}
    /\ strong' = strong - 1
    /\ UNCHANGED <<kind, permitVars, guardVars, lost>>

Granted(t) ==
    /\ pc[t] = "waiting"
    /\ P!Collect(t)
    /\ SetTokens(t, <<asked[t]>>)
    /\ Call(t, "idle", NoToken)
    /\ UNCHANGED <<kind, arcVars, lost>>

-----------------------------------------------------------------------------
(* Drops: the permits are released first, then the Arc is dropped.         *)

Cancel(t) ==
    /\ pc[t] = "waiting"
    /\ P!Abandon(t)
    /\ Call(t, "dropping", asked[t])
    /\ UNCHANGED <<kind, tokens, arcVars, lost>>

DropToken(t, modes) ==
    /\ pc[t] = "idle"
    /\ \E i \in DOMAIN tokens[t] :
          /\ tokens[t][i].mode \in modes
          /\ P!GiveBack(t, tokens[t][i].permits)
          /\ SetTokens(t, RemoveAt(tokens[t], i))
          /\ Call(t, "dropping", tokens[t][i])
    /\ UNCHANGED <<kind, arcVars, lost>>

DropMutexGuard(t) == DropToken(t, {"lock"})
DropReadAccess(t) == DropToken(t, {"read"})
DropWriteAccess(t) == DropToken(t, {"write"})
DropPermit(t) == DropToken(t, {"permit"})

Drop(t) == DropMutexGuard(t) \/ DropReadAccess(t) \/ DropWriteAccess(t) \/ DropPermit(t)

\* release distributing the permits.
Distribute(t) ==
    /\ P!Assign(t) \/ P!Publish(t)
    /\ UNCHANGED <<kind, guardVars, arcVars, lost>>

\* Mutant: the Arc goes first.
DropArcFirst(t) ==
    /\ pc[t] = "dropping"
    /\ asked[t].owned \/ hand[t] = 0
    /\ strong' = strong - Count(asked[t].owned)
    /\ Call(t, "idle", NoToken)
    /\ UNCHANGED <<kind, permitVars, tokens, handles, lost>>

DropArc(t) ==
    /\ pc[t] = "dropping" /\ hand[t] = 0
    /\ strong' = strong - Count(asked[t].owned)
    /\ Call(t, "idle", NoToken)
    /\ UNCHANGED <<kind, permitVars, tokens, handles, lost>>

DropHandle(t) ==
    /\ t \in handles /\ ~Borrows(t)
    /\ handles' = handles \ {t}
    /\ strong' = strong - 1
    /\ UNCHANGED <<kind, permitVars, guardVars, lost>>

-----------------------------------------------------------------------------
(* Guards that become other guards.                                        *)

\* Mutant: the original guard is dropped by map, not forgotten.
MapDropsOriginal(t, mode, owned, mapped) ==
    /\ pc[t] = "idle"
    /\ \E i \in DOMAIN tokens[t] :
          LET token == tokens[t][i]
          IN  /\ token.mode = mode /\ token.owned = owned
              /\ (token.depth > 0) = mapped /\ token.depth < MaxDepth
              /\ P!GiveBack(t, token.permits)
              /\ SetTokens(t, [tokens[t] EXCEPT ![i].depth = @ + 1])
              /\ Call(t, "dropping", token)
    /\ UNCHANGED <<kind, arcVars, lost>>

\* map and filter_map of one type of guard: permits and Arc move to the mapped guard.
\* A filter_map that selects nothing returns the guard as it is.
Map(t, mode, owned, mapped) ==
    /\ pc[t] = "idle"
    /\ \E i \in DOMAIN tokens[t] :
          LET token == tokens[t][i]
          IN  /\ token.mode = mode /\ token.owned = owned
              /\ (token.depth > 0) = mapped /\ token.depth < MaxDepth
              /\ SetTokens(t, [tokens[t] EXCEPT ![i].depth = @ + 1])
    /\ UNCHANGED <<kind, permitVars, pc, asked, arcVars, lost>>

MapMutexGuard(t) == Map(t, "lock", FALSE, FALSE)
MapMappedMutexGuard(t) == Map(t, "lock", FALSE, TRUE)
MapOwnedMutexGuard(t) == Map(t, "lock", TRUE, FALSE)
MapOwnedMappedMutexGuard(t) == Map(t, "lock", TRUE, TRUE)
MapReadGuard(t) == Map(t, "read", FALSE, FALSE)
MapMappedReadGuard(t) == Map(t, "read", FALSE, TRUE)
MapOwnedReadGuard(t) == Map(t, "read", TRUE, FALSE)
MapOwnedMappedReadGuard(t) == Map(t, "read", TRUE, TRUE)
MapWriteGuard(t) == Map(t, "write", FALSE, FALSE)
MapMappedWriteGuard(t) == Map(t, "write", FALSE, TRUE)
MapOwnedWriteGuard(t) == Map(t, "write", TRUE, FALSE)
MapOwnedMappedWriteGuard(t) == Map(t, "write", TRUE, TRUE)

MapGuard(t) ==
    \/ MapMutexGuard(t) \/ MapMappedMutexGuard(t)
    \/ MapOwnedMutexGuard(t) \/ MapOwnedMappedMutexGuard(t)
    \/ MapReadGuard(t) \/ MapMappedReadGuard(t)
    \/ MapOwnedReadGuard(t) \/ MapOwnedMappedReadGuard(t)
    \/ MapWriteGuard(t) \/ MapMappedWriteGuard(t)
    \/ MapOwnedWriteGuard(t) \/ MapOwnedMappedWriteGuard(t)

\* A write guard that was not mapped: the read access has a clone of the owner, and
\* the write access is dropped with one permit less.
Downgrade(t) ==
    /\ pc[t] = "idle"
    /\ \E i \in DOMAIN tokens[t] :
          LET w == tokens[t][i]
          IN  /\ w.mode = "write" /\ w.depth = 0
              /\ P!GiveBack(t, w.permits - 1)
              /\ SetTokens(t, [tokens[t] EXCEPT ![i] = NewToken("read", 1, w.owned)])
              /\ strong' = strong + Count(w.owned)
              /\ Call(t, "dropping", w)
    /\ UNCHANGED <<kind, handles, lost>>

\* SemaphorePermit::split, zero permits included; an owned one clones the Arc.
Split(t, owned) ==
    /\ kind = "semaphore" /\ pc[t] = "idle" /\ Len(tokens[t]) < MaxTokens
    /\ \E i \in DOMAIN tokens[t] : \E n \in 0..tokens[t][i].permits :
          /\ tokens[t][i].owned = owned
          /\ SetTokens(t, Append([tokens[t] EXCEPT ![i].permits = @ - n],
                                 NewToken("permit", n, owned)))
    /\ strong' = strong + Count(owned)
    /\ UNCHANGED <<kind, permitVars, pc, asked, handles, lost>>

\* merge: the other permit is dropped with no permits.
Merge(t, owned) ==
    /\ kind = "semaphore" /\ pc[t] = "idle"
    /\ \E i, j \in DOMAIN tokens[t] :
          /\ i # j /\ tokens[t][j].owned = owned
          /\ LET other == tokens[t][j]
             IN  /\ SetTokens(t, RemoveAt([tokens[t] EXCEPT ![i].permits = @ + other.permits], j))
                 /\ Call(t, "dropping", [other EXCEPT !.permits = 0])
    /\ UNCHANGED <<kind, permitVars, arcVars, lost>>

\* forget: a permit is dropped with no permits.
Forget(t, owned) ==
    /\ kind = "semaphore" /\ pc[t] = "idle"
    /\ \E i \in DOMAIN tokens[t] :
          /\ tokens[t][i].owned = owned
          /\ lost + tokens[t][i].permits <= MaxLost
          /\ P!Forget(t, tokens[t][i].permits)
          /\ lost' = lost + tokens[t][i].permits
          /\ SetTokens(t, RemoveAt(tokens[t], i))
          /\ Call(t, "dropping", [tokens[t][i] EXCEPT !.permits = 0])
    /\ UNCHANGED <<kind, arcVars>>

SplitPermit(t) == Split(t, FALSE)
SplitOwnedPermit(t) == Split(t, TRUE)
MergePermit(t) == Merge(t, FALSE)
MergeOwnedPermit(t) == Merge(t, TRUE)
ForgetPermit(t) == Forget(t, FALSE)
ForgetOwnedPermit(t) == Forget(t, TRUE)

MovePermits(t) ==
    \/ SplitPermit(t) \/ SplitOwnedPermit(t)
    \/ MergePermit(t) \/ MergeOwnedPermit(t)
    \/ ForgetPermit(t) \/ ForgetOwnedPermit(t)

\* Semaphore::release, drain_permits and reduce_permits.  At most the permits that
\* were lost are added.
Adjusting(t) == kind = "semaphore" /\ t \in Clients \cap handles /\ pc[t] = "idle"

Release(t) ==
    /\ Adjusting(t)
    /\ \E n \in 1..lost : P!Add(t, n) /\ lost' = lost - n /\ Call(t, "dropping", NoToken)
    /\ UNCHANGED <<kind, tokens, arcVars>>

DrainPermits(t) ==
    /\ Adjusting(t)
    /\ \E n \in 1..avail : lost + n <= MaxLost /\ avail' = avail - n /\ lost' = lost + n
    /\ UNCHANGED <<kind, queue, granted, want, held, hand, guardVars, arcVars>>

ReducePermits(t) ==
    /\ Adjusting(t)
    /\ \E n \in 1..MaxLost - lost : P!Reduce(n) /\ lost' = lost + n
    /\ UNCHANGED <<kind, guardVars, arcVars>>

Adjust(t) == Release(t) \/ DrainPermits(t) \/ ReducePermits(t)

-----------------------------------------------------------------------------

Proceed(t) == Granted(t) \/ Distribute(t) \/ DropArc(t)

Step(t) ==
    \/ Acquire(t) \/ TryFails(t)
    \/ Cancel(t) \/ Drop(t) \/ DropHandle(t)
    \/ MapGuard(t) \/ Downgrade(t)
    \/ MovePermits(t) \/ Adjust(t)
    \/ Proceed(t)

-----------------------------------------------------------------------------

PermitsOf(t) == FoldSeq(LAMBDA token, n : token.permits + n, 0, tokens[t])

OwnedOf(t) == Cardinality({i \in DOMAIN tokens[t] : tokens[t][i].owned})

\* Through a Mutex guard or a write guard, mapped or not, the data is reached by
\* one task alone.
ExclusiveIsAlone ==
    \A t \in Tasks : \A i \in DOMAIN tokens[t] :
       tokens[t][i].mode \in {"lock", "write"} => \A u \in Tasks \ {t} : tokens[u] = <<>>

\* The tokens account for the permits their tasks acquired, whatever was mapped,
\* merged, split or forgotten.
TokensOwnPermits ==
    /\ \A t \in Tasks : held[t] = PermitsOf(t)
    /\ (\A t \in Tasks : tokens[t] = <<>> /\ pc[t] = "idle") /\ queue = <<>> =>
          avail = Permits - lost

\* The lock lives as long as somebody can reach it and no longer: the strong count
\* is that of the handles, tokens and calls that own an Arc, and a lock whose
\* permits are waited for, held or being released is alive.
LockOutlivesUse ==
    /\ strong = Cardinality(handles)
                + MapThenSumSet(OwnedOf, Tasks)
                + Cardinality({t \in Tasks : pc[t] # "idle" /\ asked[t].owned})
    /\ \A t \in Tasks : want[t] > 0 \/ hand[t] > 0 \/ tokens[t] # <<>> => strong > 0

\* A client may split off permits for ever instead of dropping them.
NoMoreSplits ==
    <>[][\A t \in Tasks : Len(tokens'[t]) \in 0..1 \cup 0..Len(tokens[t])]_tokens
=============================================================================
