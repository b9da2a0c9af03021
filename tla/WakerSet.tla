------------------------------ MODULE WakerSet ------------------------------
(***************************************************************************)
(* asyncband/src/internal/wakerset.rs: the wakers of the futures that wait *)
(* for one primitive, in an arena, under the lock of the primitive.  A     *)
(* token is the id of a slot; nothing in the set tells a token of an       *)
(* earlier generation from one in use, the primitive has to.               *)
(*                                                                         *)
(* `state` is what the primitive keeps under its lock and `local` what     *)
(* each task's handles and future hold; both are the primitive's business. *)
(***************************************************************************)
EXTENDS Arena

CONSTANT Tasks   \* tasks, each with at most one future of the primitive

VARIABLES
    state,     \* what the lock protects, besides the wakers
    local,     \* the handles and the future of each task
    waiters,   \* the WakerSet
    token,     \* the token of each task's future, or NoId
    pc,        \* "idle" without a future, "pending" with one, or inside a poll
    toWake,    \* the wakers each task is about to call
    woken      \* tasks whose future is to be polled

wakerVars == <<waiters, token, pc, toWake, woken>>
vars == <<state, local, wakerVars>>

WakerTypeOK ==
    /\ token \in [Tasks -> Nat]
    /\ pc \in [Tasks -> {"idle", "pending", "polling", "reading", "dropping"}]
    /\ toWake \in [Tasks -> SUBSET Tasks]
    /\ woken \subseteq Tasks

WakerInit ==
    /\ waiters = NewArena
    /\ token = [t \in Tasks |-> NoId]
    /\ pc = [t \in Tasks |-> "idle"]
    /\ toWake = [t \in Tasks |-> {}]
    /\ woken = {}

Goto(t, p) == pc' = [pc EXCEPT ![t] = p]

\* t is not in a call, and has called the wakers of the last one.
Free(t) == pc[t] = "idle" /\ toWake[t] = {}

\* register: a future's first waker takes a slot, later ones replace it there.
Register(t) ==
    IF token[t] = NoId
    THEN /\ waiters' = Insert(waiters, t)
         /\ token' = [token EXCEPT ![t] = NewId(waiters)]
    ELSE UNCHANGED <<waiters, token>>

Unregister(t) ==
    /\ waiters' = RemoveSlot(waiters, token[t])
    /\ token' = [token EXCEPT ![t] = NoId]

ForgetToken(t) == token' = [token EXCEPT ![t] = NoId]

\* take_all, or the set replaced by an empty one; tokens are left as they are.
DetachAll(t) ==
    /\ waiters' = NewArena
    /\ toWake' = [toWake EXCEPT ![t] = Values(waiters)]

DetachNobody == UNCHANGED <<waiters, toWake>>

\* wake_all, after the lock was released: one waker after the other.
Wake(t) ==
    /\ \E u \in toWake[t] :
          /\ toWake' = [toWake EXCEPT ![t] = @ \ {u}]
          /\ woken' = IF pc[u] = "idle" THEN woken ELSE woken \cup {u}
    /\ UNCHANGED <<state, local, waiters, token, pc>>

-----------------------------------------------------------------------------

\* Of the futures that are still registered, current, each token is that of an
\* occupied slot with its own waker; every other slot is vacant, so no waker of a
\* future that ended is left behind.
TokensMatch(current) ==
    /\ ArenaIsConsistent(waiters)
    /\ \A t \in current : token[t] # NoId => Has(waiters, token[t]) /\ Get(waiters, token[t]) = t
    /\ OccupiedIds(waiters) = {token[t] : t \in current} \ {NoId}
=============================================================================
