------------------------------ MODULE ZeroWait ------------------------------
(***************************************************************************)
(* Waiting for a counter to reach zero: poll_wait, unregister and wake_all *)
(* of asyncband/src/internal/countdown.rs, on which Latch and Once are     *)
(* built, and of the same code in asyncband/src/waitgroup/mod.rs.          *)
(*                                                                         *)
(* The counter is an atomic; the wakers are a set behind a lock.  Zero is  *)
(* final.  The task that takes the counter to zero detaches the set and    *)
(* calls its wakers; how the counter moves is left to Latch and WaitGroup. *)
(***************************************************************************)
EXTENDS Integers, FiniteSets

CONSTANTS
    Tasks,
    Nobody   \* the owner of a free lock

ASSUME ZeroWaitAssumption == Nobody \notin Tasks

VARIABLES
    count,    \* the atomic counter
    lock,     \* who holds the lock of the waker set
    waiters,  \* the WakerSet: the tasks whose wakers are registered
    token,    \* the token of a wait future, by what became of its slot
    pc,       \* where each task is
    toWake,   \* wakers detached and not called yet
    woken     \* tasks to be polled: woken since, or not polled yet

waitVars == <<lock, waiters, token, pc, toWake, woken>>

\* A task without a wait future.
Resting == {"idle", "cas", "detach", "wake"}

\* A task with one: between polls, in a poll, in its drop.
Waiting == {"pending", "load", "lock", "register", "unreg", "remove"}

WaitTypeOK ==
    /\ count \in Nat
    /\ lock \in Tasks \cup {Nobody}
    /\ waiters \subseteq Tasks
    /\ token \in [Tasks -> {"none", "live", "stale"}]
    /\ pc \in [Tasks -> Resting \cup Waiting]
    /\ toWake \in [Tasks -> SUBSET Tasks]
    /\ woken \subseteq Tasks

WaitInit ==
    /\ lock = Nobody
    /\ waiters = {}
    /\ token = [t \in Tasks |-> "none"]
    /\ pc = [t \in Tasks |-> "idle"]
    /\ toWake = [t \in Tasks |-> {}]
    /\ woken = {}

Goto(t, p) == pc' = [pc EXCEPT ![t] = p]

\* The future is done with, or its token given up.
Forget(t) == token' = [token EXCEPT ![t] = "none"]

-----------------------------------------------------------------------------
(* poll_wait.                                                              *)

Poll(t) ==
    /\ pc[t] = "pending"
    /\ Goto(t, "load")
    /\ woken' = woken \ {t}
    /\ UNCHANGED <<count, lock, waiters, token, toWake>>

\* try_wait, before the lock.
PollLoad(t) ==
    /\ pc[t] = "load"
    /\ IF count = 0 THEN Goto(t, "idle") /\ Forget(t) ELSE Goto(t, "lock") /\ UNCHANGED token
    /\ UNCHANGED <<count, lock, waiters, toWake, woken>>

\* The counter is read again under the lock.
PollLock(t) ==
    /\ pc[t] = "lock" /\ lock = Nobody
    /\ IF count = 0
       THEN Goto(t, "idle") /\ Forget(t) /\ UNCHANGED lock
       ELSE Goto(t, "register") /\ lock' = t /\ UNCHANGED token
    /\ UNCHANGED <<count, waiters, toWake, woken>>

PollRegister(t) ==
    /\ pc[t] = "register"
    /\ waiters' = waiters \cup {t}
    /\ token' = [token EXCEPT ![t] = "live"]
    /\ lock' = Nobody
    /\ Goto(t, "pending")
    /\ UNCHANGED <<count, toWake, woken>>

-----------------------------------------------------------------------------
(* unregister, when the future is dropped.                                 *)

DropWait(t) ==
    /\ pc[t] = "pending"
    /\ Goto(t, IF token[t] = "none" THEN "idle" ELSE "unreg")
    /\ woken' = woken \ {t}
    /\ UNCHANGED <<count, lock, waiters, token, toWake>>

UnregisterLock(t) ==
    /\ pc[t] = "unreg" /\ lock = Nobody
    /\ IF count = 0
       THEN Goto(t, "idle") /\ Forget(t) /\ UNCHANGED lock
       ELSE Goto(t, "remove") /\ lock' = t /\ UNCHANGED token
    /\ UNCHANGED <<count, waiters, toWake, woken>>

UnregisterRemove(t) ==
    /\ pc[t] = "remove"
    /\ waiters' = waiters \ {t}
    /\ Forget(t)
    /\ lock' = Nobody
    /\ Goto(t, "idle")
    /\ UNCHANGED <<count, toWake, woken>>

-----------------------------------------------------------------------------
(* wake_all, by the task that took the counter to zero.                    *)

Detach(t) ==
    /\ pc[t] = "detach" /\ lock = Nobody
    /\ toWake' = [toWake EXCEPT ![t] = waiters]
    /\ waiters' = {}
    /\ token' = [u \in Tasks |-> IF token[u] = "live" THEN "stale" ELSE token[u]]
    /\ Goto(t, "wake")
    /\ UNCHANGED <<count, lock, woken>>

WakeOne(t) ==
    /\ pc[t] = "wake"
    /\ \E u \in toWake[t] :
          /\ toWake' = [toWake EXCEPT ![t] = @ \ {u}]
          /\ woken' = woken \cup {u}
    /\ UNCHANGED <<count, lock, waiters, token, pc>>

WakeEnd(t) ==
    /\ pc[t] = "wake" /\ toWake[t] = {}
    /\ Goto(t, "idle")
    /\ UNCHANGED <<count, lock, waiters, token, toWake, woken>>

PollStep(t) == PollLoad(t) \/ PollLock(t) \/ PollRegister(t)

UnregisterStep(t) == UnregisterLock(t) \/ UnregisterRemove(t)

WakeStep(t) == Detach(t) \/ WakeOne(t) \/ WakeEnd(t)

WaitNext(t) ==
    \/ Poll(t) \/ PollStep(t)
    \/ DropWait(t) \/ UnregisterStep(t)
    \/ WakeStep(t)

-----------------------------------------------------------------------------
(* Properties of every user.                                               *)

\* A token in use refers to an occupied slot: the set is emptied only after zero,
\* and a task that checked the counter under the lock finds its slot as it was
\* (register and unregister panic on a slot that is not occupied).
TokensAreValid ==
    /\ \A t \in Tasks : token[t] = "live" => t \in waiters
    /\ \A t \in waiters : token[t] = "live" \/ count = 0
    /\ \A t \in Tasks : token[t] = "stale" => count = 0
    /\ \A t \in Tasks : pc[t] = "remove" => token[t] = "live"
    /\ \A t \in Tasks : pc[t] = "register" => token[t] # "stale"
=============================================================================
