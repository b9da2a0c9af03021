----------------------------- MODULE WaitGroup -----------------------------
(***************************************************************************)
(* WaitGroup (asyncband/src/waitgroup/mod.rs): the counter is the number   *)
(* of handles.  A handle is cloned or dropped, or turned into a future     *)
(* that waits until no handle is left.                                     *)
(***************************************************************************)
EXTENDS ZeroWait

VARIABLES
    owners,    \* tasks that own a WaitGroup handle
    then       \* what follows release_handle: "idle", or "pending" for into_future

groupVars == <<owners, then>>
vars == <<count, waitVars, groupVars>>

GroupTypeOK ==
    /\ owners \subseteq Tasks
    /\ then \in [Tasks -> {"idle", "pending"}]

Init ==
    /\ WaitInit
    /\ count = 1
    /\ \E t \in Tasks : owners = {t}
    /\ then = [t \in Tasks |-> "idle"]

CloneHandleFromWait(t, u) ==
    /\ t \in owners \/ pc[t] = "pending"
    /\ u \notin owners /\ pc[u] = "idle"
    /\ count' = count + 1
    /\ owners' = owners \cup {u}
    /\ UNCHANGED <<waitVars, then>>

\* WaitGroup::clone by the owner t, for the task u.
CloneHandle(t, u) ==
    /\ t \in owners /\ pc[t] = "idle"
    /\ u \notin owners /\ pc[u] = "idle"
    /\ count' = count + 1
    /\ owners' = owners \cup {u}
    /\ UNCHANGED <<waitVars, then>>

\* release_handle's fetch_sub; the last handle goes on to wake all.
ReleaseHandle(t, next) ==
    /\ t \in owners /\ pc[t] = "idle"
    /\ owners' = owners \ {t}
    /\ count' = count - 1
    /\ then' = [then EXCEPT ![t] = next]
    /\ Goto(t, IF count = 1 THEN "detach" ELSE next)
    /\ woken' = IF next = "pending" THEN woken \cup {t} ELSE woken
    /\ UNCHANGED <<lock, waiters, token, toWake>>

DropHandle(t) == ReleaseHandle(t, "idle")

IntoFuture(t) == ReleaseHandle(t, "pending")

\* Wait::clone, from the future of another task: it starts without a token.
CloneWait(t, u) ==
    /\ pc[t] = "pending"
    /\ u \notin owners /\ pc[u] = "idle"
    /\ Goto(u, "pending")
    /\ woken' = woken \cup {u}
    /\ UNCHANGED <<count, lock, waiters, token, toWake, groupVars>>

\* into_future goes on to the future after waking.
WakeReturn(t) ==
    /\ pc[t] = "wake" /\ toWake[t] = {}
    /\ Goto(t, then[t])
    /\ UNCHANGED <<count, lock, waiters, token, toWake, woken, groupVars>>

Announce(t) == (Detach(t) \/ WakeOne(t)) /\ UNCHANGED groupVars

WaitStep(t) == (PollStep(t) \/ UnregisterStep(t)) /\ UNCHANGED groupVars

Next ==
    \E t \in Tasks :
       \/ \E u \in Tasks : CloneHandle(t, u) \/ CloneWait(t, u)
       \/ DropHandle(t) \/ IntoFuture(t)
       \/ Announce(t) \/ WakeReturn(t)
       \/ (Poll(t) \/ DropWait(t)) /\ UNCHANGED groupVars
       \/ WaitStep(t)

Spec == Init /\ [][Next]_vars

-----------------------------------------------------------------------------

\* The counter counts the handles: no clone or drop is lost, and a wait that
\* completes means that no handle is left (the debug_assert of release_handle,
\* and the claim that a handle's owner keeps the count above zero).
CountsHandles == count = Cardinality(owners)
=============================================================================
