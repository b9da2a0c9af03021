----------------------------- MODULE Completion -----------------------------
(***************************************************************************)
(* asyncband/src/completion/mod.rs: a result that is provided once and     *)
(* observed by everybody.  The result is a OnceLock that futures look at   *)
(* without the lock of the wakers, so what happens under the lock takes    *)
(* two steps: the wakers are detached before the result is published.      *)
(***************************************************************************)
EXTENDS WakerSet

CONSTANT Nobody   \* the owner of a free lock, or of a completer that is gone

Init ==
    /\ WakerInit
    /\ \E t, u \in Tasks :
          /\ state = [result |-> "none", lock |-> Nobody, completer |-> t]
          /\ local = [v \in Tasks |-> v = u]   \* v owns a Completion

Published == state.result # "none"

Observers == {t \in Tasks : local[t]}

CloneCompletion(t, u) ==
    /\ Free(t) /\ local[t] /\ ~local[u]
    /\ local' = [local EXCEPT ![u] = TRUE]
    /\ UNCHANGED <<state, wakerVars>>

DropCompletion(t) ==
    /\ Free(t) /\ local[t]
    /\ local' = [local EXCEPT ![t] = FALSE]
    /\ UNCHANGED <<state, wakerVars>>

-----------------------------------------------------------------------------
(* Completer::complete and Completer::drop.                                *)

\* The Weak reference cannot be upgraded: complete returns the value.
FinishAlone(t) ==
    /\ Free(t) /\ state.completer = t
    /\ Observers = {}
    /\ state' = [state EXCEPT !.completer = Nobody]
    /\ UNCHANGED <<local, wakerVars>>

\* The lock is taken and the wakers are detached.
FinishDetach(t) ==
    /\ Free(t) /\ state.completer = t
    /\ Observers # {} /\ state.lock = Nobody
    /\ state' = [state EXCEPT !.lock = t]
    /\ DetachAll(t)
    /\ UNCHANGED <<local, token, pc, woken>>

\* The result is published, the lock released; None is stored by the drop.
FinishPublish(t, result) ==
    /\ state.lock = t
    /\ state' = [result |-> result, lock |-> Nobody, completer |-> Nobody]
    /\ UNCHANGED <<local, wakerVars>>

\* The wakers are called after that.
WakeUnlocked(t) == state.lock # t /\ Wake(t)

-----------------------------------------------------------------------------
(* Wait.                                                                   *)

Wait(t) ==
    /\ Free(t) /\ local[t] /\ state.lock # t
    /\ Goto(t, "pending")
    /\ woken' = woken \cup {t}
    /\ UNCHANGED <<state, local, waiters, token, toWake>>

\* poll looks at the result without the lock.
Poll(t) ==
    /\ pc[t] = "pending" /\ state.lock # t /\ toWake[t] = {}
    /\ IF Published THEN Goto(t, "idle") /\ ForgetToken(t) ELSE Goto(t, "polling") /\ UNCHANGED token
    /\ woken' = woken \ {t}
    /\ UNCHANGED <<state, local, waiters, toWake>>

PollLockedUnchecked(t) ==
    /\ pc[t] = "polling" /\ state.lock = Nobody
    /\ Goto(t, "pending") /\ Register(t)
    /\ UNCHANGED <<state, local, toWake, woken>>

\* With the lock: the result may have been published since.
PollLocked(t) ==
    /\ pc[t] = "polling" /\ state.lock = Nobody
    /\ IF Published
       THEN Goto(t, "idle") /\ ForgetToken(t) /\ UNCHANGED waiters
       ELSE Goto(t, "pending") /\ Register(t)
    /\ UNCHANGED <<state, local, toWake, woken>>

\* Wait::drop: nothing to do without a token or with a result.
DropWait(t) ==
    /\ pc[t] = "pending"
    /\ IF token[t] = NoId \/ Published
       THEN Goto(t, "idle") /\ ForgetToken(t)
       ELSE Goto(t, "dropping") /\ UNCHANGED token
    /\ woken' = woken \ {t}
    /\ UNCHANGED <<state, local, waiters, toWake>>

DropLocked(t) ==
    /\ pc[t] = "dropping" /\ state.lock = Nobody
    /\ Goto(t, "idle")
    /\ IF Published THEN ForgetToken(t) /\ UNCHANGED waiters ELSE Unregister(t)
    /\ UNCHANGED <<state, local, toWake, woken>>

InPoll(t) == PollLocked(t) \/ DropLocked(t) \/ \E r \in {"value", "abandoned"} : FinishPublish(t, r)

Step(t) ==
    \/ \E u \in Tasks : CloneCompletion(t, u)
    \/ DropCompletion(t) \/ FinishAlone(t) \/ FinishDetach(t)
    \/ Wait(t) \/ Poll(t) \/ DropWait(t) \/ InPoll(t)

-----------------------------------------------------------------------------

\* Under the lock the wakers may be detached already.
Current == IF Published \/ state.lock # Nobody THEN {} ELSE {t \in Tasks : pc[t] # "idle"}

Released(t) == pc[t] # "idle" /\ Published

\* The result is set once, while the completer exists, and everybody who waits has a
\* handle: nobody waits for a result that cannot come.
CountIsExact ==
    /\ Published => state.completer = Nobody
    /\ \A t \in Tasks : pc[t] # "idle" => local[t] /\ (Published \/ state.completer # Nobody)
=============================================================================
