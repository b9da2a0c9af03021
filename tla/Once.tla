-------------------------------- MODULE Once --------------------------------
(***************************************************************************)
(* Once (asyncband/src/once/once/mod.rs): a CountdownState of one that the *)
(* call which runs the closure takes to zero, and a semaphore of one       *)
(* permit, a FIFO lock as PermitQueue promises, that lets one call run it. *)
(***************************************************************************)
EXTENDS ZeroWait, WaiterSeq

VARIABLES
    call,     \* where each task is in call_once, "none" outside of it
    queue     \* calls waiting for the permit, first to last

onceVars == <<call, queue>>
vars == <<count, waitVars, onceVars>>

\* "granted" has the permit assigned but was not polled since; "work" runs the
\* closure; "finish" is about to drop the permit.
Calls == {"none", "acquire", "queued", "granted", "recheck", "work", "finish"}

OnceTypeOK == call \in [Tasks -> Calls] /\ queue \in Seq(Tasks)

Init ==
    /\ WaitInit
    /\ count = 1
    /\ call = [t \in Tasks |-> "none"]
    /\ queue = <<>>

Holding == {"granted", "recheck", "work", "finish"}

CallGoto(t, from, to) ==
    /\ call[t] = from
    /\ call' = [call EXCEPT ![t] = to]

\* call_once returns at once if the work was done.
CallOnce(t) ==
    /\ pc[t] = "idle" /\ count # 0
    /\ CallGoto(t, "none", "acquire")
    /\ UNCHANGED <<count, waitVars, queue>>

Acquire(t) ==
    /\ IF \E u \in Tasks : call[u] \in Holding
       THEN CallGoto(t, "acquire", "queued") /\ queue' = Append(queue, t)
       ELSE CallGoto(t, "acquire", "recheck") /\ UNCHANGED queue
    /\ UNCHANGED <<count, waitVars>>

PollGranted(t) ==
    /\ CallGoto(t, "granted", "recheck")
    /\ UNCHANGED <<count, waitVars, queue>>

RecheckSkipped(t) ==
    /\ CallGoto(t, "recheck", "work")
    /\ UNCHANGED <<count, waitVars, queue>>

Recheck(t) ==
    /\ CallGoto(t, "recheck", IF count = 0 THEN "finish" ELSE "work")
    /\ UNCHANGED <<count, waitVars, queue>>

\* The closure ends: decrement takes the counter to zero and all are woken while
\* the permit is still held.
WorkEnds(t) ==
    /\ pc[t] = "idle"
    /\ CallGoto(t, "work", "finish")
    /\ count' = count - 1
    /\ Goto(t, "detach")
    /\ UNCHANGED <<lock, waiters, token, toWake, woken, queue>>

\* The permit goes to the first call that waits for it, or becomes free.
ReleasePermit(t) ==
    IF queue = <<>>
    THEN call' = [call EXCEPT ![t] = "none"] /\ UNCHANGED queue
    ELSE /\ call' = [call EXCEPT ![t] = "none", ![Head(queue)] = "granted"]
         /\ queue' = Tail(queue)

Finish(t) ==
    /\ pc[t] = "idle" /\ call[t] = "finish"
    /\ ReleasePermit(t)
    /\ UNCHANGED <<count, waitVars>>

\* The future of call_once is dropped while it waits or during the closure.
Cancel(t) ==
    /\ \/ /\ call[t] = "queued"
          /\ call' = [call EXCEPT ![t] = "none"]
          /\ queue' = Unlink(queue, t)
       \/ call[t] \in {"granted", "work"} /\ ReleasePermit(t)
    /\ UNCHANGED <<count, waitVars>>

\* Once::wait looks at the counter before it makes a future.
Wait(t) ==
    /\ pc[t] = "idle" /\ call[t] = "none" /\ count # 0
    /\ Goto(t, "pending")
    /\ woken' = woken \cup {t}
    /\ UNCHANGED <<count, lock, waiters, token, toWake, onceVars>>

\* What a call goes on to do; the closure ends.
CallStep(t) ==
    Acquire(t) \/ PollGranted(t) \/ Recheck(t) \/ WorkEnds(t) \/ Finish(t)

Next ==
    \E t \in Tasks :
       \/ CallOnce(t) \/ CallStep(t) \/ Cancel(t) \/ Wait(t)
       \/ WaitNext(t) /\ UNCHANGED onceVars

-----------------------------------------------------------------------------

\* One call at a time runs the closure, and none after it was done: the decrement
\* of call_once always finds one (its unreachable! arm).
RunsOnce ==
    /\ \A t, u \in Tasks : call[t] \in Holding /\ call[u] \in Holding => t = u
    /\ \A t \in Tasks : call[t] = "work" => count = 1
    /\ \A t \in Tasks : call[t] = "queued" => \E u \in Tasks : call[u] \in Holding
=============================================================================
