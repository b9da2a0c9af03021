------------------------------- MODULE Parker -------------------------------
(***************************************************************************)
(* The parker of asyncband/src/blocking/parker.rs: one thread parks on an  *)
(* atomic state, a lock and a condition variable; any thread that has its  *)
(* waker unparks it.  The parker is cached in its thread, so wakers of     *)
(* futures that were given up may still unpark it.                         *)
(***************************************************************************)
EXTENDS Integers

CONSTANTS
    Unparkers,   \* threads that call the parker's waker
    Thread,      \* the thread that parks
    Nobody       \* the owner of a free lock

VARIABLES
    park,        \* ParkerState::state: "EMPTY", "PARKED" or "NOTIFIED"
    lock,        \* who holds ParkerState::lock
    tpc,         \* where the thread is
    timed,       \* the thread parks with a timeout
    upc          \* where each unparker is

parkerVars == <<park, lock, tpc, timed, upc>>

\* "poll" and "polling" are outside of park; in "cv" the thread waits on the
\* condition variable, in "prewait" it is about to, with the lock.
ParkPCs == {"try", "yield", "lock", "exchange", "prewait", "cv", "relock"}
ThreadPCs == {"none", "poll", "polling", "over"} \cup ParkPCs

ParkerTypeOK ==
    /\ park \in {"EMPTY", "PARKED", "NOTIFIED"}
    /\ lock \in Unparkers \cup {Thread, Nobody}
    /\ tpc \in ThreadPCs
    /\ timed \in BOOLEAN
    /\ upc \in [Unparkers -> {"none", "swap", "lock", "notify"}]

ThreadGoto(p) == tpc' = p

\* park returns and the thread polls again; the lock, if held, is released.
ParkReturns ==
    /\ ThreadGoto("poll")
    /\ lock' = IF lock = Thread THEN Nobody ELSE lock

\* A notification that came first is consumed, once more after a yield if there is
\* no timeout.
TryConsume ==
    /\ tpc \in {"try", "yield"}
    /\ IF park = "NOTIFIED"
       THEN park' = "EMPTY" /\ ParkReturns
       ELSE /\ ThreadGoto(IF tpc = "try" /\ ~timed THEN "yield" ELSE "lock")
            /\ UNCHANGED <<park, lock>>
    /\ UNCHANGED <<timed, upc>>

LockToPark ==
    /\ tpc = "lock" /\ lock = Nobody
    /\ ThreadGoto("exchange")
    /\ lock' = Thread
    /\ UNCHANGED <<park, timed, upc>>

\* The exchange to PARKED fails if a notification came after all.
Exchange ==
    /\ tpc = "exchange"
    /\ \/ park = "EMPTY" /\ park' = "PARKED" /\ ThreadGoto("prewait") /\ UNCHANGED lock
       \/ park = "NOTIFIED" /\ park' = "EMPTY" /\ ParkReturns
    /\ UNCHANGED <<timed, upc>>

CvWait ==
    /\ tpc = "prewait"
    /\ ThreadGoto("cv")
    /\ lock' = Nobody
    /\ UNCHANGED <<park, timed, upc>>

\* A wait on a condition variable may end for no reason, and a timed one in time.
CvWakes ==
    /\ tpc = "cv"
    /\ ThreadGoto("relock")
    /\ UNCHANGED <<park, lock, timed, upc>>

\* With the lock again: without a timeout the thread goes on waiting unless it was
\* notified; with one the state is emptied whatever it is.
AfterWait ==
    /\ tpc = "relock" /\ lock = Nobody
    /\ IF timed \/ park = "NOTIFIED"
       THEN park' = "EMPTY" /\ ParkReturns
       ELSE ThreadGoto("cv") /\ UNCHANGED <<park, lock>>
    /\ UNCHANGED <<timed, upc>>

ParkStep == TryConsume \/ LockToPark \/ Exchange \/ CvWait \/ AfterWait

-----------------------------------------------------------------------------
(* unpark.                                                                 *)

UnparkGoto(u, p) == upc' = [upc EXCEPT ![u] = p]

UnparkSwapWithoutLock(u) ==
    /\ upc[u] = "swap"
    /\ park' = "NOTIFIED"
    /\ UnparkGoto(u, IF park = "PARKED" THEN "notify" ELSE "none")
    /\ UNCHANGED <<lock, tpc, timed>>

UnparkSwap(u) ==
    /\ upc[u] = "swap"
    /\ park' = "NOTIFIED"
    /\ UnparkGoto(u, IF park = "PARKED" THEN "lock" ELSE "none")
    /\ UNCHANGED <<lock, tpc, timed>>

\* The lock is taken and released: a thread between the exchange and the wait is
\* then in the wait.
UnparkLock(u) ==
    /\ upc[u] = "lock" /\ lock = Nobody
    /\ UnparkGoto(u, "notify")
    /\ UNCHANGED <<park, lock, tpc, timed>>

UnparkNotify(u) ==
    /\ upc[u] = "notify"
    /\ UnparkGoto(u, "none")
    /\ ThreadGoto(IF tpc = "cv" THEN "relock" ELSE tpc)
    /\ UNCHANGED <<park, lock, timed>>

UnparkStep(u) == UnparkSwap(u) \/ UnparkLock(u) \/ UnparkNotify(u)

-----------------------------------------------------------------------------

\* Only the thread parks: the states that park and unpark panic on are not met.
ParkStateIsConsistent ==
    /\ tpc = "exchange" => park # "PARKED"
    /\ tpc \in {"prewait", "cv", "relock"} => park # "EMPTY"
    /\ park = "PARKED" => tpc \in {"prewait", "cv", "relock"}
=============================================================================
