------------------------------- MODULE Latch -------------------------------
(***************************************************************************)
(* Latch (asyncband/src/latch/mod.rs) on CountdownState: decrement is a    *)
(* loop of a load and a weak compare-exchange that saturates at zero.      *)
(***************************************************************************)
EXTENDS ZeroWait

CONSTANTS
    Count,     \* the initial count
    Amounts    \* the arguments of arrive; count_down is arrive(1)

VARIABLES
    seen,      \* cnt of decrement
    amount,    \* n of decrement
    arrived    \* the sum of all n that were counted, or Count if that is less

latchVars == <<seen, amount, arrived>>
vars == <<count, waitVars, latchVars>>

LatchTypeOK ==
    /\ seen \in [Tasks -> Nat]
    /\ amount \in [Tasks -> Nat]
    /\ arrived \in 0..Count

Init ==
    /\ WaitInit
    /\ count = Count
    /\ seen = [t \in Tasks |-> 0]
    /\ amount = [t \in Tasks |-> 0]
    /\ arrived = 0

Wait(t) ==
    /\ pc[t] = "idle"
    /\ Goto(t, "pending")
    /\ woken' = woken \cup {t}
    /\ UNCHANGED <<count, lock, waiters, token, toWake, latchVars>>

\* arrive: nothing happens for n = 0, or at zero.
Arrive(t, n) ==
    /\ pc[t] = "idle"
    /\ n # 0 /\ count # 0
    /\ seen' = [seen EXCEPT ![t] = count]
    /\ amount' = [amount EXCEPT ![t] = n]
    /\ Goto(t, "cas")
    /\ UNCHANGED <<count, lock, waiters, token, toWake, woken, arrived>>

SaturatingSub(a, b) == IF a > b THEN a - b ELSE 0

CasSucceeds(t) ==
    /\ pc[t] = "cas" /\ count = seen[t]
    /\ count' = SaturatingSub(count, amount[t])
    /\ arrived' = IF arrived + amount[t] < Count THEN arrived + amount[t] ELSE Count
    /\ Goto(t, IF count' = 0 THEN "detach" ELSE "idle")
    /\ seen' = [seen EXCEPT ![t] = 0]
    /\ amount' = [amount EXCEPT ![t] = 0]
    /\ UNCHANGED <<lock, waiters, token, toWake, woken>>

\* A failure returns the count it saw; zero ends the loop.
CasFails(t) ==
    /\ pc[t] = "cas" /\ count # seen[t]
    /\ seen' = [seen EXCEPT ![t] = count]
    /\ IF count = 0
       THEN Goto(t, "idle") /\ amount' = [amount EXCEPT ![t] = 0]
       ELSE UNCHANGED <<pc, amount>>
    /\ UNCHANGED <<count, lock, waiters, token, toWake, woken, arrived>>

DecrementStep(t) == CasSucceeds(t) \/ CasFails(t)

Next ==
    \E t \in Tasks :
       \/ Wait(t)
       \/ \E n \in Amounts : Arrive(t, n)
       \/ DecrementStep(t)
       \/ WaitNext(t) /\ UNCHANGED latchVars

Spec == Init /\ [][Next]_vars

-----------------------------------------------------------------------------

\* No arrival is lost when several race: what is left is what was not counted.
NoLostArrival == count = SaturatingSub(Count, arrived)
=============================================================================
