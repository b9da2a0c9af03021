------------------------------ MODULE Barrier ------------------------------
(***************************************************************************)
(* asyncband/src/barrier/mod.rs: n arrivals complete a generation.         *)
(* Dropping a wait takes back its registration, not its arrival.           *)
(***************************************************************************)
EXTENDS WakerSet

CONSTANTS
    N,               \* the argument of Barrier::new
    MaxGenerations   \* bound: no arrivals after this generation

\* An empty group is normalized to one participant.
Parties == IF N > 0 THEN N ELSE 1

\* arrivals counts the calls of wait; it is not part of the code.
Init ==
    /\ WakerInit
    /\ state = [arrived |-> 0, generation |-> 0, arrivals |-> 0]
    /\ local = [t \in Tasks |-> 0]   \* BarrierWait::generation

\* wait up to its future: the last arrival is the leader and opens the barrier.
Arrive(t) ==
    /\ Free(t) /\ state.generation < MaxGenerations
    /\ IF state.arrived + 1 = Parties
       THEN /\ state' = [arrived |-> 0, generation |-> state.generation + 1,
                         arrivals |-> state.arrivals + 1]
            /\ DetachAll(t)
            /\ UNCHANGED <<local, pc>>
       ELSE /\ state' = [state EXCEPT !.arrived = @ + 1, !.arrivals = @ + 1]
            /\ local' = [local EXCEPT ![t] = state.generation]
            /\ Goto(t, "polling")
            /\ DetachNobody
    /\ UNCHANGED <<token, woken>>

Poll(t) ==
    /\ pc[t] \in {"polling", "pending"} /\ toWake[t] = {}
    /\ IF local[t] < state.generation
       THEN Goto(t, "idle") /\ ForgetToken(t) /\ UNCHANGED waiters
       ELSE Goto(t, "pending") /\ Register(t)
    /\ woken' = woken \ {t}
    /\ UNCHANGED <<state, local, toWake>>

DropWaitUnchecked(t) ==
    /\ pc[t] = "pending"
    /\ Goto(t, "idle")
    /\ Unregister(t)
    /\ woken' = woken \ {t}
    /\ UNCHANGED <<state, local, toWake>>

\* The registration is gone if the generation has passed.
DropWait(t) ==
    /\ pc[t] = "pending"
    /\ Goto(t, "idle")
    /\ IF local[t] = state.generation THEN Unregister(t) ELSE ForgetToken(t) /\ UNCHANGED waiters
    /\ woken' = woken \ {t}
    /\ UNCHANGED <<state, local, toWake>>

Step(t) == Arrive(t) \/ Poll(t) \/ DropWait(t)

\* Steps a poll that was begun goes on to.
InPoll(t) == pc[t] = "polling" /\ Poll(t)

-----------------------------------------------------------------------------

Current == {t \in Tasks : pc[t] # "idle" /\ local[t] = state.generation}

Released(t) == pc[t] # "idle" /\ local[t] < state.generation

\* Every generation took exactly as many arrivals as it has parties, so nobody passed early, and a waiter
\* is never of a later generation than the barrier.
CountIsExact ==
    /\ state.arrivals = Parties * state.generation + state.arrived
    /\ state.arrived \in 0..(Parties - 1)
    /\ \A t \in Tasks : local[t] <= state.generation
=============================================================================
