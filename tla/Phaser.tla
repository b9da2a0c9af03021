------------------------------- MODULE Phaser -------------------------------
(***************************************************************************)
(* asyncband/src/phaser/mod.rs: a barrier whose participants register and  *)
(* deregister.  A phase ends when no participant is left that has not      *)
(* arrived; anybody may wait for the end of a phase, or close the phaser.  *)
(***************************************************************************)
EXTENDS WakerSet

CONSTANTS
    Never,       \* no phase: PhaserParticipant::pending is None
    Registrars,  \* tasks that may call register and close
    MaxParties,  \* bound on the parties registered at a time
    MaxPhase     \* bound: no new calls once this phase is reached

\* A task owns at most one participant (member), one iterator that register returned
\* (remaining > 0), and one wait for the end of the phase `observed`.
Init ==
    /\ WakerInit
    /\ state = [phase |-> 0, closed |-> FALSE, registered |-> 0, unarrived |-> 0]
    /\ local = [t \in Tasks |->
                  [member |-> FALSE, pending |-> Never, remaining |-> 0, observed |-> Never]]

Calls(t) == Free(t) /\ state.phase < MaxPhase

-----------------------------------------------------------------------------
(* Phases.                                                                 *)

\* advance_if_ready, of the state s.
AdvanceIfReady(t, s) ==
    IF s.closed \/ s.unarrived # 0
    THEN state' = s /\ DetachNobody
    ELSE /\ state' = [s EXCEPT !.phase = @ + 1, !.unarrived = s.registered]
         /\ DetachAll(t)

\* completion: what a wait for the end of the phase observed finds.
Completion(observed) ==
    IF state.phase # observed THEN "advanced" ELSE IF state.closed THEN "closed" ELSE "pending"

Close(t) ==
    /\ t \in Registrars /\ Calls(t) /\ ~state.closed
    /\ state' = [state EXCEPT !.closed = TRUE]
    /\ DetachAll(t)
    /\ UNCHANGED <<local, token, pc, woken>>

-----------------------------------------------------------------------------
(* Registration.                                                           *)

\* do_register: refused once the phaser is closed.
DoRegister(n) ==
    /\ ~state.closed
    /\ state.registered + n <= MaxParties
    /\ state' = [state EXCEPT !.registered = @ + n, !.unarrived = @ + n]

NewParticipant(l) == [l EXCEPT !.member = TRUE, !.pending = Never]

RegisterOne(t) ==
    /\ Calls(t) /\ ~local[t].member
    /\ DoRegister(1)
    /\ local' = [local EXCEPT ![t] = NewParticipant(@)]
    /\ UNCHANGED wakerVars

\* register returns an iterator of participants.
RegisterParties(t) ==
    /\ t \in Registrars /\ Calls(t) /\ local[t].remaining = 0
    /\ DoRegister(2)
    /\ local' = [local EXCEPT ![t].remaining = 2]
    /\ UNCHANGED wakerVars

\* The iterator of t yields a participant, which goes to u.
YieldParticipant(t, u) ==
    /\ Calls(t) /\ local[t].remaining > 0
    /\ pc[u] = "idle" /\ ~local[u].member
    /\ local' = [local EXCEPT ![t].remaining = @ - 1, ![u].member = TRUE, ![u].pending = Never]
    /\ UNCHANGED <<state, wakerVars>>

\* PhaserParticipants::drop withdraws those that were not yielded.
DropParticipants(t) ==
    /\ Calls(t) /\ local[t].remaining > 0
    /\ AdvanceIfReady(t, [state EXCEPT !.registered = @ - local[t].remaining,
                                       !.unarrived = @ - local[t].remaining])
    /\ local' = [local EXCEPT ![t].remaining = 0]
    /\ UNCHANGED <<token, pc, woken>>

DeregisterForgetsArrival(t) ==
    /\ Calls(t) /\ local[t].member
    /\ AdvanceIfReady(t, [state EXCEPT !.registered = @ - 1])
    /\ local' = [local EXCEPT ![t].member = FALSE, ![t].pending = Never]
    /\ UNCHANGED <<token, pc, woken>>

\* deregister, and the drop of a participant.
Deregister(t) ==
    /\ Calls(t) /\ local[t].member
    /\ AdvanceIfReady(t,
          [state EXCEPT !.registered = @ - 1,
                        !.unarrived = IF local[t].pending # state.phase THEN @ - 1 ELSE @])
    /\ local' = [local EXCEPT ![t].member = FALSE, ![t].pending = Never]
    /\ UNCHANGED <<token, pc, woken>>

-----------------------------------------------------------------------------
(* Arrival and waiting.                                                    *)

\* What arrive does to the state; a second arrival in a phase is not counted.
Arrival(t) ==
    /\ ~state.closed
    /\ AdvanceIfReady(t,
          [state EXCEPT !.unarrived = IF local[t].pending # state.phase THEN @ - 1 ELSE @])

Arrive(t) ==
    /\ Calls(t) /\ local[t].member
    /\ Arrival(t)
    /\ local' = [local EXCEPT ![t].pending = state.phase]
    /\ UNCHANGED <<token, pc, woken>>

\* PhaserParticipant::wait arrives unless it has, and waits for that phase; closed,
\* it returns at once.  The wakers arrive detached are called before the first poll.
WaitForPhase(t) ==
    /\ Calls(t) /\ local[t].member
    /\ \/ /\ local[t].pending = Never
          /\ Arrival(t)
          /\ local' = [local EXCEPT ![t].pending = state.phase, ![t].observed = state.phase]
       \/ /\ local[t].pending # Never
          /\ local' = [local EXCEPT ![t].observed = local[t].pending]
          /\ UNCHANGED <<state, waiters, toWake>>
    /\ Goto(t, "polling")
    /\ UNCHANGED <<token, woken>>

\* Phaser::wait, by a task that is no participant, for a phase it has seen.
Observe(t, phase) ==
    /\ Calls(t) /\ ~local[t].member
    /\ phase <= state.phase
    /\ local' = [local EXCEPT ![t].observed = phase]
    /\ Goto(t, "polling")
    /\ UNCHANGED <<state, waiters, token, toWake, woken>>

\* A participant's wait that returned Ok may arrive again; after Closed it keeps
\* its pending phase.
Poll(t) ==
    /\ pc[t] \in {"polling", "pending"} /\ toWake[t] = {}
    /\ IF Completion(local[t].observed) = "pending"
       THEN Goto(t, "pending") /\ Register(t) /\ UNCHANGED local
       ELSE /\ Goto(t, "idle") /\ ForgetToken(t) /\ UNCHANGED waiters
            /\ local' = [local EXCEPT ![t].observed = Never,
                            ![t].pending = IF Completion(local[t].observed) = "advanced"
                                           THEN Never ELSE @]
    /\ woken' = woken \ {t}
    /\ UNCHANGED <<state, toWake>>

\* PhaserWait::drop; the arrival stands, pending keeps it.
DropWait(t) ==
    /\ pc[t] = "pending"
    /\ Goto(t, "idle")
    /\ IF Completion(local[t].observed) = "pending"
       THEN Unregister(t)
       ELSE ForgetToken(t) /\ UNCHANGED waiters
    /\ local' = [local EXCEPT ![t].observed = Never]
    /\ woken' = woken \ {t}
    /\ UNCHANGED <<state, toWake>>

Step(t) ==
    \/ Close(t) \/ RegisterOne(t) \/ RegisterParties(t) \/ DropParticipants(t) \/ Deregister(t)
    \/ \E u \in Tasks : YieldParticipant(t, u)
    \/ Arrive(t) \/ WaitForPhase(t) \/ (\E phase \in 0..MaxPhase : Observe(t, phase))
    \/ Poll(t) \/ DropWait(t)

InPoll(t) == pc[t] = "polling" /\ Poll(t)

-----------------------------------------------------------------------------

Current == {t \in Tasks : pc[t] # "idle" /\ Completion(local[t].observed) = "pending"}

Released(t) == pc[t] # "idle" /\ Completion(local[t].observed) # "pending"

Members == {t \in Tasks : local[t].member}

NotYielded == FoldSet(LAMBDA t, n : n + local[t].remaining, 0, Tasks)

\* The counters are exact however registrations, arrivals, cancelled waits and
\* withdrawals interleave: the registered parties are the participants and those
\* not yielded yet, the unarrived ones those without an arrival in this phase.  An
\* open phase with parties has one that did not arrive.
CountIsExact ==
    /\ state.registered = Cardinality(Members) + NotYielded
    /\ state.unarrived = NotYielded + Cardinality({t \in Members : local[t].pending # state.phase})
    /\ ~state.closed /\ state.registered > 0 => state.unarrived > 0
=============================================================================
