------------------------------- MODULE Rounds -------------------------------
(***************************************************************************)
(* The primitives that wait in a WakerSet under their own lock: Barrier,   *)
(* Phaser, Watch and Completion.  All of them detach every waiter when     *)
(* their round ends and recognise detached tokens by their own state; what *)
(* they owe their waiters is the same.                                     *)
(***************************************************************************)
EXTENDS WakerSet

CONSTANTS
    N, MaxGenerations,                         \* of Barrier
    Never, Registrars, MaxParties, MaxPhase,   \* of Phaser
    Publishers, Subscribers, MaxVersion,       \* of Watch
    Nobody                                     \* of Completion

ASSUME RoundsAssumption ==
    /\ {N, MaxGenerations, MaxParties, MaxPhase, MaxVersion} \subseteq Nat
    /\ Nobody \notin Tasks

VARIABLE kind   \* "barrier", "phaser", "watch" or "completion"

allVars == <<kind, vars>>

B == INSTANCE Barrier
P == INSTANCE Phaser
W == INSTANCE Watch
C == INSTANCE Completion

Init ==
    \/ kind = "barrier" /\ B!Init
    \/ kind = "phaser" /\ P!Init
    \/ kind = "watch" /\ W!Init
    \/ kind = "completion" /\ C!Init

Step(t) ==
    \/ kind = "barrier" /\ B!Step(t)
    \/ kind = "phaser" /\ P!Step(t)
    \/ kind = "watch" /\ W!Step(t)
    \/ kind = "completion" /\ C!Step(t)

CallWaker(t) == IF kind = "completion" THEN C!WakeUnlocked(t) ELSE Wake(t)

Next == UNCHANGED kind /\ \E t \in Tasks : Step(t) \/ CallWaker(t)

Spec == Init /\ [][Next]_allVars

\* What a thread does once it is inside a call.
Proceed(t) ==
    \/ kind = "barrier" /\ B!InPoll(t)
    \/ kind = "phaser" /\ P!InPoll(t)
    \/ kind = "watch" /\ W!InPoll(t)
    \/ kind = "completion" /\ C!InPoll(t)

Poll(t) ==
    \/ kind = "barrier" /\ B!Poll(t)
    \/ kind = "phaser" /\ P!Poll(t)
    \/ kind = "watch" /\ W!Poll(t)
    \/ kind = "completion" /\ C!Poll(t)

\* Threads finish the calls they are in; executors poll woken futures.
Fairness ==
    \A t \in Tasks :
       /\ WF_allVars(UNCHANGED kind /\ Proceed(t))
       /\ WF_allVars(UNCHANGED kind /\ CallWaker(t))
       /\ WF_allVars(UNCHANGED kind /\ t \in woken /\ Poll(t))

LiveSpec == Spec /\ Fairness

-----------------------------------------------------------------------------

\* A token that is used refers to its own slot: register and unregister panic on a
\* vacant slot, and would take another future's waker from a slot that was reused.
\* Generations, phases, versions, close, disconnection and completion all empty the
\* set; the futures' checks tell their tokens apart.  No waker is left behind either.
TokensAreValid ==
    /\ WakerTypeOK
    /\ kind = "barrier" => TokensMatch(B!Current)
    /\ kind = "phaser" => TokensMatch(P!Current)
    /\ kind = "watch" => TokensMatch(W!Current)
    /\ kind = "completion" /\ state.lock = Nobody => TokensMatch(C!Current)

\* What each primitive counts is exact in every interleaving: the arrivals of a
\* barrier, the parties of a phaser and those that have not arrived, the handles of
\* a watch channel and the version of a received value, the single completion.
CountIsExact ==
    /\ kind = "barrier" => B!CountIsExact
    /\ kind = "phaser" => P!CountIsExact
    /\ kind = "watch" => W!CountIsExact
    /\ kind = "completion" => C!CountIsExact

\* A wait whose round has ended, or that nothing can wake any more, returns, unless
\* it is dropped.
ReleasedWaitEnds ==
    \A t \in Tasks :
       \/ kind = "barrier" /\ B!Released(t)
       \/ kind = "phaser" /\ P!Released(t)
       \/ kind = "watch" /\ W!Released(t)
       \/ kind = "completion" /\ C!Released(t)
       ~> pc[t] = "idle"
=============================================================================
