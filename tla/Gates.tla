------------------------------- MODULE Gates -------------------------------
(***************************************************************************)
(* The gates that open when a counter reaches zero: a Latch, a WaitGroup,  *)
(* a Once or a Shutdown, fixed when the gate is created.  All of them wait *)
(* in the same way, ZeroWait, and all owe their waiters the same.          *)
(***************************************************************************)
EXTENDS ZeroWait, Sequences

CONSTANTS
    Count,     \* the initial count of a latch
    Amounts    \* the arguments of Latch::arrive

ASSUME GatesAssumption == Count \in Nat /\ Amounts \subseteq Nat

VARIABLES
    kind,      \* "latch", "waitgroup", "once" or "shutdown"
    seen, amount, arrived, owners, then, call, queue, requested, watch

latchVars == <<seen, amount, arrived>>
groupVars == <<owners, then>>
onceVars == <<call, queue>>
shutdownVars == <<requested, watch>>
vars == <<kind, count, waitVars, latchVars, groupVars, onceVars, shutdownVars>>

L == INSTANCE Latch
G == INSTANCE WaitGroup
O == INSTANCE Once
S == INSTANCE Shutdown

NoLatch == arrived = 0 /\ seen = [t \in Tasks |-> 0] /\ amount = [t \in Tasks |-> 0]
NoGroup == owners = {} /\ then = [t \in Tasks |-> "idle"]
NoOnce == call = [t \in Tasks |-> "none"] /\ queue = <<>>
NoShutdown == requested = FALSE /\ watch = [t \in Tasks |-> "none"]

Init ==
    \/ kind = "latch" /\ L!Init /\ NoGroup /\ NoOnce /\ NoShutdown
    \/ kind = "waitgroup" /\ G!Init /\ NoLatch /\ NoOnce /\ NoShutdown
    \/ kind = "once" /\ O!Init /\ NoLatch /\ NoGroup /\ NoShutdown
    \/ kind = "shutdown" /\ S!ShutdownInit /\ NoLatch /\ NoOnce

OfLatch == kind = "latch" /\ UNCHANGED <<kind, groupVars, onceVars, shutdownVars>>
OfGroup == kind = "waitgroup" /\ UNCHANGED <<kind, latchVars, onceVars, shutdownVars>>
OfOnce == kind = "once" /\ UNCHANGED <<kind, latchVars, groupVars, shutdownVars>>
OfShutdown == kind = "shutdown" /\ UNCHANGED <<kind, latchVars, onceVars>>

Next ==
    \/ OfLatch /\ L!Next
    \/ OfGroup /\ G!Next
    \/ OfOnce /\ O!Next
    \/ OfShutdown /\ S!ShutdownNext

Spec == Init /\ [][Next]_vars

Unchanged == UNCHANGED <<kind, latchVars, groupVars, onceVars, shutdownVars>>

\* The steps of t inside a call of the gate, other than waiting.
Proceed(t) ==
    \/ OfLatch /\ L!DecrementStep(t)
    \/ OfOnce /\ O!CallStep(t)
    \/ kind \in {"latch", "once"} /\ WakeEnd(t) /\ Unchanged
    \/ OfGroup /\ G!WakeReturn(t)
    \/ OfShutdown /\ G!WakeReturn(t) /\ UNCHANGED shutdownVars

WokenPoll(t) ==
    /\ t \in woken
    /\ IF kind = "shutdown" THEN OfShutdown /\ S!PollShutdown(t) ELSE Poll(t) /\ Unchanged

\* The owner of a guard waits for the request and then drops the guard.
GuardEnds(t) ==
    /\ OfShutdown /\ t \in owners
    /\ \/ S!Watch(t)
       \/ watch[t] = "told" /\ S!DropGuard(t)

\* Threads finish the calls they are in, executors poll woken futures and granted
\* calls, and the guards of a shutdown are given up once it is requested.
Fairness ==
    \A t \in Tasks :
       /\ WF_vars(Proceed(t))
       /\ WF_vars((PollStep(t) \/ UnregisterStep(t)) /\ Unchanged)
       /\ WF_vars((Detach(t) \/ WakeOne(t)) /\ Unchanged)
       /\ WF_vars(WokenPoll(t))
       /\ WF_vars(GuardEnds(t))

LiveSpec == Spec /\ Fairness

-----------------------------------------------------------------------------

TypeOK ==
    /\ WaitTypeOK
    /\ kind = "latch" => L!LatchTypeOK
    /\ kind \in {"waitgroup", "shutdown"} => G!GroupTypeOK
    /\ kind = "once" => O!OnceTypeOK
    /\ kind = "shutdown" => S!ShutdownTypeOK

\* The counter is exact: of a latch, what is left is what was not counted,
\* however arrivals race; of a wait group, the number of handles (release_handle's
\* debug_assert), so a wait that completes means that no handle is left; of a Once,
\* one until a single call has run the closure.  Nobody waits at the latch of a
\* shutdown that was requested.
CountIsExact ==
    /\ TypeOK
    /\ kind = "latch" => L!NoLostArrival
    /\ kind \in {"waitgroup", "shutdown"} => G!CountsHandles
    /\ kind = "once" => O!RunsOnce
    /\ kind = "shutdown" => S!NobodyMissesRequest

\* The books are right: the count, and the tokens that futures hold (TokensAreValid of
\* the countdown they share).
GateIsSound == CountIsExact /\ TokensAreValid

\* Zero is final: a latch does not close again, no handle can be made after the
\* last one is gone, and a Once does not run again.
ZeroIsFinal == [][count = 0 => count' = 0]_vars

\* New guards stop being made.
NoMoreGuards == <>[][owners' \subseteq owners]_vars

\* Every wait on an open gate ends, also the one that was made from the last handle
\* of a wait group.  A call of call_once that waits for the permit gets it.  A
\* Shutdown that was polled completes, unless guards are cloned for ever: its poll
\* told their owners to stop.
WaitEnds ==
    \A t \in Tasks :
       /\ (count = 0 /\ pc[t] \in Waiting) ~> pc[t] = "idle"
       /\ call[t] = "queued" ~> call[t] # "queued"
       /\ NoMoreGuards =>
             (kind = "shutdown" /\ pc[t] \in Waiting /\ t \notin woken) ~> pc[t] = "idle"
=============================================================================
