---------------------------- MODULE MpmcLiveness ----------------------------
(***************************************************************************)
(* What must eventually happen in the mpmc queue.                          *)
(***************************************************************************)
EXTENDS MpmcQueue

\* An executor polls the future of a task that was woken, or just created.
WokenPoll(t) == t \in woken /\ (ReservePoll(t) \/ RecvPoll(t))

\* A permit is used or dropped in the end.
UsePermit(t) == PermitSend(t) \/ PermitDrop(t)

\* Threads go on to call the wakers they took, executors poll what was woken,
\* and permits are not kept for ever.  Nobody has to start an operation.
TaskFairness ==
    /\ \A t \in Tasks : WF_vars(Wake(t) /\ UNCHANGED capacity)
    /\ \A t \in Tasks : WF_vars(WokenPoll(t) /\ UNCHANGED capacity)
    /\ \A t \in Senders : WF_vars(UsePermit(t) /\ UNCHANGED capacity)

LiveSpec == Spec /\ TaskFairness

\* Idle receivers take the values there are.
ConsumersReceive == \A t \in Receivers : WF_vars(TryRecv(t) /\ UNCHANGED capacity)

\* A queued value reaches a waiting receiver although nobody else calls recv:
\* notifications of cancelled receivers are handed on.  After the last sender left,
\* every pending receive ends.
ReceiveProceeds ==
    \A r \in Receivers :
       /\ (values > 0 /\ waiter[r] = "waiting") ~> (values = 0 \/ waiter[r] # "waiting")
       /\ (senders = {} /\ op[r] = "recv") ~> op[r] # "recv"

\* While receivers take values, a reservation gets its slot, or the disconnect
\* error, however other senders come and go.
SendCompletes ==
    ConsumersReceive =>
       \A s \in Senders : op[s] \in {"reserve", "send"} ~> op[s] \notin {"reserve", "send"}
=============================================================================
