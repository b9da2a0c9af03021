----------------------------- MODULE MpmcQueue -----------------------------
(***************************************************************************)
(* The queue behind the mpmc channels (asyncband/src/mpmc/queue.rs).       *)
(*                                                                         *)
(* One lock guards the values, the free capacity, the endpoint counts and  *)
(* the two wait lists, so each critical section is one step.  The wakers a *)
(* critical section selected are called after it, one by one, while other  *)
(* tasks run.  A task owns at most one endpoint and runs one operation at  *)
(* a time; operations that share an endpoint are tasks with clones of it.  *)
(***************************************************************************)
EXTENDS WaiterSeq, FiniteSets

CONSTANTS
    Senders,     \* tasks that may own a Sender
    Receivers,   \* tasks that may own a Receiver
    Capacities,  \* the arguments of bounded(), 0 for unbounded()
    MaxValues    \* bound on the values in the queue, for an unbounded one

ASSUME MpmcAssumption ==
    /\ Senders \cap Receivers = {}
    /\ IsFiniteSet(Senders) /\ IsFiniteSet(Receivers)
    /\ Capacities \subseteq Nat
    /\ MaxValues \in Nat

Tasks == Senders \cup Receivers

VARIABLES
    capacity,    \* Shared::bounded with its capacity; never changes
    values,      \* State::values, as a count
    available,   \* State::available, 0 if unbounded
    senders,     \* the live Senders; State::senders is their number
    receivers,   \* the live Receivers
    unborn,      \* tasks whose endpoint was not cloned yet
    recvQueue,   \* State::recv_waiters, the linked ones
    sendQueue,   \* State::send_waiters, the linked ones
    op,          \* the operation each task is in
    waiter,      \* the waiter id of a pending future, by the state of its node
    toWake,      \* wakers each task took under the lock and has still to call
    woken        \* tasks whose waker was called since they were polled last

state == <<values, available, senders, receivers, recvQueue, sendQueue>>
vars == <<capacity, state, unborn, op, waiter, toWake, woken>>

\* "reserve" and "permit" belong to reserve(); "send" and "sendPermit" are the
\* same stages inside send(), which goes on to send its value by itself.
Ops == {"none", "reserve", "send", "permit", "sendPermit", "recv"}

\* "signalled" is RecvWaiter::Notified and SendWaiter::Granted; "stale" is an
\* id of a list that was moved out when the other side disconnected.
WaiterStates == {"none", "waiting", "signalled", "stale"}

TypeOK ==
    /\ values \in Nat
    /\ capacity \in Capacities
    /\ available \in 0..capacity
    /\ senders \subseteq Senders
    /\ receivers \subseteq Receivers
    /\ unborn \subseteq Tasks
    /\ recvQueue \in Seq(Receivers)
    /\ sendQueue \in Seq(Senders)
    /\ op \in [Tasks -> Ops]
    /\ waiter \in [Tasks -> WaiterStates]
    /\ toWake \in [Tasks -> SUBSET Tasks]
    /\ woken \subseteq Tasks

\* The tasks are alike: which of them gets the first endpoint makes no difference.
Init ==
    /\ values = 0
    /\ capacity \in Capacities
    /\ available = capacity
    /\ senders = {CHOOSE s \in Senders : TRUE}
    /\ receivers = {CHOOSE r \in Receivers : TRUE}
    /\ unborn = Tasks \ (senders \cup receivers)
    /\ recvQueue = <<>>
    /\ sendQueue = <<>>
    /\ op = [t \in Tasks |-> "none"]
    /\ waiter = [t \in Tasks |-> "none"]
    /\ toWake = [t \in Tasks |-> {}]
    /\ woken = {}

-----------------------------------------------------------------------------
(* What the critical sections are made of.                                 *)

\* t may enter its next critical section: it called the wakers of the last.
Running(t) == toWake[t] = {}

Idle(t) == Running(t) /\ op[t] = "none"

Bounded == capacity # 0

HasCapacity == Bounded => available # 0

\* The capacity acquire and Reserve::poll take.
OneSlotTaken == IF Bounded THEN available' = available - 1 ELSE UNCHANGED available

\* The waiter notify_one, or grant_one, detaches from a list.
FirstOf(queue) == IF queue = <<>> THEN {} ELSE {Head(queue)}

RestOf(queue) == IF queue = <<>> THEN <<>> ELSE Tail(queue)

Signalled(ws) == [w \in Tasks |-> IF w \in ws THEN "signalled" ELSE waiter[w]]

\* push: the value is queued and a waiting receiver is notified.
Push(t) ==
    /\ values' = values + 1
    /\ recvQueue' = RestOf(recvQueue)
    /\ toWake' = [toWake EXCEPT ![t] = FirstOf(recvQueue)]

\* release: the slot goes to a waiting reservation before it is free again.
Releasing == Bounded /\ receivers # {}

Granted == IF Releasing THEN FirstOf(sendQueue) ELSE {}

Release(t) ==
    /\ sendQueue' = IF Releasing THEN RestOf(sendQueue) ELSE sendQueue
    /\ available' = IF Releasing /\ sendQueue = <<>> THEN available + 1 ELSE available
    /\ toWake' = [toWake EXCEPT ![t] = Granted]

-----------------------------------------------------------------------------
(* Sending.                                                                *)

\* try_send with room; without room, or disconnected, it changes nothing.
TrySend(t) ==
    /\ Bounded
    /\ t \in senders /\ Idle(t)
    /\ receivers # {} /\ HasCapacity
    /\ OneSlotTaken
    /\ Push(t)
    /\ waiter' = Signalled(FirstOf(recvQueue))
    /\ UNCHANGED <<senders, receivers, sendQueue, unborn, op, woken>>

\* send of the unbounded channel: try_send, which always has room.
UnboundedSend(t) ==
    /\ ~Bounded
    /\ t \in senders /\ Idle(t)
    /\ receivers # {}
    /\ values < MaxValues
    /\ Push(t)
    /\ waiter' = Signalled(FirstOf(recvQueue))
    /\ UNCHANGED <<available, senders, receivers, sendQueue, unborn, op, woken>>

\* send whose try_send failed for lack of room goes on to reserve.
Send(t) ==
    /\ t \in senders /\ Idle(t)
    /\ receivers # {} /\ ~HasCapacity
    /\ op' = [op EXCEPT ![t] = "send"]
    /\ woken' = woken \cup {t}
    /\ UNCHANGED <<state, unborn, waiter, toWake>>

\* reserve, of bounded channels: a future that is polled for the first time later.
Reserve(t) ==
    /\ Bounded
    /\ t \in senders /\ Idle(t)
    /\ op' = [op EXCEPT ![t] = "reserve"]
    /\ woken' = woken \cup {t}
    /\ UNCHANGED <<state, unborn, waiter, toWake>>

TryReserve(t) ==
    /\ Bounded
    /\ t \in senders /\ Idle(t)
    /\ receivers # {} /\ HasCapacity
    /\ OneSlotTaken
    /\ op' = [op EXCEPT ![t] = "permit"]
    /\ UNCHANGED <<values, senders, receivers, recvQueue, sendQueue, unborn, waiter, toWake, woken>>

Reserving(t) == Running(t) /\ op[t] \in {"reserve", "send"}

PermitObtained(t) ==
    /\ op' = [op EXCEPT ![t] = IF op[t] = "send" THEN "sendPermit" ELSE "permit"]
    /\ waiter' = [waiter EXCEPT ![t] = "none"]

\* The four outcomes of Reserve::poll, in the order it tests for them.
ReserveDisconnected(t) ==
    /\ Reserving(t)
    /\ receivers = {}
    /\ op' = [op EXCEPT ![t] = "none"]
    /\ waiter' = [waiter EXCEPT ![t] = "none"]
    /\ woken' = woken \ {t}
    /\ UNCHANGED <<state, unborn, toWake>>

ReserveGranted(t) ==
    /\ Reserving(t)
    /\ receivers # {}
    /\ waiter[t] = "signalled"
    /\ PermitObtained(t)
    /\ woken' = woken \ {t}
    /\ UNCHANGED <<state, unborn, toWake>>

ReserveFirst(t) ==
    /\ Reserving(t)
    /\ receivers # {}
    /\ waiter[t] = "none"
    /\ HasCapacity
    /\ OneSlotTaken
    /\ PermitObtained(t)
    /\ woken' = woken \ {t}
    /\ UNCHANGED <<values, senders, receivers, recvQueue, sendQueue, unborn, toWake>>

ReserveWaitUnchecked(t) ==
    /\ Reserving(t)
    /\ receivers # {}
    /\ waiter[t] = "none" /\ sendQueue' = Append(sendQueue, t)
    /\ waiter' = [waiter EXCEPT ![t] = "waiting"]
    /\ woken' = woken \ {t}
    /\ UNCHANGED <<values, available, senders, receivers, recvQueue, unborn, op, toWake>>

ReserveWait(t) ==
    /\ Reserving(t)
    /\ receivers # {}
    /\ \/ waiter[t] = "none" /\ ~HasCapacity /\ sendQueue' = Append(sendQueue, t)
       \/ waiter[t] = "waiting" /\ UNCHANGED sendQueue
    /\ waiter' = [waiter EXCEPT ![t] = "waiting"]
    /\ woken' = woken \ {t}
    /\ UNCHANGED <<values, available, senders, receivers, recvQueue, unborn, op, toWake>>

ReserveDropKeepsGrant(t) ==
    /\ Reserving(t)
    /\ op' = [op EXCEPT ![t] = "none"]
    /\ woken' = woken \ {t}
    /\ sendQueue' = IF receivers # {} THEN Unlink(sendQueue, t) ELSE sendQueue
    /\ waiter' = [waiter EXCEPT ![t] = "none"]
    /\ UNCHANGED <<values, available, senders, receivers, recvQueue, unborn, toWake>>

\* The future is dropped: a grant it did not use goes to the next waiter.
ReserveDrop(t) ==
    /\ Reserving(t)
    /\ op' = [op EXCEPT ![t] = "none"]
    /\ woken' = woken \ {t}
    /\ IF receivers # {} /\ waiter[t] = "signalled"
       THEN /\ Release(t)
            /\ waiter' = [Signalled(Granted) EXCEPT ![t] = "none"]
       ELSE /\ sendQueue' = IF receivers # {} THEN Unlink(sendQueue, t) ELSE sendQueue
            /\ waiter' = [waiter EXCEPT ![t] = "none"]
            /\ UNCHANGED <<available, toWake>>
    /\ UNCHANGED <<values, senders, receivers, recvQueue, unborn>>

\* Permit::send: a value queued by a permit keeps its slot.
PermitSend(t) ==
    /\ Running(t) /\ op[t] \in {"permit", "sendPermit"}
    /\ receivers # {}
    /\ Push(t)
    /\ waiter' = Signalled(FirstOf(recvQueue))
    /\ op' = [op EXCEPT ![t] = "none"]
    /\ UNCHANGED <<available, senders, receivers, sendQueue, unborn, woken>>

\* Permit::drop, also by Permit::send to a disconnected channel.
PermitDrop(t) ==
    /\ Running(t)
    /\ op[t] = "permit" \/ (op[t] = "sendPermit" /\ receivers = {})
    /\ Release(t)
    /\ waiter' = Signalled(Granted)
    /\ op' = [op EXCEPT ![t] = "none"]
    /\ UNCHANGED <<values, senders, receivers, recvQueue, unborn, woken>>

-----------------------------------------------------------------------------
(* Receiving.                                                              *)

\* pop, when there is a value.
Pop(t) == values > 0 /\ values' = values - 1 /\ Release(t)

\* try_recv with a value; otherwise it changes nothing.
TryRecv(t) ==
    /\ t \in receivers /\ Idle(t)
    /\ Pop(t)
    /\ waiter' = Signalled(Granted)
    /\ UNCHANGED <<senders, receivers, recvQueue, unborn, op, woken>>

\* recv whose try_recv found the queue empty goes on to wait.
Recv(t) ==
    /\ t \in receivers /\ Idle(t)
    /\ values = 0 /\ senders # {}
    /\ op' = [op EXCEPT ![t] = "recv"]
    /\ woken' = woken \cup {t}
    /\ UNCHANGED <<state, unborn, waiter, toWake>>

Receiving(t) == Running(t) /\ op[t] = "recv"

\* The three outcomes of Recv::poll.  With no sender left the list was moved
\* out, and the id is forgotten before anything else.
RecvValue(t) ==
    /\ Receiving(t)
    /\ Pop(t)
    /\ recvQueue' = IF senders = {} THEN recvQueue ELSE Unlink(recvQueue, t)
    /\ waiter' = [Signalled(Granted) EXCEPT ![t] = "none"]
    /\ op' = [op EXCEPT ![t] = "none"]
    /\ woken' = woken \ {t}
    /\ UNCHANGED <<senders, receivers, unborn>>

RecvDisconnected(t) ==
    /\ Receiving(t)
    /\ values = 0 /\ senders = {}
    /\ waiter' = [waiter EXCEPT ![t] = "none"]
    /\ op' = [op EXCEPT ![t] = "none"]
    /\ woken' = woken \ {t}
    /\ UNCHANGED <<state, unborn, toWake>>

\* A receiver that was notified but found no value queues up again.
RecvWait(t) ==
    /\ Receiving(t)
    /\ values = 0 /\ senders # {}
    /\ recvQueue' = IF waiter[t] = "waiting" THEN recvQueue ELSE Append(recvQueue, t)
    /\ waiter' = [waiter EXCEPT ![t] = "waiting"]
    /\ woken' = woken \ {t}
    /\ UNCHANGED <<values, available, senders, receivers, sendQueue, unborn, op, toWake>>

RecvDropKeepsNotification(t) ==
    /\ Receiving(t)
    /\ op' = [op EXCEPT ![t] = "none"]
    /\ woken' = woken \ {t}
    /\ recvQueue' = IF senders # {} THEN Unlink(recvQueue, t) ELSE recvQueue
    /\ waiter' = [waiter EXCEPT ![t] = "none"]
    /\ UNCHANGED <<values, available, senders, receivers, sendQueue, unborn, toWake>>

\* The future is dropped: a notification it did not use is handed on while a
\* value still waits.
RecvDrop(t) ==
    /\ Receiving(t)
    /\ op' = [op EXCEPT ![t] = "none"]
    /\ woken' = woken \ {t}
    /\ IF senders # {} /\ waiter[t] = "signalled" /\ values > 0
       THEN /\ recvQueue' = RestOf(recvQueue)
            /\ toWake' = [toWake EXCEPT ![t] = FirstOf(recvQueue)]
            /\ waiter' = [Signalled(FirstOf(recvQueue)) EXCEPT ![t] = "none"]
       ELSE /\ recvQueue' = IF senders # {} THEN Unlink(recvQueue, t) ELSE recvQueue
            /\ waiter' = [waiter EXCEPT ![t] = "none"]
            /\ UNCHANGED toWake
    /\ UNCHANGED <<values, available, senders, receivers, sendQueue, unborn>>

-----------------------------------------------------------------------------
(* Endpoints and wakers.                                                   *)

CloneSender(t, u) ==
    /\ t \in senders
    /\ u \in unborn \cap Senders
    /\ senders' = senders \cup {u}
    /\ unborn' = unborn \ {u}
    /\ UNCHANGED <<values, available, receivers, recvQueue, sendQueue, op, waiter, toWake, woken>>

CloneReceiver(t, u) ==
    /\ t \in receivers
    /\ u \in unborn \cap Receivers
    /\ receivers' = receivers \cup {u}
    /\ unborn' = unborn \ {u}
    /\ UNCHANGED <<values, available, senders, recvQueue, sendQueue, op, waiter, toWake, woken>>

OrphanedWaiting(list) ==
    [w \in Tasks |-> IF w \in list /\ waiter[w] = "waiting" THEN "stale" ELSE waiter[w]]

\* The ids of the futures pending in a list that is moved out.
Orphaned(list) ==
    [w \in Tasks |-> IF w \in list /\ waiter[w] # "none" THEN "stale" ELSE waiter[w]]

\* drop_sender: the last one takes the receivers' list along and wakes all.
DropSender(t) ==
    /\ t \in senders /\ Idle(t)
    /\ senders' = senders \ {t}
    /\ IF senders = {t}
       THEN /\ recvQueue' = <<>>
            /\ waiter' = Orphaned(Receivers)
            /\ toWake' = [toWake EXCEPT ![t] = ToSet(recvQueue)]
       ELSE UNCHANGED <<recvQueue, waiter, toWake>>
    /\ UNCHANGED <<values, available, receivers, sendQueue, unborn, op, woken>>

\* drop_receiver: the last one also discards the values.
DropReceiver(t) ==
    /\ t \in receivers /\ Idle(t)
    /\ receivers' = receivers \ {t}
    /\ IF receivers = {t}
       THEN /\ values' = 0
            /\ sendQueue' = <<>>
            /\ waiter' = Orphaned(Senders)
            /\ toWake' = [toWake EXCEPT ![t] = ToSet(sendQueue)]
       ELSE UNCHANGED <<values, sendQueue, waiter, toWake>>
    /\ UNCHANGED <<available, senders, recvQueue, unborn, op, woken>>

Wake(t) ==
    /\ \E u \in toWake[t] :
          /\ toWake' = [toWake EXCEPT ![t] = @ \ {u}]
          /\ woken' = IF op[u] = "none" THEN woken ELSE woken \cup {u}
    /\ UNCHANGED <<state, unborn, op, waiter>>

ReservePoll(t) ==
    ReserveDisconnected(t) \/ ReserveGranted(t) \/ ReserveFirst(t) \/ ReserveWait(t)

RecvPoll(t) == RecvValue(t) \/ RecvDisconnected(t) \/ RecvWait(t)

Step ==
    \/ \E t \in Senders :
          \/ TrySend(t) \/ UnboundedSend(t) \/ Send(t) \/ Reserve(t) \/ TryReserve(t)
          \/ ReservePoll(t) \/ ReserveDrop(t) \/ PermitSend(t) \/ PermitDrop(t)
          \/ DropSender(t) \/ \E u \in Senders : CloneSender(t, u)
    \/ \E t \in Receivers :
          \/ TryRecv(t) \/ Recv(t) \/ RecvPoll(t) \/ RecvDrop(t)
          \/ DropReceiver(t) \/ \E u \in Receivers : CloneReceiver(t, u)
    \/ \E t \in Tasks : Wake(t)

Next == Step /\ UNCHANGED capacity

Spec == Init /\ [][Next]_vars

-----------------------------------------------------------------------------
(* Properties.                                                             *)

Permits == {t \in Tasks : op[t] \in {"permit", "sendPermit"}}

InState(tasks, w) == {t \in tasks : waiter[t] = w}

\* Each slot of a bounded queue belongs to exactly one of: the free capacity, a
\* queued value, a permit, or a reservation that was granted and not polled yet
\* (the comment on State::available).  Nothing leaks a slot or makes one up.  Values
\* the last receiver did not take are discarded with it, and none is queued
\* afterwards, not even by a permit reserved before.
SlotAccounting ==
    /\ Bounded /\ receivers # {} =>
          available + values + Cardinality(Permits) + Cardinality(InState(Senders, "signalled"))
             = capacity
    /\ receivers = {} => values = 0

\* No slot is free while a reservation waits: newcomers cannot overtake the
\* queue, and a waiting sender is never left behind by a release.
NoBarging == receivers # {} /\ available > 0 => sendQueue = <<>>

\* While a receiver waits unnotified, every queued value has a notified receiver
\* on its way to it: a notification is never used up without its value.
NoStrandedValue ==
    recvQueue # <<>> => values <= Cardinality(InState(Receivers, "signalled"))

\* A pending future's id refers to a node of the current list, unless the other
\* side disconnected for good and the list was moved out; poll and drop test for
\* that before they use the id (waiter_mut panics on an id of another list).
IdsAreValid ==
    /\ TypeOK
    /\ \A t \in Senders : waiter[t] # "none" => (waiter[t] = "stale") = (receivers = {})
    /\ \A t \in Receivers : waiter[t] # "none" => (waiter[t] = "stale") = (senders = {})
    /\ ToSet(sendQueue) = InState(Senders, "waiting")
    /\ ToSet(recvQueue) = InState(Receivers, "waiting")
    /\ Len(sendQueue) = Cardinality(ToSet(sendQueue))
    /\ Len(recvQueue) = Cardinality(ToSet(recvQueue))

\* The queue's books are right: slots are conserved and every waiter id can be used.
QueueIsSound == SlotAccounting /\ IdsAreValid

\* Nobody waits beside what is waited for: a slot is never free while a sender is
\* queued, and queued values always have receivers on their way.
NobodyIsPassed == NoBarging /\ NoStrandedValue
=============================================================================
