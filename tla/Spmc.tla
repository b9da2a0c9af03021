-------------------------------- MODULE Spmc --------------------------------
(***************************************************************************)
(* asyncband/src/spmc/queue.rs and its bounded and unbounded endpoints:    *)
(* one sender, receivers that compete.  A notification is not a transfer:  *)
(* the woken future tries again and may queue anew, and a receiver that is *)
(* dropped hands its notification on while a value is left.                *)
(***************************************************************************)
EXTENDS Channel

CONSTANTS
    Capacities,   \* the arguments of bounded
    Unbounded     \* the capacity of an unbounded queue, None in the source

Init ==
    /\ ChannelInit
    /\ \E c \in Capacities \cup {Unbounded} :
          chan = [capacity |-> c, values |-> <<>>, senderAlive |-> TRUE, receivers |-> 1,
                  recvWaiters |-> NewNodes, sendWaiters |-> NewNodes]

HasCapacity == IF chan.capacity = Unbounded THEN TRUE ELSE Len(chan.values) < chan.capacity

\* register: a future that was notified queues again, at the back.
Register(list, t) ==
    IF t \in waiter /\ list.node[t] = "linked" THEN list
    ELSE PushWaiter(IF t \in waiter THEN RemoveWaiter(list, t) ELSE list, t)

Forget(list, t) == IF t \in waiter THEN RemoveWaiter(list, t) ELSE list

\* State::push of t's value: one receiver is notified.  t's own waiter is removed.
Push(t) ==
    /\ Accept
    /\ chan' = [chan EXCEPT !.values = Append(@, sent + 1), !.recvWaiters = NotifyFirst(@),
                            !.sendWaiters = Forget(@, t)]
    /\ Calls(t, {First(chan.recvWaiters)})

\* State::pop by t: the sender is notified.  `list` is what is left of the waiters.
Pop(t, list) ==
    /\ chan.values # <<>>
    /\ chan' = [chan EXCEPT !.values = Tail(@), !.sendWaiters = NotifyFirst(@), !.recvWaiters = list]
    /\ received' = received + 1
    /\ Calls(t, {First(chan.sendWaiters)})

CloneReceiver(t, u) ==
    /\ Free(t) /\ t \in Many /\ u \in Many \ handles
    /\ handles' = handles \cup {u}
    /\ chan' = [chan EXCEPT !.receivers = @ + 1]
    /\ UNCHANGED <<sent, received, permits, future, pc, waiter, toWake, woken>>

\* drop_receiver: the last one empties the queue and wakes the sender.
DropReceiver(t) ==
    /\ Free(t) /\ t \in Many
    /\ handles' = handles \ {t}
    /\ IF chan.receivers = 1
       THEN /\ chan' = [chan EXCEPT !.receivers = 0, !.values = <<>>, !.sendWaiters = NewNodes]
            /\ Calls(t, ToSet(chan.sendWaiters.order))
       ELSE chan' = [chan EXCEPT !.receivers = @ - 1] /\ UNCHANGED toWake
    /\ UNCHANGED <<sent, received, permits, future, pc, waiter, woken>>

\* drop_sender: every waiter id of a receiver becomes invalid.
DropSender(t) ==
    /\ Free(t) /\ t = One
    /\ handles' = handles \ {t}
    /\ chan' = [chan EXCEPT !.senderAlive = FALSE, !.recvWaiters = NewNodes]
    /\ Calls(t, ToSet(chan.recvWaiters.order))
    /\ UNCHANGED <<sent, received, permits, future, pc, waiter, woken>>

\* try_send, and send where it is accepted at once; other outcomes change nothing.
TrySend(t) ==
    /\ Free(t) /\ t = One
    /\ chan.receivers # 0 /\ HasCapacity
    /\ Push(t)
    /\ UNCHANGED <<received, taskVars, woken>>

\* The sender of an unbounded queue never waits and is never refused for lack of room.
UnboundedSend(t) == chan.capacity = Unbounded /\ TrySend(t)

BoundedTrySend(t) == chan.capacity # Unbounded /\ TrySend(t)

Send(t) ==
    /\ Free(t) /\ t = One
    /\ chan.receivers # 0 /\ ~HasCapacity
    /\ sent < MaxValues
    /\ Goto(t, "polling", "send")
    /\ UNCHANGED <<chan, sent, received, handles, permits, waiter, toWake, woken>>

\* Send::poll.
PollSend(t) ==
    /\ InPoll(t) /\ future[t] = "send"
    /\ Polled(t)
    /\ \/ /\ chan.receivers = 0
          /\ Return(t) /\ waiter' = waiter \ {t}
          /\ UNCHANGED <<chan, sent, toWake>>
       \/ /\ chan.receivers # 0 /\ HasCapacity
          /\ Push(t)
          /\ Return(t) /\ waiter' = waiter \ {t}
       \/ /\ chan.receivers # 0 /\ ~HasCapacity
          /\ chan' = [chan EXCEPT !.sendWaiters = Register(@, t)]
          /\ Goto(t, "pending", "send") /\ waiter' = waiter \cup {t}
          /\ UNCHANGED <<sent, toWake>>
    /\ UNCHANGED <<received, handles, permits>>

\* Send::drop: there is no other sender that the notification could be handed to.
DropSend(t) ==
    /\ pc[t] = "pending" /\ future[t] = "send"
    /\ Return(t)
    /\ waiter' = waiter \ {t}
    /\ woken' = woken \ {t}
    /\ chan' = IF chan.receivers = 0 THEN chan ELSE [chan EXCEPT !.sendWaiters = Forget(@, t)]
    /\ UNCHANGED <<sent, received, handles, permits, toWake>>

TryRecv(t) ==
    /\ Free(t) /\ t \in Many
    /\ Pop(t, chan.recvWaiters)
    /\ UNCHANGED <<sent, taskVars, woken>>

\* recv, where try_recv found nothing.
Recv(t) ==
    /\ Free(t) /\ t \in Many
    /\ chan.values = <<>> /\ chan.senderAlive
    /\ Goto(t, "polling", "recv")
    /\ UNCHANGED <<chan, sent, received, handles, permits, waiter, toWake, woken>>

\* Recv::poll.
PollRecv(t) ==
    /\ InPoll(t) /\ future[t] = "recv"
    /\ Polled(t)
    /\ \/ /\ Pop(t, IF chan.senderAlive THEN Forget(chan.recvWaiters, t) ELSE chan.recvWaiters)
          /\ Return(t) /\ waiter' = waiter \ {t}
       \/ /\ chan.values = <<>> /\ ~chan.senderAlive
          /\ Return(t) /\ waiter' = waiter \ {t}
          /\ UNCHANGED <<chan, received, toWake>>
       \/ /\ chan.values = <<>> /\ chan.senderAlive
          /\ chan' = [chan EXCEPT !.recvWaiters = Register(@, t)]
          /\ Goto(t, "pending", "recv") /\ waiter' = waiter \cup {t}
          /\ UNCHANGED <<received, toWake>>
    /\ UNCHANGED <<sent, handles, permits>>

DropRecvKeepsNotice(t) ==
    /\ pc[t] = "pending" /\ future[t] = "recv"
    /\ Return(t)
    /\ waiter' = waiter \ {t}
    /\ woken' = woken \ {t}
    /\ chan' = IF chan.senderAlive THEN [chan EXCEPT !.recvWaiters = Forget(@, t)] ELSE chan
    /\ UNCHANGED <<sent, received, handles, permits, toWake>>

\* Recv::drop: a notification that was not used goes to the next receiver.
DropRecv(t) ==
    /\ pc[t] = "pending" /\ future[t] = "recv"
    /\ Return(t)
    /\ waiter' = waiter \ {t}
    /\ woken' = woken \ {t}
    /\ LET list == Forget(chan.recvWaiters, t)
           handOn == chan.recvWaiters.node[t] = "notified" /\ chan.values # <<>>
       IN IF ~chan.senderAlive THEN UNCHANGED <<chan, toWake>>
          ELSE IF handOn
          THEN chan' = [chan EXCEPT !.recvWaiters = NotifyFirst(list)] /\ Calls(t, {First(list)})
          ELSE chan' = [chan EXCEPT !.recvWaiters = list] /\ UNCHANGED toWake
    /\ UNCHANGED <<sent, received, handles, permits>>

Poll(t) == PollSend(t) \/ PollRecv(t)

Step(t) ==
    \/ DropReceiver(t) \/ DropSender(t) \/ BoundedTrySend(t) \/ UnboundedSend(t) \/ Send(t) \/ DropSend(t)
    \/ TryRecv(t) \/ Recv(t) \/ DropRecv(t) \/ Poll(t)
    \/ \E u \in Many : CloneReceiver(t, u)

-----------------------------------------------------------------------------

Values == chan.values

\* While a receiver waits unnotified, every value has a notified receiver that will
\* come for it or hand its notification on; the sender waits only on a full queue.
NoStrandedValue ==
    /\ chan.receivers = Cardinality(handles \cap Many)
    /\ chan.capacity # Unbounded => Len(chan.values) <= chan.capacity
    /\ chan.recvWaiters.order # <<>> => Len(chan.values) <= Cardinality(Notified(chan.recvWaiters))
    /\ chan.sendWaiters.order # <<>> => ~HasCapacity
    /\ chan.senderAlive => IdsMatch(chan.recvWaiters, Many)
    /\ chan.receivers # 0 => IdsMatch(chan.sendWaiters, {One})

Ready(t) ==
    \/ future[t] = "recv" /\ (chan.values # <<>> \/ ~chan.senderAlive)
    \/ future[t] = "send" /\ (HasCapacity \/ chan.receivers = 0)
=============================================================================
