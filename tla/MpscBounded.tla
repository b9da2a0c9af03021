---------------------------- MODULE MpscBounded ----------------------------
(***************************************************************************)
(* asyncband/src/mpsc/bounded: senders wait for capacity in a FIFO list    *)
(* and are granted it; the receiver waits with a single waker.  A granted  *)
(* node owns capacity until its future claims or cancels it.               *)
(***************************************************************************)
EXTENDS Channel

CONSTANT Capacities   \* the arguments of bounded

Init ==
    /\ ChannelInit
    /\ \E c \in Capacities :
          chan = [buffer |-> c, queue |-> <<>>, available |-> c, senders |-> 1, receiver |-> TRUE,
                  recvWaker |-> Nobody, waiters |-> NewNodes]

\* State::release: the first waiter gets the capacity, or it becomes available.
Release(c) ==
    IF ~c.receiver THEN c
    ELSE IF c.waiters.order # <<>> THEN [c EXCEPT !.waiters = NotifyFirst(@)]
    ELSE [c EXCEPT !.available = @ + 1]

\* The waker that release returns.
Granted(c) == IF c.receiver THEN First(c.waiters) ELSE Nobody

CloneSender(t, u) ==
    /\ Free(t) /\ t \in Many /\ u \in Many \ handles
    /\ handles' = handles \cup {u}
    /\ chan' = [chan EXCEPT !.senders = @ + 1]
    /\ UNCHANGED <<sent, received, permits, future, pc, waiter, toWake, woken>>

\* Permits borrow the sender: none is left when it is dropped.
DropSender(t) ==
    /\ Free(t) /\ t \in Many /\ permits[t] = 0
    /\ handles' = handles \ {t}
    /\ IF chan.senders = 1
       THEN chan' = [chan EXCEPT !.senders = 0, !.recvWaker = Nobody] /\ Calls(t, {chan.recvWaker})
       ELSE chan' = [chan EXCEPT !.senders = @ - 1] /\ UNCHANGED toWake
    /\ UNCHANGED <<sent, received, permits, future, pc, waiter, woken>>

\* The receiver takes a value: the capacity it held is released.
Pop(t) ==
    /\ chan.queue # <<>>
    /\ chan' = Release([chan EXCEPT !.queue = Tail(@)])
    /\ received' = received + 1
    /\ Calls(t, {Granted(chan)})

\* A value enters the queue with capacity that is `taken`; the receiver is woken.
Push(t, taken) ==
    /\ Accept
    /\ chan' = [chan EXCEPT !.queue = Append(@, sent + 1), !.available = @ - taken,
                            !.recvWaker = Nobody]
    /\ Calls(t, {chan.recvWaker})

\* try_send, and send where it is accepted at once; other outcomes change nothing.
TrySend(t) ==
    /\ Free(t) /\ t \in Many
    /\ chan.receiver /\ chan.available # 0
    /\ Push(t, 1)
    /\ UNCHANGED <<received, taskVars, woken>>

\* send goes on to reserve when the queue was full.
Send(t) ==
    /\ Free(t) /\ t \in Many
    /\ chan.receiver /\ chan.available = 0
    /\ Goto(t, "polling", "send")
    /\ UNCHANGED <<chan, sent, received, handles, permits, waiter, toWake, woken>>

Reserve(t) ==
    /\ Free(t) /\ t \in Many /\ permits[t] < MaxPermits
    /\ Goto(t, "polling", "reserve")
    /\ UNCHANGED <<chan, sent, received, handles, permits, waiter, toWake, woken>>

TryReserve(t) ==
    /\ Free(t) /\ t \in Many /\ permits[t] < MaxPermits
    /\ chan.receiver /\ chan.available # 0
    /\ chan' = [chan EXCEPT !.available = @ - 1]
    /\ permits' = [permits EXCEPT ![t] = @ + 1]
    /\ UNCHANGED <<sent, received, handles, future, pc, waiter, toWake, woken>>

\* reserve returns the Permit to its caller; send uses it at once.
Obtain(t) ==
    /\ IF future[t] = "send" THEN Goto(t, "sending", "send") ELSE Return(t)
    /\ permits' = [permits EXCEPT ![t] = @ + 1]
    /\ waiter' = waiter \ {t}

\* Reserve::poll.
PollReserve(t) ==
    /\ InPoll(t) /\ future[t] \in {"send", "reserve"}
    /\ Polled(t)
    /\ \/ /\ ~chan.receiver
          /\ Return(t) /\ waiter' = waiter \ {t}
          /\ UNCHANGED <<chan, permits>>
       \/ /\ chan.receiver /\ t \in waiter /\ chan.waiters.node[t] = "notified"
          /\ chan' = [chan EXCEPT !.waiters = RemoveWaiter(@, t)]
          /\ Obtain(t)
       \/ /\ chan.receiver /\ t \in waiter /\ chan.waiters.node[t] # "notified"
          /\ Goto(t, "pending", future[t])
          /\ UNCHANGED <<chan, permits, waiter>>
       \/ /\ chan.receiver /\ t \notin waiter /\ chan.available # 0
          /\ chan' = [chan EXCEPT !.available = @ - 1]
          /\ Obtain(t)
       \/ /\ chan.receiver /\ t \notin waiter /\ chan.available = 0
          /\ chan' = [chan EXCEPT !.waiters = PushWaiter(@, t)]
          /\ waiter' = waiter \cup {t}
          /\ Goto(t, "pending", future[t])
          /\ UNCHANGED permits
    /\ UNCHANGED <<sent, received, handles, toWake>>

ForgetGrant(t) ==
    /\ pc[t] = "pending" /\ future[t] \in {"send", "reserve"}
    /\ Return(t)
    /\ waiter' = waiter \ {t}
    /\ woken' = woken \ {t}
    /\ chan' = IF chan.receiver THEN [chan EXCEPT !.waiters = RemoveWaiter(@, t)] ELSE chan
    /\ UNCHANGED <<sent, received, handles, permits, toWake>>

\* Reserve::drop: capacity that was granted and not claimed is released.
DropReserve(t) ==
    /\ pc[t] = "pending" /\ future[t] \in {"send", "reserve"}
    /\ Return(t)
    /\ waiter' = waiter \ {t}
    /\ woken' = woken \ {t}
    /\ LET c == [chan EXCEPT !.waiters = RemoveWaiter(@, t)] IN
       IF ~chan.receiver THEN UNCHANGED <<chan, toWake>>
       ELSE IF chan.waiters.node[t] = "notified"
       THEN chan' = Release(c) /\ Calls(t, {Granted(c)})
       ELSE chan' = c /\ UNCHANGED toWake
    /\ UNCHANGED <<sent, received, handles, permits>>

\* Permit::send, by its owner or inside send; on a closed channel the permit is
\* dropped, which then releases nothing.
PermitSend(t) ==
    /\ t \in Many /\ permits[t] # 0 /\ toWake[t] = {}
    /\ pc[t] \in {"idle", "sending"}
    /\ Return(t)
    /\ permits' = [permits EXCEPT ![t] = @ - 1]
    /\ IF chan.receiver THEN Push(t, 0) ELSE UNCHANGED <<chan, sent, toWake>>
    /\ UNCHANGED <<received, handles, waiter, woken>>

DropPermit(t) ==
    /\ Free(t) /\ permits[t] # 0
    /\ permits' = [permits EXCEPT ![t] = @ - 1]
    /\ chan' = Release(chan)
    /\ Calls(t, {Granted(chan)})
    /\ UNCHANGED <<sent, received, handles, future, pc, waiter, woken>>

-----------------------------------------------------------------------------

TryRecv(t) ==
    /\ Free(t) /\ t = One
    /\ Pop(t)
    /\ UNCHANGED <<sent, taskVars, woken>>

Recv(t) ==
    /\ Free(t) /\ t = One
    /\ Goto(t, "polling", "recv")
    /\ UNCHANGED <<chan, sent, received, handles, permits, waiter, toWake, woken>>

PollRecv(t) ==
    /\ InPoll(t) /\ future[t] = "recv"
    /\ Polled(t)
    /\ \/ Pop(t) /\ Return(t)
       \/ /\ chan.queue = <<>> /\ chan.senders = 0
          /\ chan' = [chan EXCEPT !.recvWaker = Nobody]
          /\ Return(t)
          /\ UNCHANGED <<received, toWake>>
       \/ /\ chan.queue = <<>> /\ chan.senders # 0
          /\ chan' = [chan EXCEPT !.recvWaker = t]
          /\ Goto(t, "pending", "recv")
          /\ UNCHANGED <<received, toWake>>
    /\ UNCHANGED <<sent, handles, permits, waiter>>

\* The future of recv is dropped: its waker stays registered.
DropRecv(t) ==
    /\ pc[t] = "pending" /\ future[t] = "recv"
    /\ Return(t)
    /\ woken' = woken \ {t}
    /\ UNCHANGED <<chan, sent, received, handles, permits, waiter, toWake>>

\* The senders that wait are woken; those that were granted have been.
DropReceiver(t) ==
    /\ Free(t) /\ t = One
    /\ handles' = handles \ {t}
    /\ chan' = [chan EXCEPT !.receiver = FALSE, !.queue = <<>>, !.recvWaker = Nobody,
                            !.waiters = NewNodes]
    /\ Calls(t, ToSet(chan.waiters.order))
    /\ UNCHANGED <<sent, received, permits, future, pc, waiter, woken>>

Poll(t) == PollReserve(t) \/ PollRecv(t)

Step(t) ==
    \/ DropSender(t) \/ TrySend(t) \/ Send(t) \/ Reserve(t) \/ TryReserve(t) \/ Poll(t)
    \/ DropReserve(t) \/ PermitSend(t) \/ DropPermit(t)
    \/ TryRecv(t) \/ Recv(t) \/ DropRecv(t) \/ DropReceiver(t)
    \/ \E u \in Many : CloneSender(t, u)

-----------------------------------------------------------------------------

Values == chan.queue

\* While open, capacity belongs to available, a queued message, a Permit, or a
\* granted waiter (the comment on State); nobody waits while some is available.
CapacityIsOwned ==
    /\ chan.senders = Cardinality(handles \cap Many)
    /\ chan.receiver =>
          /\ chan.available + Len(chan.queue) + Cardinality(Notified(chan.waiters))
             + FoldFunction(+, 0, permits) = chan.buffer
          /\ chan.waiters.order # <<>> => chan.available = 0
          /\ IdsMatch(chan.waiters, Many)

\* A poll of t's future would complete it.
Ready(t) ==
    \/ /\ future[t] = "recv"
       /\ chan.queue # <<>> \/ chan.senders = 0
    \/ /\ future[t] \in {"send", "reserve"} /\ pc[t] = "pending"
       /\ ~chan.receiver \/ chan.waiters.node[t] = "notified"
=============================================================================
