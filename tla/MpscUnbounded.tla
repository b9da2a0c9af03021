--------------------------- MODULE MpscUnbounded ---------------------------
(***************************************************************************)
(* asyncband/src/mpsc/unbounded: senders append to a writable segment that *)
(* is sealed when it is full; the receiver takes a whole segment as its    *)
(* batch, which no lock protects, and goes back to the lock when the batch *)
(* is empty.                                                               *)
(***************************************************************************)
EXTENDS Channel

CONSTANT SegmentCapacity   \* Buffer::SEGMENT_CAPACITY, which depends on the size of values

Init ==
    /\ ChannelInit
    /\ chan = [writable |-> <<>>, sealed |-> <<>>, batch |-> <<>>, senders |-> 1, receiver |-> TRUE,
               recvWaker |-> Nobody]

\* Buffer::push.
Push(c, value) ==
    IF Len(c.writable) = SegmentCapacity
    THEN [c EXCEPT !.sealed = Append(@, c.writable), !.writable = <<value>>]
    ELSE [c EXCEPT !.writable = Append(@, value)]

RefillWritableFirst(c) ==
    IF c.writable # <<>> THEN [c EXCEPT !.batch = c.writable, !.writable = c.batch]
    ELSE IF c.sealed # <<>> THEN [c EXCEPT !.batch = Head(c.sealed), !.sealed = Tail(@)]
    ELSE c

\* Buffer::refill: the oldest sealed segment, or else the writable one, swapped with
\* the empty batch.
Refill(c) ==
    IF c.sealed # <<>> THEN [c EXCEPT !.batch = Head(c.sealed), !.sealed = Tail(@)]
    ELSE IF c.writable # <<>> THEN [c EXCEPT !.batch = c.writable, !.writable = c.batch]
    ELSE c

\* The batch that is popped from: refilled under the lock if it is empty.
Filled(c) == IF c.batch = <<>> THEN Refill(c) ELSE c

CloneSender(t, u) ==
    /\ Free(t) /\ t \in Many /\ u \in Many \ handles
    /\ handles' = handles \cup {u}
    /\ chan' = [chan EXCEPT !.senders = @ + 1]
    /\ UNCHANGED <<sent, received, permits, future, pc, waiter, toWake, woken>>

DropSender(t) ==
    /\ Free(t) /\ t \in Many
    /\ handles' = handles \ {t}
    /\ IF chan.senders = 1
       THEN chan' = [chan EXCEPT !.senders = 0, !.recvWaker = Nobody] /\ Calls(t, {chan.recvWaker})
       ELSE chan' = [chan EXCEPT !.senders = @ - 1] /\ UNCHANGED toWake
    /\ UNCHANGED <<sent, received, permits, future, pc, waiter, woken>>

Send(t) ==
    /\ Free(t) /\ t \in Many
    /\ chan.receiver
    /\ Accept
    /\ chan' = [Push(chan, sent + 1) EXCEPT !.recvWaker = Nobody]
    /\ Calls(t, {chan.recvWaker})
    /\ UNCHANGED <<received, taskVars, woken>>

\* pop_batch.
PopBatch ==
    /\ Filled(chan).batch # <<>>
    /\ chan' = [Filled(chan) EXCEPT !.batch = Tail(@)]
    /\ received' = received + 1

TryRecv(t) ==
    /\ Free(t) /\ t = One
    /\ PopBatch
    /\ UNCHANGED <<sent, taskVars, toWake, woken>>

Recv(t) ==
    /\ Free(t) /\ t = One
    /\ Goto(t, "polling", "recv")
    /\ UNCHANGED <<chan, sent, received, handles, permits, waiter, toWake, woken>>

Poll(t) ==
    /\ InPoll(t)
    /\ Polled(t)
    /\ \/ PopBatch /\ Return(t)
       \/ /\ Filled(chan).batch = <<>> /\ chan.senders = 0
          /\ chan' = [chan EXCEPT !.recvWaker = Nobody]
          /\ Return(t)
          /\ UNCHANGED received
       \/ /\ Filled(chan).batch = <<>> /\ chan.senders # 0
          /\ chan' = [chan EXCEPT !.recvWaker = t]
          /\ Goto(t, "pending", "recv")
          /\ UNCHANGED received
    /\ UNCHANGED <<sent, handles, permits, waiter, toWake>>

\* The future of recv is dropped: its waker stays registered.
DropRecv(t) ==
    /\ pc[t] = "pending"
    /\ Return(t)
    /\ woken' = woken \ {t}
    /\ UNCHANGED <<chan, sent, received, handles, permits, waiter, toWake>>

DropReceiver(t) ==
    /\ Free(t) /\ t = One
    /\ handles' = handles \ {t}
    /\ chan' = [chan EXCEPT !.receiver = FALSE, !.writable = <<>>, !.sealed = <<>>, !.batch = <<>>,
                            !.recvWaker = Nobody]
    /\ UNCHANGED <<sent, received, permits, future, pc, waiter, toWake, woken>>

Step(t) ==
    \/ DropSender(t) \/ Send(t) \/ TryRecv(t) \/ Recv(t) \/ Poll(t) \/ DropRecv(t) \/ DropReceiver(t)
    \/ \E u \in Many : CloneSender(t, u)

-----------------------------------------------------------------------------

\* Oldest first: the batch, the sealed segments, the writable one.
Values == chan.batch \o FlattenSeq(chan.sealed) \o chan.writable

\* Sealed segments are never empty (the comment in is_empty) and a segment does not
\* outgrow its capacity; the receiver's waker is left only where nothing was sent since.
SegmentsAreFull ==
    /\ chan.senders = Cardinality(handles \cap Many)
    /\ \A i \in DOMAIN chan.sealed : Len(chan.sealed[i]) = SegmentCapacity
    /\ Len(chan.writable) <= SegmentCapacity /\ Len(chan.batch) <= SegmentCapacity
    /\ chan.sealed # <<>> => chan.writable # <<>>
    /\ chan.recvWaker # Nobody => Values = <<>> /\ chan.senders # 0

Ready(t) == future[t] = "recv" /\ (Values # <<>> \/ chan.senders = 0)
=============================================================================
