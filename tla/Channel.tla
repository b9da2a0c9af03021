------------------------------ MODULE Channel ------------------------------
(***************************************************************************)
(* What the mpsc and spmc queues share.  `chan` is what the lock of a      *)
(* channel protects; every step is one critical section, or the call of    *)
(* one waker after it.  One task has the endpoint that cannot be cloned,   *)
(* the others have the one that can.                                       *)
(*                                                                         *)
(* The values are numbered as they are accepted, so that their order tells *)
(* whether one was lost, duplicated or overtaken.                          *)
(***************************************************************************)
EXTENDS WaiterSeq, FiniteSets

CONSTANTS
    One,         \* the task with the single endpoint
    Many,        \* the tasks that share the other one
    Nobody,      \* no waker
    MaxValues,   \* bound on the values sent
    MaxPermits   \* bound on the Permits a task reserves

Tasks == {One} \cup Many

VARIABLES
    chan,        \* what the lock protects
    sent,        \* values accepted so far
    received,    \* values received so far
    handles,     \* tasks with an endpoint
    permits,     \* Permits of the bounded mpsc each task owns
    future,      \* the future of each task: "none", "send", "reserve" or "recv"
    pc,          \* "idle", "pending" between polls, "polling" or "sending" in one
    waiter,      \* tasks whose future has a waiter id
    toWake,      \* the wakers each task is about to call
    woken        \* tasks whose future is to be polled

taskVars == <<handles, permits, future, pc, waiter>>
vars == <<chan, sent, received, taskVars, toWake, woken>>

ChannelTypeOK ==
    /\ sent \in 0..MaxValues /\ received \in 0..sent
    /\ handles \subseteq Tasks
    /\ permits \in [Tasks -> Nat]
    /\ future \in [Tasks -> {"none", "send", "reserve", "recv"}]
    /\ pc \in [Tasks -> {"idle", "pending", "polling", "sending"}]
    /\ \A t \in Tasks : pc[t] = "idle" <=> future[t] = "none"
    /\ waiter \subseteq Tasks
    /\ toWake \in [Tasks -> SUBSET Tasks]
    /\ woken \subseteq Tasks

\* A new channel: one endpoint each, on any of the tasks.
ChannelInit ==
    /\ sent = 0 /\ received = 0
    /\ \E t \in Many : handles = {One, t}
    /\ permits = [t \in Tasks |-> 0]
    /\ future = [t \in Tasks |-> "none"]
    /\ pc = [t \in Tasks |-> "idle"]
    /\ waiter = {}
    /\ toWake = [t \in Tasks |-> {}]
    /\ woken = {}

\* t is not in a call and has called the wakers of the last one.
Free(t) == t \in handles /\ pc[t] = "idle" /\ toWake[t] = {}

InPoll(t) == pc[t] \in {"pending", "polling"} /\ toWake[t] = {}

Goto(t, p, f) ==
    /\ pc' = [pc EXCEPT ![t] = p]
    /\ future' = [future EXCEPT ![t] = f]

Return(t) == Goto(t, "idle", "none")

\* Which wakers t calls once it has released the lock.
Calls(t, tasks) == toWake' = [toWake EXCEPT ![t] = tasks \ {Nobody}]

\* t polls, and will poll again when it is woken.
Polled(t) == woken' = woken \ {t}

Accept == sent < MaxValues /\ sent' = sent + 1

Wake(t) ==
    /\ \E u \in toWake[t] :
          /\ toWake' = [toWake EXCEPT ![t] = @ \ {u}]
          /\ woken' = IF pc[u] = "pending" THEN woken \cup {u} ELSE woken
    /\ UNCHANGED <<chan, sent, received, taskVars>>

-----------------------------------------------------------------------------
(* A wait list with nodes: the linked ones in order, and what each holds.  *)

NewNodes == [order |-> <<>>, node |-> [t \in Tasks |-> "none"]]

PushWaiter(list, t) == [order |-> Append(list.order, t), node |-> [list.node EXCEPT ![t] = "linked"]]

\* The first linked node is detached and told; its waker is to be called.
NotifyFirst(list) ==
    IF list.order = <<>> THEN list
    ELSE [order |-> Tail(list.order), node |-> [list.node EXCEPT ![Head(list.order)] = "notified"]]

First(list) == IF list.order = <<>> THEN Nobody ELSE Head(list.order)

RemoveWaiter(list, t) ==
    [order |-> Unlink(list.order, t), node |-> [list.node EXCEPT ![t] = "none"]]

Notified(list) == {t \in Tasks : list.node[t] = "notified"}

-----------------------------------------------------------------------------

\* The values between the endpoints are those accepted and not received, in order.
HoldsInOrder(values) == values = [i \in 1..(sent - received) |-> received + i]

\* The ids of futures are those of nodes of the list, and no node is left behind.
IdsMatch(list, users) == {t \in Tasks : list.node[t] # "none"} = waiter \cap users
=============================================================================
