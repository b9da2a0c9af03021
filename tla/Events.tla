------------------------------- MODULE Events -------------------------------
(***************************************************************************)
(* The events of asyncband/src/event: AutoResetEvent, whose signal         *)
(* releases one wait, and ManualResetEvent, which releases every wait      *)
(* while it is set.  Their waiters are nodes of a WaitList under the       *)
(* event's lock; a critical section is one step, wakers are called after   *)
(* it.  A third kind of owner uses the list in every possible way.         *)
(***************************************************************************)
EXTENDS WaitList

CONSTANTS
    Tasks,      \* tasks, each with at most one wait future
    Notified,   \* the value of a selected waiter; a waiting one's is its waker
    MaxSlots    \* bound on the slots of a freely used list

ASSUME EventsAssumption == Notified \notin Tasks /\ MaxSlots \in Nat

VARIABLES
    kind,       \* "auto", "manual" or "list"
    list,       \* the wait list
    isSet,      \* the stored signal, or the state of a manual event
    node,       \* the waiter id of each wait future, or None
    pc,         \* "idle", "pending" with a future, "locking" in its poll, "done"
    toWake,     \* the wakers each task is about to call
    woken       \* tasks whose future is to be polled

vars == <<kind, list, isSet, node, pc, toWake, woken>>

TypeOK ==
    /\ kind \in {"auto", "manual", "list"}
    /\ isSet \in BOOLEAN
    /\ node \in [Tasks -> Nat]
    /\ pc \in [Tasks -> {"idle", "pending", "locking", "done"}]
    /\ toWake \in [Tasks -> SUBSET Tasks]
    /\ woken \subseteq Tasks

\* with_state: an event may be created set.
Init ==
    /\ kind \in {"auto", "manual", "list"}
    /\ list = NewList
    /\ isSet \in BOOLEAN
    /\ kind = "list" => ~isSet
    /\ node = [t \in Tasks |-> None]
    /\ pc = [t \in Tasks |-> "idle"]
    /\ toWake = [t \in Tasks |-> {}]
    /\ woken = {}

Goto(t, p) == pc' = [pc EXCEPT ![t] = p]

\* t is not in a call, and has called the wakers of the last one.
Free(t) == pc[t] \in {"idle", "done"} /\ toWake[t] = {}

IsNotified(t) == node[t] # None /\ Value(list, node[t]) = Notified

-----------------------------------------------------------------------------
(* AutoResetEvent.                                                         *)

\* State::signal, on the list l: the first waiter is selected, or the signal stored.
Signal(t, l) ==
    IF l.head = None
    THEN list' = l /\ isSet' = TRUE /\ UNCHANGED toWake
    ELSE /\ list' = WithValue(UnlinkWaiter(l, l.head), l.head, Notified)
         /\ toWake' = [toWake EXCEPT ![t] = {Value(l, l.head)}]
         /\ UNCHANGED isSet

AutoSet(t) ==
    /\ kind = "auto" /\ Free(t)
    /\ Signal(t, list)
    /\ UNCHANGED <<kind, node, pc, woken>>

Unset(t) ==
    /\ Free(t)
    /\ isSet' = FALSE
    /\ UNCHANGED <<kind, list, node, pc, toWake, woken>>

AutoReset(t) == kind = "auto" /\ Unset(t)

\* try_wait takes the signal; without one it changes nothing.
AutoTryWait(t) == kind = "auto" /\ isSet /\ Unset(t)

Completed(t) == Goto(t, "done") /\ node' = [node EXCEPT ![t] = None]

Enqueue(t) ==
    /\ list' = PushBack(list, t)
    /\ node' = [node EXCEPT ![t] = NewId(list.nodes)]
    /\ Goto(t, "pending")

AutoPoll(t) ==
    /\ kind = "auto" /\ pc[t] = "pending" /\ toWake[t] = {}
    /\ woken' = woken \ {t}
    /\ \/ /\ IsNotified(t)
          /\ list' = RemoveUnlinkedWaiter(list, node[t])
          /\ Completed(t)
          /\ UNCHANGED isSet
       \/ /\ node[t] # None /\ ~IsNotified(t)
          /\ UNCHANGED <<list, isSet, node, pc>>
       \/ /\ node[t] = None /\ isSet
          /\ isSet' = FALSE
          /\ Completed(t)
          /\ UNCHANGED list
       \/ /\ node[t] = None /\ ~isSet
          /\ Enqueue(t)
          /\ UNCHANGED isSet
    /\ UNCHANGED <<kind, toWake>>

\* The list after the node of t was detached and removed.
Unregistered(t) == RemoveUnlinkedWaiter(UnlinkWaiter(list, node[t]), node[t])

AutoDropLosesSignal(t) ==
    /\ kind = "auto" /\ pc[t] = "pending" /\ toWake[t] = {}
    /\ list' = IF node[t] = None THEN list ELSE Unregistered(t)
    /\ Goto(t, "idle")
    /\ node' = [node EXCEPT ![t] = None]
    /\ woken' = woken \ {t}
    /\ UNCHANGED <<kind, isSet, toWake>>

\* Wait::drop and unregister_waiter: a signal the wait owns is given to another.
AutoDrop(t) ==
    /\ kind = "auto" /\ pc[t] = "pending" /\ toWake[t] = {}
    /\ \/ node[t] = None /\ UNCHANGED <<list, isSet, toWake>>
       \/ /\ node[t] # None /\ ~IsNotified(t)
          /\ list' = Unregistered(t)
          /\ UNCHANGED <<isSet, toWake>>
       \/ /\ IsNotified(t)
          /\ Signal(t, Unregistered(t))
    /\ Goto(t, "idle")
    /\ node' = [node EXCEPT ![t] = None]
    /\ woken' = woken \ {t}
    /\ UNCHANGED kind

-----------------------------------------------------------------------------
(* ManualResetEvent.                                                       *)

Release(l, id) == WithValue(UnlinkWaiter(l, id), id, Notified)

\* set: the flag is stored and all waiters are detached before any is woken.
ManualSet(t) ==
    /\ kind = "manual" /\ Free(t) /\ ~isSet
    /\ isSet' = TRUE
    /\ list' = FoldLeft(Release, list, InOrder(list))
    /\ toWake' = [toWake EXCEPT ![t] = {Value(list, id) : id \in ToSet(InOrder(list))}]
    /\ UNCHANGED <<kind, node, pc, woken>>

\* Waits that were released stay so.
ManualReset(t) == kind = "manual" /\ Unset(t)

\* poll_wait looks at the flag without the lock if the wait has no node yet.
ManualProbe(t) ==
    /\ kind = "manual" /\ pc[t] = "pending" /\ toWake[t] = {}
    /\ Goto(t, IF node[t] = None /\ isSet THEN "done" ELSE "locking")
    /\ woken' = woken \ {t}
    /\ UNCHANGED <<kind, list, isSet, node, toWake>>

\* With the lock: the flag may have been set since the probe.
ManualPoll(t) ==
    /\ pc[t] = "locking"
    /\ \/ /\ IsNotified(t)
          /\ list' = RemoveUnlinkedWaiter(list, node[t])
          /\ Completed(t)
       \/ /\ node[t] # None /\ ~IsNotified(t)
          /\ Goto(t, "pending")
          /\ UNCHANGED <<list, node>>
       \/ node[t] = None /\ isSet /\ Completed(t) /\ UNCHANGED list
       \/ node[t] = None /\ ~isSet /\ Enqueue(t)
    /\ UNCHANGED <<kind, isSet, toWake, woken>>

ManualDrop(t) ==
    /\ kind = "manual" /\ pc[t] = "pending" /\ toWake[t] = {}
    /\ list' = IF node[t] = None THEN list ELSE Unregistered(t)
    /\ Goto(t, "idle")
    /\ node' = [node EXCEPT ![t] = None]
    /\ woken' = woken \ {t}
    /\ UNCHANGED <<kind, isSet, toWake>>

-----------------------------------------------------------------------------
(* Waits, wakers and the list on its own.                                  *)

\* wait and wait_owned make a future, which is polled for the first time later.
Wait(t) ==
    /\ kind # "list" /\ Free(t)
    /\ Goto(t, "pending")
    /\ woken' = woken \cup {t}
    /\ UNCHANGED <<kind, list, isSet, node, toWake>>

WakeNobody(t) ==
    /\ \E u \in toWake[t] : toWake' = [toWake EXCEPT ![t] = @ \ {u}]
    /\ UNCHANGED <<kind, list, isSet, node, pc, woken>>

Wake(t) ==
    /\ \E u \in toWake[t] :
          /\ toWake' = [toWake EXCEPT ![t] = @ \ {u}]
          /\ woken' = IF pc[u] \in {"pending", "locking"} THEN woken \cup {u} ELSE woken
    /\ UNCHANGED <<kind, list, isSet, node, pc>>

UseList ==
    /\ kind = "list"
    /\ \/ NewId(list.nodes) <= MaxSlots /\ list' = PushFront(list, Notified)
       \/ NewId(list.nodes) <= MaxSlots /\ list' = PushBack(list, Notified)
       \/ \E id \in LinkedIds(list) : list' = UnlinkWaiter(list, id)
       \/ \E id \in DetachedIds(list) : list' = RemoveUnlinkedWaiter(list, id)
    /\ UNCHANGED <<kind, isSet, node, pc, toWake, woken>>

Poll(t) == AutoPoll(t) \/ ManualProbe(t)

Next ==
    \/ \E t \in Tasks :
          \/ AutoSet(t) \/ AutoReset(t) \/ AutoTryWait(t) \/ ManualSet(t) \/ ManualReset(t) \/ Wait(t)
          \/ Poll(t) \/ ManualPoll(t) \/ AutoDrop(t) \/ ManualDrop(t) \/ Wake(t)
    \/ UseList

Spec == Init /\ [][Next]_vars

\* Threads finish the calls they are in; executors poll woken futures.
Fairness ==
    \A t \in Tasks :
       WF_vars(ManualPoll(t)) /\ WF_vars(Wake(t)) /\ WF_vars(t \in woken /\ Poll(t))

LiveSpec == Spec /\ Fairness

-----------------------------------------------------------------------------

\* The linked list and its free list stay consistent under every owner: one left
\* inconsistent by an unlink in the middle would lose or repeat waiters much later.
\* Each future's id is that of a node of its own, also across reuse of slots, and
\* the node keeps the future's waker until it is selected.
ListIsConsistent ==
    /\ TypeOK
    /\ ListIsWellFormed(list)
    /\ kind # "list" =>
          /\ OccupiedIds(list.nodes) = {node[t] : t \in Tasks} \ {None}
          /\ \A t \in Tasks : node[t] # None =>
                Value(list, node[t]) = IF Linked(list, node[t]) THEN t ELSE Notified

\* Used freely, the list behaves as a sequence of linked waiters and a set of
\* detached ones whose ids stay valid: what the queues built on it assume.
Promise ==
    INSTANCE WaiterList WITH
        Ids <- 1..MaxSlots, linked <- InOrder(list), detached <- DetachedIds(list)

ImplementsWaiterList == Promise!Init /\ [][kind = "list" => Promise!Next]_Promise!vars

\* A stored signal and queued waits never coexist (comment on State of the
\* auto-reset event, debug_assert in poll_wait of the manual-reset event).  A
\* selected wait of an auto-reset event that is dropped leaves its signal to
\* another wait or to the event; no cancellation loses it.
StoredMeansNobodyWaits == isSet => LinkedIds(list) = {}

SignalIsKept ==
    [][ /\ StoredMeansNobodyWaits'
        /\ \A t \in Tasks :
              kind = "auto" /\ IsNotified(t) /\ pc'[t] = "idle" =>
                 isSet' \/ \E u \in Tasks : ~IsNotified(u) /\ IsNotified(u)' ]_vars

\* A selected wait completes, also if the event is reset meanwhile, unless it is
\* dropped.
SelectedWaitEnds ==
    \A t \in Tasks : IsNotified(t) ~> pc[t] \in {"idle", "done"}
=============================================================================
