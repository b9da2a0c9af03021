------------------------------ MODULE Broadcast ------------------------------
(***************************************************************************)
(* The broadcast channels (asyncband/src/broadcast/mpmc): every receiver   *)
(* reads every message published after it subscribed.  Backlog keeps each  *)
(* message until the last cursor has passed it (common.rs); the bounded    *)
(* channel (bounded/mod.rs) makes senders wait for a reclaimed slot on a   *)
(* semaphore without permits, tx_permits, which is the permit queue that   *)
(* Semaphore implements.  The unbounded channel (unbounded/mod.rs) has no  *)
(* such wait.                                                              *)
(*                                                                         *)
(* A critical section of `inner` is one step, with the calls of the wakers *)
(* it took, and so is each access to the counters blocked_senders and      *)
(* senders.  Each task owns one sender or one receiver.  Only versions     *)
(* matter, not the messages.                                               *)
(***************************************************************************)
EXTENDS Integers, FiniteSetsExt, SequencesExt

CONSTANTS
    SenderTasks,
    ReceiverTasks,
    NoDebt,        \* reduce_permits is not called on tx_permits
    Capacities,    \* the capacities of the channel, 0 for an unbounded one
    MaxTail        \* bound on the versions published

Tasks == SenderTasks \cup ReceiverTasks

ASSUME BroadcastAssumption ==
    /\ SenderTasks \cap ReceiverTasks = {}
    /\ SenderTasks # {} /\ ReceiverTasks # {}
    /\ NoDebt \notin Tasks
    /\ Capacities \subseteq Nat /\ MaxTail \in Nat

VARIABLES
    capacity,   \* Shared::capacity, never changed
    slots,      \* Backlog::buffer: the cursor count of each retained message
    head, tail, \* the version of the first slot, and of the next message
    atTail,     \* receivers that have read everything
    receivers,  \* the arena of cursors: registered receiver -> next version
    waiters,    \* Inner::waiters, the registered wakers
    senders,    \* Shared::senders
    blocked,    \* Shared::blocked_senders
    avail, queue, granted, want, held, hand,   \* tx_permits: a PermitQueue
    token,      \* receivers whose Recv future has a registration token
    pc,         \* where each task is
    freed,      \* slots each task reclaimed and has still to announce
    woken       \* receivers whose Recv future has to be polled

backlog == <<slots, head, tail, atTail, receivers>>
permits == <<avail, queue, granted, want, held, hand>>
vars == <<capacity, backlog, waiters, senders, blocked, permits, token, pc, freed, woken>>

TX == INSTANCE PermitQueue WITH Debt <- NoDebt, Permits <- 0, Amounts <- {1}

\* "announce" to "leave" are the parts of send, "disconnect" of a sender's drop;
\* "release" to "notify" those of a receive or of a receiver's drop.
PCs == {"gone", "idle", "announce", "acquire", "ready", "recheck", "blocked", "leave", "dropAcquire",
        "disconnect", "pending", "release", "permits", "releaseAll", "notify"}

TypeOK ==
    /\ slots \in Seq(Nat)
    /\ head \in Nat /\ tail \in 0..MaxTail /\ atTail \in Nat
    /\ DOMAIN receivers \subseteq ReceiverTasks
    /\ waiters \subseteq ReceiverTasks /\ token \subseteq ReceiverTasks
    /\ senders \in Nat /\ blocked \in Nat
    /\ pc \in [Tasks -> PCs]
    /\ freed \in [ReceiverTasks -> Nat]
    /\ woken \subseteq ReceiverTasks

FirstSender == CHOOSE s \in SenderTasks : TRUE
FirstReceiver == CHOOSE r \in ReceiverTasks : TRUE

Init ==
    /\ capacity \in Capacities
    /\ slots = <<>> /\ head = 0 /\ tail = 0 /\ atTail = 1
    /\ receivers = [r \in {FirstReceiver} |-> 0]
    /\ waiters = {} /\ token = {}
    /\ senders = 1 /\ blocked = 0
    /\ TX!Init
    /\ pc = [t \in Tasks |-> IF t \in {FirstSender, FirstReceiver} THEN "idle" ELSE "gone"]
    /\ freed = [r \in ReceiverTasks |-> 0]
    /\ woken = {}

\* t goes on once it has distributed the permits in its hand.
Goto(t, from, to) ==
    /\ pc[t] = from
    /\ hand[t] = 0
    /\ pc' = [pc EXCEPT ![t] = to]

Unread(r) == tail - receivers[r]
HasReceivers == DOMAIN receivers # {}
Full == HasReceivers /\ capacity # 0 /\ Len(slots) = capacity

-----------------------------------------------------------------------------
(* Senders and subscriptions.                                              *)

CloneSender(s, new) ==
    /\ pc[s] = "idle"
    /\ Goto(new, "gone", "idle")
    /\ senders' = senders + 1
    /\ UNCHANGED <<backlog, waiters, blocked, permits, token, freed, woken>>

Clone(s, new) == capacity # 0 /\ CloneSender(s, new)

CloneUnbounded(s, new) == capacity = 0 /\ CloneSender(s, new)

ReleaseSender(s) ==
    /\ Goto(s, "idle", IF senders = 1 THEN "disconnect" ELSE "gone")
    /\ senders' = senders - 1
    /\ UNCHANGED <<backlog, waiters, blocked, permits, token, freed, woken>>

DropSender(s) == capacity # 0 /\ ReleaseSender(s)

DropUnboundedSender(s) == capacity = 0 /\ ReleaseSender(s)

Disconnect(s) ==
    /\ Goto(s, "disconnect", "gone")
    /\ woken' = woken \cup waiters
    /\ waiters' = {}
    /\ UNCHANGED <<backlog, senders, blocked, permits, token, freed>>

\* A new cursor at the tail.
NewCursor(r) ==
    /\ Goto(r, "gone", "idle")
    /\ atTail' = atTail + 1
    /\ receivers' = [u \in DOMAIN receivers \cup {r} |-> IF u = r THEN tail ELSE receivers[u]]
    /\ UNCHANGED <<slots, head, tail, waiters, senders, blocked, permits, token, freed, woken>>

Subscribe(s, r) == s \in SenderTasks /\ pc[s] = "idle" /\ NewCursor(r)

Resubscribe(t, r) == t \in ReceiverTasks /\ pc[t] = "idle" /\ NewCursor(r)

-----------------------------------------------------------------------------
(* Publishing.                                                             *)

PublishDiscarded ==
    /\ ~HasReceivers
    /\ head' = tail + 1
    /\ UNCHANGED <<slots, atTail>>

\* The cursors at the tail now have this message as their next.
PublishRetained ==
    /\ HasReceivers
    /\ slots' = Append(slots, atTail)
    /\ atTail' = 0
    /\ UNCHANGED head

\* A publication that is not refused; every registered receiver is to be woken.
Publish ==
    /\ ~Full
    /\ PublishDiscarded \/ PublishRetained
    /\ tail' = tail + 1
    /\ woken' = woken \cup waiters
    /\ waiters' = {}
    /\ UNCHANGED receivers

\* A bound: the sends in progress may all publish.
MaySend ==
    tail + Cardinality({s \in SenderTasks :
               pc[s] \in {"announce", "acquire", "ready", "recheck", "blocked"}}) < MaxTail

PublishNow(s) ==
    /\ MaySend
    /\ Goto(s, "idle", "idle")
    /\ Publish
    /\ UNCHANGED <<senders, blocked, permits, token, freed>>

\* try_send, and the first attempt of send.
TrySend(s) == capacity # 0 /\ PublishNow(s)

\* send of the unbounded channel, which never waits.
SendUnbounded(s) == capacity = 0 /\ PublishNow(s)

SendFull(s) ==
    /\ MaySend
    /\ Goto(s, "idle", "announce")
    /\ Full
    /\ UNCHANGED <<backlog, waiters, senders, blocked, permits, token, freed, woken>>

Announce(s) ==
    /\ Goto(s, "announce", "acquire")
    /\ blocked' = blocked + 1
    /\ UNCHANGED <<backlog, waiters, senders, permits, token, freed, woken>>

\* The acquisition is polled ...
PollAcquire(s) ==
    /\ \/ TX!Take(s, 1) /\ Goto(s, "acquire", "ready")
       \/ TX!Wait(s, 1) /\ Goto(s, "acquire", "recheck")
       \/ TX!Collect(s) /\ Goto(s, "blocked", "ready")
       \/ s \notin granted /\ Goto(s, "blocked", "recheck") /\ UNCHANGED permits
    /\ UNCHANGED <<backlog, waiters, senders, blocked, token, freed, woken>>

\* ... the permit it returns is used up ...
Acquired(s) ==
    /\ Goto(s, "ready", "recheck")
    /\ TX!Forget(s, 1)
    /\ UNCHANGED <<backlog, waiters, senders, blocked, token, freed, woken>>

\* ... and only then is the capacity looked at.
RecheckPublishes(s) ==
    /\ Goto(s, "recheck", "leave")
    /\ Publish
    /\ UNCHANGED <<senders, blocked, permits, token, freed>>

\* Without room the future waits, or acquires again if it had been given a permit.
RecheckFull(s) ==
    /\ Goto(s, "recheck", IF want[s] > 0 THEN "blocked" ELSE "acquire")
    /\ Full
    /\ UNCHANGED <<backlog, waiters, senders, blocked, permits, token, freed, woken>>

\* The send future is dropped while it is pending.
CancelSend(s) ==
    /\ Goto(s, "blocked", "leave")
    /\ UNCHANGED <<backlog, waiters, senders, blocked, permits, token, freed, woken>>

\* SendState::drop, first the count and then the acquisition.
Leave(s) ==
    /\ Goto(s, "leave", IF want[s] > 0 THEN "dropAcquire" ELSE "idle")
    /\ blocked' = blocked - 1
    /\ UNCHANGED <<backlog, waiters, senders, permits, token, freed, woken>>

DropAcquire(s) ==
    /\ Goto(s, "dropAcquire", "idle")
    /\ TX!Abandon(s)
    /\ UNCHANGED <<backlog, waiters, senders, blocked, token, freed, woken>>

\* The permits in hand go to the queue of tx_permits.
Distribute(t) ==
    /\ TX!Assign(t) \/ TX!Publish(t)
    /\ UNCHANGED <<backlog, waiters, senders, blocked, token, pc, freed, woken>>

-----------------------------------------------------------------------------
(* Receiving.                                                              *)

\* The cursor is counted at its next version before it leaves this one, and the
\* first slot goes when its last cursor leaves it.
Moved(r) ==
    LET offset == receivers[r] - head + 1
    IN  [i \in DOMAIN slots |-> CASE i = offset -> slots[i] - 1
                                  [] i = offset + 1 -> slots[i] + 1
                                  [] OTHER -> slots[i]]

\* Whether r's cursor is the last one on the first slot.
Vacates(r) == slots # <<>> /\ receivers[r] = head /\ slots[1] = 1

Receive(r) ==
    /\ Unread(r) > 0
    /\ receivers' = [receivers EXCEPT ![r] = @ + 1]
    /\ atTail' = IF Unread(r) = 1 THEN atTail + 1 ELSE atTail
    /\ slots' = IF Vacates(r) THEN Tail(Moved(r)) ELSE Moved(r)
    /\ head' = IF Vacates(r) THEN head + 1 ELSE head
    /\ UNCHANGED tail

\* A receive that finds a message; the future's registration is gone.
ReceiveTo(r, from, to, n) ==
    /\ Goto(r, from, to)
    /\ Receive(r)
    /\ freed' = [freed EXCEPT ![r] = n]
    /\ token' = token \ {r}
    /\ woken' = woken \ {r}
    /\ UNCHANGED <<waiters, senders, blocked, permits>>

\* The bounded channel announces a slot it reclaims.
ReceiveReleased(r, from) ==
    IF Vacates(r) THEN ReceiveTo(r, from, "release", 1) ELSE ReceiveTo(r, from, "idle", 0)

TryRecv(r) ==
    IF capacity # 0 THEN ReceiveReleased(r, "idle") ELSE ReceiveTo(r, "idle", "idle", 0)

Recv(r) == capacity # 0 /\ ReceiveReleased(r, "pending")

RecvUnbounded(r) == capacity = 0 /\ ReceiveTo(r, "pending", "idle", 0)

\* Mutant: the sender count is not looked at before the receiver waits.
RecvPendingIgnoresSenders(r) ==
    /\ \E from \in {"idle", "pending"} : Goto(r, from, "pending")
    /\ Unread(r) = 0
    /\ token' = token \cup {r}
    /\ waiters' = waiters \cup {r}
    /\ woken' = woken \ {r}
    /\ UNCHANGED <<backlog, senders, blocked, permits, freed>>

\* A poll of recv that finds none registers, or returns Disconnected.
RecvPending(r) ==
    /\ \E from \in {"idle", "pending"} : Goto(r, from, IF senders = 0 THEN "idle" ELSE "pending")
    /\ Unread(r) = 0
    /\ token' = IF senders = 0 THEN token \ {r} ELSE token \cup {r}
    /\ waiters' = IF senders = 0 THEN waiters ELSE waiters \cup {r}
    /\ woken' = woken \ {r}
    /\ UNCHANGED <<backlog, senders, blocked, permits, freed>>

\* Recv::drop: a registration that a publication or a disconnection has taken, or
\* will take, is left alone.
DropRecv(r) ==
    /\ Goto(r, "pending", "idle")
    /\ waiters' = IF Unread(r) > 0 \/ senders = 0 THEN waiters ELSE waiters \ {r}
    /\ token' = token \ {r}
    /\ woken' = woken \ {r}
    /\ UNCHANGED <<backlog, senders, blocked, permits, freed>>

\* Mutant: only the first slot is reclaimed.
VacatedFirst(s) == IF s # <<>> /\ s[1] = 0 THEN 1 ELSE 0

\* The number of slots at the front that no cursor is on.
Vacated(s) == Min({i \in 0..Len(s) : i = Len(s) \/ s[i + 1] > 0})

\* remove_receiver: the cursor leaves its slot, or the tail.
RemoveReceiver(r, left, n) ==
    /\ receivers' = [u \in DOMAIN receivers \ {r} |-> receivers[u]]
    /\ atTail' = IF Unread(r) = 0 THEN atTail - 1 ELSE atTail
    /\ slots' = SubSeq(left, n + 1, Len(left))
    /\ head' = head + n
    /\ UNCHANGED tail

\* What is left when r's cursor is gone from its slot.
WithoutCursor(r) ==
    IF Unread(r) = 0 THEN slots ELSE [slots EXCEPT ![receivers[r] - head + 1] = @ - 1]

\* Mutant: the last receiver releases its slots like any other.
DropReceiverReleasesSlots(r) ==
    LET n == Vacated(WithoutCursor(r))
    IN  /\ capacity # 0
        /\ Goto(r, "idle", IF n > 0 THEN "release" ELSE "gone")
        /\ RemoveReceiver(r, WithoutCursor(r), n)
        /\ freed' = [freed EXCEPT ![r] = n]
        /\ UNCHANGED <<waiters, senders, blocked, permits, token, woken>>

\* BoundedReceiver::drop; after the last one every send succeeds.
DropReceiver(r) ==
    LET n == Vacated(WithoutCursor(r))
        last == DOMAIN receivers = {r}
    IN  /\ capacity # 0
        /\ Goto(r, "idle", IF last THEN "releaseAll" ELSE IF n > 0 THEN "release" ELSE "gone")
        /\ RemoveReceiver(r, WithoutCursor(r), n)
        /\ freed' = [freed EXCEPT ![r] = n]
        /\ UNCHANGED <<waiters, senders, blocked, permits, token, woken>>

DropUnboundedReceiver(r) ==
    /\ capacity = 0
    /\ Goto(r, "idle", "gone")
    /\ RemoveReceiver(r, WithoutCursor(r), Vacated(WithoutCursor(r)))
    /\ UNCHANGED <<waiters, senders, blocked, permits, token, freed, woken>>

-----------------------------------------------------------------------------
(* Announcing reclaimed slots to blocked senders.                          *)

\* A receiver that is no longer registered was being dropped.
Done(r) == IF r \in DOMAIN receivers THEN "idle" ELSE "gone"

\* release_reclaimed: one permit for each slot, but not more than senders wait.
ReleaseReclaimed(r) ==
    /\ Goto(r, "release", IF blocked > 0 THEN "permits" ELSE Done(r))
    /\ freed' = [freed EXCEPT ![r] = Min({@, blocked})]
    /\ UNCHANGED <<backlog, waiters, senders, blocked, permits, token, woken>>

ReleaseIfWaiters(r) ==
    /\ Goto(r, "permits", Done(r))
    /\ \/ queue = <<>> /\ UNCHANGED permits
       \/ queue # <<>> /\ TX!Add(r, freed[r])
    /\ freed' = [freed EXCEPT ![r] = 0]
    /\ UNCHANGED <<backlog, waiters, senders, blocked, token, woken>>

\* release_all, after the last receiver: every queued sender is satisfied.
ReleaseAll(r) ==
    /\ Goto(r, "releaseAll", IF blocked > 0 THEN "notify" ELSE "gone")
    /\ freed' = [freed EXCEPT ![r] = 0]
    /\ UNCHANGED <<backlog, waiters, senders, blocked, permits, token, woken>>

NotifyAll(r) ==
    /\ pc[r] = "notify"
    /\ \/ queue # <<>> /\ TX!NotifyFirst /\ UNCHANGED pc
       \/ queue = <<>> /\ Goto(r, "notify", "gone") /\ UNCHANGED permits
    /\ UNCHANGED <<backlog, waiters, senders, blocked, token, freed, woken>>

-----------------------------------------------------------------------------

\* What a thread does once it is in a call.
Proceed(t) ==
    \/ Distribute(t)
    \/ /\ t \in SenderTasks
       /\ \/ Disconnect(t) \/ Announce(t) \/ Acquired(t) \/ RecheckPublishes(t)
          \/ RecheckFull(t) \/ Leave(t) \/ DropAcquire(t)
          \/ pc[t] = "acquire" /\ PollAcquire(t)
    \/ /\ t \in ReceiverTasks
       /\ ReleaseReclaimed(t) \/ ReleaseIfWaiters(t) \/ ReleaseAll(t) \/ NotifyAll(t)

PollSend(s) == pc[s] = "blocked" /\ PollAcquire(s)

RecvPoll(r) == r \in DOMAIN receivers /\ (TryRecv(r) \/ Recv(r) \/ RecvUnbounded(r) \/ RecvPending(r))

Step ==
    \/ \E s \in SenderTasks :
          \/ \E new \in SenderTasks : Clone(s, new) \/ CloneUnbounded(s, new)
          \/ \E r \in ReceiverTasks : Subscribe(s, r)
          \/ DropSender(s) \/ DropUnboundedSender(s)
          \/ TrySend(s) \/ SendUnbounded(s) \/ SendFull(s) \/ PollSend(s) \/ CancelSend(s)
    \/ \E r \in ReceiverTasks :
          \/ \E new \in ReceiverTasks : Resubscribe(r, new)
          \/ RecvPoll(r) \/ DropRecv(r)
          \/ r \in DOMAIN receivers /\ (DropReceiver(r) \/ DropUnboundedReceiver(r))
    \/ \E t \in Tasks : Proceed(t)

Next == Step /\ UNCHANGED capacity

Spec == Init /\ [][Next]_vars

\* Threads go on; a future is polled once it is woken or has been given a permit.
Fairness ==
    /\ \A t \in Tasks : WF_vars(Proceed(t) /\ UNCHANGED capacity)
    /\ \A s \in SenderTasks : WF_vars(s \in granted /\ PollSend(s) /\ UNCHANGED capacity)
    /\ \A r \in ReceiverTasks : WF_vars(r \in woken /\ RecvPoll(r) /\ UNCHANGED capacity)

LiveSpec == Spec /\ Fairness

-----------------------------------------------------------------------------

\* What assert_cursor_accounting checks, slot by slot: each retained message counts
\* exactly the receivers that read it next, the first one has such a receiver (so
\* nothing is retained that everybody has read), and versions and slots agree.
CursorAccounting ==
    LET At(v) == Cardinality({r \in DOMAIN receivers : receivers[r] = v})
    IN  /\ TypeOK
        /\ tail - head = Len(slots)
        /\ atTail = At(tail)
        /\ \A i \in DOMAIN slots : slots[i] = At(head + i - 1)
        /\ slots # <<>> => slots[1] > 0
        /\ capacity # 0 => Len(slots) <= capacity

\* A token that register or unregister uses names a registered waker: publications
\* and disconnections take all registrations, and the futures tell from the cursor
\* and the sender count that theirs is gone.
TokensAreValid ==
    \A r \in token : Unread(r) = 0 /\ senders > 0 => r \in waiters

\* The backlog's books are right: its cursor counts and the receivers' registrations.
BacklogIsExact == CursorAccounting /\ TokensAreValid

\* A sender does not stay blocked while there is room, whoever made the room and
\* whichever sends are cancelled meanwhile.
SenderProceeds ==
    \A s \in SenderTasks : (pc[s] = "blocked" /\ ~Full) ~> (pc[s] # "blocked" \/ Full)

\* A receive does not stay pending with a message to read or without senders.
ReceiverProceeds ==
    \A r \in ReceiverTasks :
       (pc[r] = "pending" /\ (senders = 0 \/ Unread(r) > 0)) ~> pc[r] # "pending"
=============================================================================
