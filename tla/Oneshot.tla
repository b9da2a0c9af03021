------------------------------ MODULE Oneshot ------------------------------
(***************************************************************************)
(* The oneshot channel (asyncband/src/oneshot): one sender and one         *)
(* receiver share a heap allocation with an atomic state, a message slot   *)
(* and a waker slot.  Whoever leaves last must free the allocation and     *)
(* what is left in the slots.  Every access of the shared allocation is a  *)
(* step of its own; memory is sequentially consistent.                     *)
(***************************************************************************)
EXTENDS Integers

CONSTANTS
    Wakers,   \* wakers of the tasks that may poll the future
    NoWaker   \* an uninitialised waker slot

ASSUME WakersAssumption == NoWaker \notin Wakers

\* The encoding lets fetch_add(1) and fetch_xor(1) do the sender's transitions.
RECEIVING == 0
AWAKING == 1
DISCONNECTED == 2
EMPTY == 3
MESSAGE == 4

VARIABLES
    state,    \* Channel::state
    msg,      \* where the message is
    slot,     \* Channel::waker
    alloc,    \* the allocation is live
    spc,      \* where the sender is
    final,    \* final_state of finish_sender_awakening
    taken,    \* the waker the sender moved out of the slot
    rpc,      \* where the receiver (Receiver, then Recv) is
    saw,      \* the state the receiver loaded last
    cur,      \* the waker of the latest poll
    woken,    \* wakers called since the latest poll began
    sent,     \* what send returned
    got       \* what the receiver obtained first

vars == <<state, msg, slot, alloc, spc, final, taken, rpc, saw, cur, woken, sent, got>>

senderVars == <<spc, final, taken, sent>>
receiverVars == <<rpc, saw, cur, got>>

States == {RECEIVING, AWAKING, DISCONNECTED, EMPTY, MESSAGE}

\* "held": a Receiver; "idle": a Recv that is not being polled; "waiting": a
\* Recv whose last poll returned Pending; "ready": one that has completed.
ReceiverPCs == {"held", "tryStore", "tryTake", "idle", "waiting", "ready", "load", "write",
                "publish", "unpark", "rewrite", "store", "take", "dload", "dcas", "dwaker", "gone"}

SenderPCs == {"alive", "add", "awaken", "swap", "wake", "cleanup", "error", "done"}

TypeOK ==
    /\ state \in States
    /\ msg \in {"sender", "slot", "received", "returned", "dropped"}
    /\ slot \in Wakers \cup {NoWaker}
    /\ alloc \in BOOLEAN
    /\ spc \in SenderPCs
    /\ final \in {MESSAGE, DISCONNECTED}
    /\ taken \in Wakers \cup {NoWaker}
    /\ rpc \in ReceiverPCs
    /\ saw \in States
    /\ cur \in Wakers \cup {NoWaker}
    /\ woken \subseteq Wakers
    /\ sent \in {"none", "ok", "error"}
    /\ got \in {"none", "message", "disconnected"}

Init ==
    /\ state = EMPTY
    /\ msg = "sender"
    /\ slot = NoWaker
    /\ alloc = TRUE
    /\ spc = "alive"
    /\ final = DISCONNECTED
    /\ taken = NoWaker
    /\ rpc = "held"
    /\ saw = EMPTY
    /\ cur = NoWaker
    /\ woken = {}
    /\ sent = "none"
    /\ got = "none"

-----------------------------------------------------------------------------
(* The sender.                                                             *)

\* send writes the message before it touches the state.
SendWrite ==
    /\ spc = "alive"
    /\ msg' = "slot"
    /\ final' = MESSAGE
    /\ spc' = "add"
    /\ UNCHANGED <<state, slot, alloc, taken, sent, woken, receiverVars>>

SendAdd ==
    /\ spc = "add"
    /\ state' = state + 1
    /\ \/ state = EMPTY /\ spc' = "done" /\ sent' = "ok"
       \/ state = RECEIVING /\ spc' = "awaken" /\ sent' = "ok"
       \/ state = DISCONNECTED /\ spc' = "error" /\ sent' = "error"
    /\ UNCHANGED <<msg, slot, alloc, final, taken, woken, receiverVars>>

FlipLowBit(s) == IF s % 2 = 0 THEN s + 1 ELSE s - 1

\* Sender::drop: fetch_xor(1).
SenderDrop ==
    /\ spc = "alive"
    /\ state' = FlipLowBit(state)
    /\ \/ state = EMPTY /\ spc' = "done" /\ UNCHANGED alloc
       \/ state = RECEIVING /\ spc' = "awaken" /\ UNCHANGED alloc
       \/ state = DISCONNECTED /\ spc' = "done" /\ alloc' = FALSE
    /\ UNCHANGED <<msg, slot, final, taken, sent, woken, receiverVars>>

\* finish_sender_awakening: the waker is moved out before the final state is
\* published, because publishing lets the receiver free the allocation.
TakeWaker ==
    /\ spc = "awaken"
    /\ taken' = slot
    /\ slot' = NoWaker
    /\ spc' = "swap"
    /\ UNCHANGED <<state, msg, alloc, final, sent, woken, receiverVars>>

SwapDisconnected ==
    /\ spc = "swap"
    /\ state' = DISCONNECTED
    /\ spc' = IF state = AWAKING THEN "wake" ELSE "cleanup"
    /\ UNCHANGED <<msg, slot, alloc, final, taken, sent, woken, receiverVars>>

SwapFinal ==
    /\ spc = "swap"
    /\ state' = final
    /\ spc' = IF state = AWAKING THEN "wake" ELSE "cleanup"
    /\ UNCHANGED <<msg, slot, alloc, final, taken, sent, woken, receiverVars>>

Wake ==
    /\ spc = "wake"
    /\ woken' = woken \cup {taken}
    /\ taken' = NoWaker
    /\ spc' = "done"
    /\ UNCHANGED <<state, msg, slot, alloc, final, sent, receiverVars>>

\* The receiver was cancelled meanwhile: the sender drops what is left.
SenderCleanup ==
    /\ spc = "cleanup"
    /\ msg' = IF final = MESSAGE THEN "dropped" ELSE msg
    /\ alloc' = FALSE
    /\ taken' = NoWaker
    /\ spc' = "done"
    /\ UNCHANGED <<state, slot, final, sent, woken, receiverVars>>

\* SendError::into_inner hands the message back, its drop discards it.
SendErrorEnds ==
    /\ spc = "error"
    /\ msg' \in {"returned", "dropped"}
    /\ alloc' = FALSE
    /\ spc' = "done"
    /\ UNCHANGED <<state, slot, final, taken, sent, woken, receiverVars>>

-----------------------------------------------------------------------------
(* The receiver: Receiver::try_recv, Receiver::drop, into_future.          *)

TryRecv ==
    /\ rpc = "held"
    /\ state = MESSAGE
    /\ rpc' = "tryStore"
    /\ UNCHANGED <<state, msg, slot, alloc, saw, cur, got, woken, senderVars>>

\* The load and the store need not be one step: after MESSAGE the sender no
\* longer writes the state.
MarkReceived ==
    /\ rpc \in {"tryStore", "store"}
    /\ state' = DISCONNECTED
    /\ rpc' = IF rpc = "tryStore" THEN "tryTake" ELSE "take"
    /\ UNCHANGED <<msg, slot, alloc, saw, cur, got, woken, senderVars>>

TakeMessage ==
    /\ rpc \in {"tryTake", "take"}
    /\ msg' = "received"
    /\ got' = "message"
    /\ rpc' = IF rpc = "tryTake" THEN "held" ELSE "ready"
    /\ UNCHANGED <<state, slot, alloc, saw, cur, woken, senderVars>>

\* Receiver::drop swaps in DISCONNECTED and frees what the sender left to it.
ReceiverDrop ==
    /\ rpc = "held"
    /\ state' = DISCONNECTED
    /\ msg' = IF state = MESSAGE THEN "dropped" ELSE msg
    /\ alloc' = (state = EMPTY)
    /\ rpc' = "gone"
    /\ UNCHANGED <<slot, saw, cur, got, woken, senderVars>>

IntoFuture ==
    /\ rpc = "held"
    /\ rpc' = "idle"
    /\ UNCHANGED <<state, msg, slot, alloc, saw, cur, got, woken, senderVars>>

-----------------------------------------------------------------------------
(* Recv::poll.                                                             *)

Poll(w) ==
    /\ rpc \in {"idle", "waiting"}
    /\ cur' = w
    /\ woken' = {}
    /\ rpc' = "load"
    /\ UNCHANGED <<state, msg, slot, alloc, saw, got, senderVars>>

Disconnected ==
    /\ rpc' = "ready"
    /\ got' = IF got = "none" THEN "disconnected" ELSE got

\* The sender owns the stored waker: the poll wakes its own and returns.
WakeSelf == rpc' = "waiting" /\ woken' = woken \cup {cur}

PollLoadOverwrites ==
    /\ rpc = "load"
    /\ \/ state \in {EMPTY, AWAKING} /\ rpc' = "write" /\ UNCHANGED <<got, woken>>
       \/ state = MESSAGE /\ rpc' = "store" /\ UNCHANGED <<got, woken>>
       \/ state = RECEIVING /\ rpc' = "unpark" /\ UNCHANGED <<got, woken>>
       \/ state = DISCONNECTED /\ Disconnected /\ UNCHANGED woken
    /\ UNCHANGED <<state, msg, slot, alloc, saw, cur, senderVars>>

PollLoad ==
    /\ rpc = "load"
    /\ \/ state = EMPTY /\ rpc' = "write" /\ UNCHANGED <<got, woken>>
       \/ state = MESSAGE /\ rpc' = "store" /\ UNCHANGED <<got, woken>>
       \/ state = RECEIVING /\ rpc' = "unpark" /\ UNCHANGED <<got, woken>>
       \/ state = AWAKING /\ WakeSelf /\ UNCHANGED got
       \/ state = DISCONNECTED /\ Disconnected /\ UNCHANGED woken
    /\ UNCHANGED <<state, msg, slot, alloc, saw, cur, senderVars>>

\* register_waker, and reregister_waker, which keeps a waker that wakes cur.
WriteWaker ==
    /\ rpc \in {"write", "rewrite"}
    /\ slot' = cur
    /\ rpc' = "publish"
    /\ UNCHANGED <<state, msg, alloc, saw, cur, got, woken, senderVars>>

\* publish_waker: on failure the waker is still the receiver's to drop.
PublishWaker ==
    /\ rpc = "publish"
    /\ \/ /\ state = EMPTY
          /\ state' = RECEIVING
          /\ rpc' = "waiting"
          /\ UNCHANGED <<slot, got>>
       \/ /\ state = MESSAGE
          /\ slot' = NoWaker
          /\ rpc' = "store"
          /\ UNCHANGED <<state, got>>
       \/ /\ state = DISCONNECTED
          /\ slot' = NoWaker
          /\ Disconnected
          /\ UNCHANGED state
    /\ UNCHANGED <<msg, alloc, saw, cur, woken, senderVars>>

UnparkWakerInPlace ==
    /\ rpc = "unpark"
    /\ state = RECEIVING
    /\ rpc' = "rewrite"
    /\ UNCHANGED <<state, msg, slot, alloc, saw, cur, got, woken, senderVars>>

\* A poll that finds RECEIVING takes the stored waker back before replacing it.
UnparkWaker ==
    /\ rpc = "unpark"
    /\ \/ state = RECEIVING /\ state' = EMPTY /\ rpc' = "rewrite" /\ UNCHANGED <<got, woken>>
       \/ state = MESSAGE /\ rpc' = "store" /\ UNCHANGED <<state, got, woken>>
       \/ state = AWAKING /\ WakeSelf /\ UNCHANGED <<state, got>>
       \/ state = DISCONNECTED /\ Disconnected /\ UNCHANGED <<state, woken>>
    /\ UNCHANGED <<msg, slot, alloc, saw, cur, senderVars>>

-----------------------------------------------------------------------------
(* Recv::drop: a loop of a load and, where the sender may still act, an    *)
(* exchange that decides who cleans up.                                    *)

RecvDrop ==
    /\ rpc \in {"idle", "waiting", "ready"}
    /\ rpc' = "dload"
    /\ UNCHANGED <<state, msg, slot, alloc, saw, cur, got, woken, senderVars>>

DropLoad ==
    /\ rpc = "dload"
    /\ saw' = state
    /\ rpc' = "dcas"
    /\ UNCHANGED <<state, msg, slot, alloc, cur, got, woken, senderVars>>

DropTerminal ==
    /\ rpc = "dcas"
    /\ saw \in {MESSAGE, DISCONNECTED}
    /\ msg' = IF saw = MESSAGE THEN "dropped" ELSE msg
    /\ alloc' = FALSE
    /\ rpc' = "gone"
    /\ UNCHANGED <<state, slot, saw, cur, got, woken, senderVars>>

\* EMPTY or AWAKING to DISCONNECTED: the sender will free the allocation.
DropHandOver ==
    /\ rpc = "dcas"
    /\ saw \in {EMPTY, AWAKING}
    /\ state = saw
    /\ state' = DISCONNECTED
    /\ rpc' = "gone"
    /\ UNCHANGED <<msg, slot, alloc, saw, cur, got, woken, senderVars>>

\* RECEIVING to EMPTY: the waker is the receiver's again to drop, and the loop
\* goes on.
DropReclaimWaker ==
    /\ rpc = "dcas"
    /\ saw = RECEIVING
    /\ state = RECEIVING
    /\ state' = EMPTY
    /\ rpc' = "dwaker"
    /\ UNCHANGED <<msg, slot, alloc, saw, cur, got, woken, senderVars>>

DropWaker ==
    /\ rpc = "dwaker"
    /\ slot' = NoWaker
    /\ rpc' = "dload"
    /\ UNCHANGED <<state, msg, alloc, saw, cur, got, woken, senderVars>>

DropRetry ==
    /\ rpc = "dcas"
    /\ saw \in {EMPTY, AWAKING, RECEIVING}
    /\ state # saw
    /\ rpc' = "dload"
    /\ UNCHANGED <<state, msg, slot, alloc, saw, cur, got, woken, senderVars>>

-----------------------------------------------------------------------------

SenderStep == SendAdd \/ TakeWaker \/ SwapFinal \/ SenderCleanup \/ SendErrorEnds

PollStep == PollLoad \/ WriteWaker \/ PublishWaker \/ UnparkWaker \/ MarkReceived \/ TakeMessage

DropStep == DropLoad \/ DropTerminal \/ DropHandOver \/ DropReclaimWaker \/ DropWaker \/ DropRetry

\* A step of either side.
Next ==
    \/ SendWrite \/ SenderDrop \/ SenderStep \/ Wake
    \/ TryRecv \/ ReceiverDrop \/ IntoFuture \/ RecvDrop \/ DropStep \/ PollStep
    \/ \E w \in Wakers : Poll(w)

\* A task polls its future again once the waker of its latest poll was called.
WokenPoll == rpc = "waiting" /\ cur \in woken /\ Poll(cur)

-----------------------------------------------------------------------------
(* Properties.                                                             *)

\* Neither side touches the allocation after it was freed, and it is freed at
\* most once: the cleanup is always handed to exactly one side.  When both sides
\* are gone it is freed and nothing is left in it.
FreedExactlyOnce ==
    /\ ~alloc => spc \in {"wake", "done"} /\ rpc = "gone"
    /\ rpc = "gone" /\ spc = "done" =>
          /\ ~alloc
          /\ slot = NoWaker /\ taken = NoWaker
          /\ msg # "slot"

\* A slot is read or dropped only when it holds a value: assume_init_read of
\* the message and of the waker are never reached on an empty slot, and a
\* waker is written only over a slot the sender cannot take from.
SlotsInitialised ==
    /\ rpc \in {"tryStore", "tryTake", "store", "take"} => msg = "slot"
    /\ rpc = "dcas" /\ saw = MESSAGE => msg = "slot"
    /\ spc = "error" => msg = "slot"
    /\ spc = "awaken" => slot # NoWaker
    /\ state = RECEIVING => slot # NoWaker
    /\ rpc \in {"publish", "rewrite", "dwaker"} => slot # NoWaker /\ spc # "awaken"
    /\ rpc = "write" => slot = NoWaker

\* What the unsafe code of both sides relies on: the allocation is freed once and not
\* used afterwards, and what is read or dropped was written.
MemorySafety == FreedExactlyOnce /\ SlotsInitialised

\* The states the unreachable! arms name are never observed there.
NoUnexpectedState ==
    /\ TypeOK
    /\ spc \in {"alive", "add"} => state \in {EMPTY, RECEIVING, DISCONNECTED}
    /\ spc = "swap" => state \in {AWAKING, DISCONNECTED}
    /\ rpc = "held" => state \in {EMPTY, MESSAGE, DISCONNECTED}
    /\ rpc = "publish" => state \in {EMPTY, MESSAGE, DISCONNECTED}
    /\ rpc = "unpark" => state # EMPTY

\* The message ends in one place: what send reported agrees with what became
\* of it, only a message reported as sent is received, and a receiver told
\* Disconnected misses no message.
OutcomesAgree ==
    /\ got = "message" => msg = "received" /\ sent = "ok"
    /\ msg = "returned" => sent = "error"
    /\ sent = "error" => got # "message" /\ rpc = "gone"
    /\ got = "disconnected" => sent = "none" /\ spc \in {"wake", "done"}

\* A future that is awaited completes: the sender's last step reaches it
\* through its waker, however polls with other wakers interleave.
AwaitCompletes == rpc = "waiting" ~> rpc \in {"ready", "gone", "dload", "dcas", "dwaker"}

-----------------------------------------------------------------------------
(* The inductive invariant.                                                *)

\* What the sender has done with the message, and which waker it has.
SenderKnows ==
    /\ spc = "alive" => final = DISCONNECTED
    /\ spc \in {"add", "error"} => final = MESSAGE
    /\ final = DISCONNECTED => msg = "sender" /\ sent = "none"
    /\ final = MESSAGE =>
          /\ msg # "sender"
          /\ spc = "add" <=> sent = "none"
          /\ spc = "error" => sent = "error"
          /\ spc \in {"awaken", "swap", "cleanup", "wake"} => sent = "ok"
          /\ spc \in {"add", "awaken", "swap", "cleanup", "error"} => msg = "slot"
    /\ taken # NoWaker <=> spc \in {"swap", "wake", "cleanup"}

\* The state while the sender still acts on it: only the receiver can disconnect.
BeforeTheEnd ==
    /\ spc \in {"alive", "add"} => state \in {EMPTY, RECEIVING, DISCONNECTED}
    /\ spc \in {"awaken", "swap"} => state \in {AWAKING, DISCONNECTED}
    /\ spc \in {"alive", "add", "awaken", "swap"} => (state = DISCONNECTED <=> rpc = "gone")
    /\ spc \in {"error", "cleanup"} => rpc = "gone" /\ state # RECEIVING
    /\ spc \notin {"wake", "done"} => alloc

\* The state after the sender's last change of it: the receiver is the only owner.
AfterTheEnd ==
    spc \in {"wake", "done"} =>
       /\ rpc # "gone" => state \in {MESSAGE, DISCONNECTED} /\ alloc
       /\ rpc = "gone" => ~alloc /\ slot = NoWaker /\ msg # "slot"
       /\ rpc # "gone" /\ state = MESSAGE => msg = "slot" /\ sent = "ok"
       /\ rpc # "gone" /\ state = DISCONNECTED =>
             \/ msg = "sender"
             \/ sent = "ok" /\ msg = IF rpc \in {"tryTake", "take"} THEN "slot" ELSE "received"

\* What the receiver has learned at each point of its operations.
ReceiverKnows ==
    /\ rpc \in {"held", "tryStore", "tryTake", "write", "publish", "rewrite", "dwaker"} =>
          spc \in {"alive", "add", "done"} /\ state # RECEIVING
    /\ rpc = "unpark" => state # EMPTY
    /\ rpc \in {"tryStore", "store"} => state = MESSAGE /\ spc \in {"wake", "done"}
    /\ rpc \in {"tryTake", "take"} => state = DISCONNECTED /\ spc \in {"wake", "done"} /\ msg = "slot"
    /\ rpc = "dcas" /\ saw \in {MESSAGE, DISCONNECTED} => state = saw /\ spc \in {"wake", "done"}

\* The waker slot is written exactly while the state, or the side that has changed the
\* state, says so.
SlotOwnership ==
    slot # NoWaker <=>
       state = RECEIVING \/ spc = "awaken" \/ rpc \in {"publish", "rewrite", "dwaker"}

\* A poll that may store or call its waker has one.
CurIsSet == rpc \in {"load", "write", "unpark", "rewrite"} => cur # NoWaker

\* What each side was told, against where the message is.
Outcomes ==
    /\ got # "none" => spc \in {"wake", "done"}
    /\ got = "message" <=> msg = "received"
    /\ got = "message" => sent = "ok"
    /\ got = "disconnected" => final = DISCONNECTED
    /\ msg = "returned" => sent = "error"
    /\ sent = "error" => rpc = "gone" /\ got = "none"

\* Every fact that a step of either side relies on.
OneshotInv ==
    /\ TypeOK
    /\ SenderKnows /\ BeforeTheEnd /\ AfterTheEnd /\ ReceiverKnows /\ SlotOwnership /\ CurIsSet
    /\ Outcomes
=============================================================================
