------------------------------- MODULE Watch -------------------------------
(***************************************************************************)
(* asyncband/src/watch/mod.rs: a channel that keeps the latest value only. *)
(* A value is known by the version its publication made.                   *)
(***************************************************************************)
EXTENDS WakerSet

CONSTANTS
    Publishers, Subscribers,   \* tasks that may own a Sender, or a Receiver
    MaxVersion                 \* bound on publications

\* A task owns at most one Sender and one Receiver; `got` is the version of the value
\* it obtained last.
Init ==
    /\ WakerInit
    /\ state = [version |-> 0, value |-> 0, senders |-> 1, receivers |-> 1]
    /\ \E t \in Publishers, r \in Subscribers :
          local = [u \in Tasks |-> [sender |-> u = t, receiver |-> u = r, seen |-> 0,
                                    call |-> "none", got |-> 0]]

-----------------------------------------------------------------------------
(* Handles.                                                                *)

\* Sender::clone, for u.
CloneSender(t, u) ==
    /\ Free(t) /\ local[t].sender /\ u \in Publishers /\ ~local[u].sender
    /\ state' = [state EXCEPT !.senders = @ + 1]
    /\ local' = [local EXCEPT ![u].sender = TRUE]
    /\ UNCHANGED wakerVars

\* The last sender detaches the waiting receivers.
DropSender(t) ==
    /\ Free(t) /\ local[t].sender
    /\ state' = [state EXCEPT !.senders = @ - 1]
    /\ IF state.senders = 1 THEN DetachAll(t) ELSE DetachNobody
    /\ local' = [local EXCEPT ![t].sender = FALSE]
    /\ UNCHANGED <<token, pc, woken>>

\* subscribe: the new receiver has seen the current version.
Subscribe(t, u) ==
    /\ Free(t) /\ local[t].sender /\ u \in Subscribers /\ ~local[u].receiver
    /\ state' = [state EXCEPT !.receivers = @ + 1]
    /\ local' = [local EXCEPT ![u].receiver = TRUE, ![u].seen = state.version, ![u].got = state.value]
    /\ UNCHANGED wakerVars

\* Receiver::clone: the copy has seen what the original has.
CloneReceiver(t, u) ==
    /\ Free(t) /\ local[t].receiver /\ u \in Subscribers /\ ~local[u].receiver
    /\ state' = [state EXCEPT !.receivers = @ + 1]
    /\ local' = [local EXCEPT ![u].receiver = TRUE, ![u].seen = local[t].seen, ![u].got = local[t].got]
    /\ UNCHANGED wakerVars

DropReceiver(t) ==
    /\ Free(t) /\ local[t].receiver
    /\ state' = [state EXCEPT !.receivers = @ - 1]
    /\ local' = [local EXCEPT ![t].receiver = FALSE, ![t].seen = 0, ![t].got = 0]
    /\ UNCHANGED wakerVars

-----------------------------------------------------------------------------
(* Publication.                                                            *)

Publish(t) ==
    /\ Free(t) /\ local[t].sender
    /\ state.version < MaxVersion
    /\ state' = [state EXCEPT !.version = @ + 1, !.value = state.version + 1]
    /\ DetachAll(t)
    /\ UNCHANGED <<local, token, pc, woken>>

\* send is refused when no receiver is left, send_replace is not.
Send(t) == state.receivers # 0 /\ Publish(t)

SendReplace(t) == Publish(t)

-----------------------------------------------------------------------------
(* Waiting for a change.                                                   *)

\* changed and recv make the same future.
Change(t, call) ==
    /\ Free(t) /\ local[t].receiver
    /\ local' = [local EXCEPT ![t].call = call]
    /\ Goto(t, "pending")
    /\ woken' = woken \cup {t}
    /\ UNCHANGED <<state, waiters, token, toWake>>

Detached(t) == state.version # local[t].seen \/ state.senders = 0

\* Change::poll: a newer version is reported before a disconnection; recv goes on to
\* take the lock again.
Poll(t) ==
    /\ pc[t] = "pending"
    /\ \/ /\ state.version # local[t].seen
          /\ ForgetToken(t)
          /\ \/ /\ local[t].call = "changed" /\ Goto(t, "idle")
                /\ local' = [local EXCEPT ![t].seen = state.version, ![t].got = state.value,
                                         ![t].call = "none"]
             \/ local[t].call = "recv" /\ Goto(t, "reading") /\ UNCHANGED local
          /\ UNCHANGED waiters
       \/ /\ state.version = local[t].seen /\ state.senders = 0
          /\ ForgetToken(t)
          /\ Goto(t, "idle")
          /\ local' = [local EXCEPT ![t].call = "none"]
          /\ UNCHANGED waiters
       \/ /\ ~Detached(t)
          /\ Register(t)
          /\ UNCHANGED <<pc, local>>
    /\ woken' = woken \ {t}
    /\ UNCHANGED <<state, toWake>>

\* The value and its version are read together.
Read(t) ==
    /\ pc[t] = "reading"
    /\ local' = [local EXCEPT ![t].got = state.value, ![t].seen = state.version, ![t].call = "none"]
    /\ Goto(t, "idle")
    /\ UNCHANGED <<state, waiters, token, toWake, woken>>

DropWait(t) ==
    /\ pc[t] = "pending"
    /\ Goto(t, "idle")
    /\ \/ token[t] = NoId /\ UNCHANGED <<waiters, token>>
       \/ token[t] # NoId /\ Detached(t) /\ ForgetToken(t) /\ UNCHANGED waiters
       \/ token[t] # NoId /\ ~Detached(t) /\ Unregister(t)
    /\ local' = [local EXCEPT ![t].call = "none"]
    /\ woken' = woken \ {t}
    /\ UNCHANGED <<state, toWake>>

Step(t) ==
    \/ \E u \in Tasks : CloneSender(t, u) \/ Subscribe(t, u) \/ CloneReceiver(t, u)
    \/ DropSender(t) \/ DropReceiver(t) \/ Send(t) \/ SendReplace(t)
    \/ Change(t, "changed") \/ Change(t, "recv")
    \/ Poll(t) \/ Read(t) \/ DropWait(t)

InPoll(t) == Read(t)

-----------------------------------------------------------------------------

Current == {t \in Tasks : pc[t] = "pending" /\ ~Detached(t)}

Released(t) == pc[t] # "idle" /\ Detached(t)

\* The counts are those of the handles, and the value a receiver got last is the one
\* of the version it has seen: a publication between the poll and the read of recv
\* is neither lost nor reported twice.
CountIsExact ==
    /\ state.senders = Cardinality({t \in Tasks : local[t].sender})
    /\ state.receivers = Cardinality({t \in Tasks : local[t].receiver})
    /\ state.value = state.version
    /\ \A t \in Tasks : local[t].got = local[t].seen /\ local[t].seen <= state.version
=============================================================================
