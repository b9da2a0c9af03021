------------------------------ MODULE Shutdown ------------------------------
(***************************************************************************)
(* Shutdown (asyncband/src/shutdown/mod.rs): a WaitGroup counts the guards *)
(* and a Latch of one tells them that shutdown was requested.  A Shutdown  *)
(* handle is a wait future of the group; a guard's owner waits for the     *)
(* request.  The latch is what Latch promises: a request opens it and      *)
(* wakes those that wait, in one step.                                     *)
(***************************************************************************)
EXTENDS WaitGroup

VARIABLES
    requested,   \* the latch is open
    watch        \* what each task knows of the request

shutdownVars == <<requested, watch>>

\* "waiting" is registered at the latch, "told" has seen that it is open.
ShutdownTypeOK ==
    /\ requested \in BOOLEAN
    /\ watch \in [Tasks -> {"none", "waiting", "told"}]

\* new: one guard, and one Shutdown handle made from a second handle of the group.
ShutdownInit ==
    /\ count = 1
    /\ \E t, u \in Tasks :
          /\ t # u
          /\ owners = {t}
          /\ pc = [v \in Tasks |-> IF v = u THEN "pending" ELSE "idle"]
          /\ woken = {u}
    /\ lock = Nobody /\ waiters = {}
    /\ token = [t \in Tasks |-> "none"] /\ toWake = [t \in Tasks |-> {}]
    /\ then = [t \in Tasks |-> "idle"]
    /\ requested = FALSE
    /\ watch = [t \in Tasks |-> "none"]

\* count_down of the latch.
Request ==
    /\ requested' = TRUE
    /\ watch' = [t \in Tasks |-> IF watch[t] = "waiting" THEN "told" ELSE watch[t]]

RequestShutdown(t) ==
    /\ pc[t] = "pending" /\ ~requested
    /\ Request
    /\ UNCHANGED <<count, waitVars, groupVars>>

PollWithoutRequest(t) == Poll(t) /\ UNCHANGED <<groupVars, shutdownVars>>

\* Shutdown::poll requests shutdown before it waits for the guards.
PollShutdown(t) == Poll(t) /\ Request /\ UNCHANGED groupVars

\* shutdown_requested of a guard or a watch, by a task without a Shutdown handle.
Watch(t) ==
    /\ pc[t] = "idle" /\ watch[t] = "none"
    /\ watch' = [watch EXCEPT ![t] = IF requested THEN "told" ELSE "waiting"]
    /\ UNCHANGED <<requested, count, waitVars, groupVars>>

CloneGuard(t, u) == CloneHandle(t, u) /\ UNCHANGED shutdownVars

\* The guard is dropped, or turned into a watch, whose owner may go on waiting.
DropGuard(t) == DropHandle(t) /\ UNCHANGED shutdownVars

CloneShutdown(t, u) == CloneWait(t, u) /\ UNCHANGED shutdownVars

ShutdownStep(t) ==
    /\ \/ Announce(t) \/ WakeReturn(t) \/ WaitStep(t)
       \/ DropWait(t) /\ UNCHANGED groupVars
    /\ UNCHANGED shutdownVars

ShutdownNext ==
    \E t \in Tasks :
       \/ RequestShutdown(t) \/ PollShutdown(t) \/ Watch(t) \/ DropGuard(t) \/ ShutdownStep(t)
       \/ \E u \in Tasks : CloneGuard(t, u) \/ CloneShutdown(t, u)

-----------------------------------------------------------------------------

\* Nobody misses the request: a task that waits at the latch waits for one that has
\* not been made.
NobodyMissesRequest == \A t \in Tasks : watch[t] = "waiting" => ~requested
=============================================================================
