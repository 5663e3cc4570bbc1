--------------------------- MODULE EngineLifecycle ---------------------------
(***************************************************************************)
(* The life of a BaselineSearchEngine (core/engine.py) and of the requests *)
(* it serves: the HTTP handler that runs a search until its client is gone *)
(* (scheduler/cancellation.py), the admission limit (scheduler/executor.py)*)
(* and close(), which several tasks may call and any caller may abandon.   *)
(*                                                                         *)
(* What a search does between admission and its end is RequestScheduler;   *)
(* here it is one state, "executing", which ends by itself before the      *)
(* deadline, or "unwinding" once its task is cancelled, which ends when    *)
(* its branches have.                                                      *)
(*                                                                         *)
(* The lifecycle lock and the admission lock are never held across an      *)
(* await, so taking one does not suspend: registering, the admission and   *)
(* the way to the first await of the search are one step, and so are the   *)
(* release of the slot and the removal of the task at its end.             *)
(***************************************************************************)
EXTENDS Naturals, FiniteSets

CONSTANTS
  Requests,   \* HTTP requests
  Closers,    \* tasks that call close()
  Limit       \* in_flight_limit

ASSUME LimitPositive == Limit \in Nat \ {0}

Backends == {"vector", "graph"}

VARIABLES
  handler,     \* handler[r]: the handler of request r, in run_until_disconnect
  op,          \* op[r]: its operation task, which runs engine.search
  inFlight,    \* _in_flight of the admission controller
  registered,  \* _request_tasks
  closing,     \* _closing
  closed,      \* _closed
  complete,    \* _close_complete is set
  closer,      \* closer[c]: where close() is suspended in task c
  targets,     \* active_requests, the tasks the owner of the close awaits
  backend      \* backend[b]: whether b has been closed, and how that ended

requestVars == <<handler, op, inFlight, registered>>
closeVars == <<closing, closed, complete, closer, targets, backend>>
vars == <<requestVars, closeVars>>

HandlerStates == {"out", "watching", "joining", "responded", "failed", "cancelled"}
OpStates == {"none", "created", "executing", "unwinding", "answered", "refused", "cancelled"}
CloserStates == {"out", "requests", "abandoning", "vector", "graph", "waiting",
                 "returned", "raised"}

Ended == {"answered", "refused", "cancelled"}
Inside == {"executing", "unwinding"}
Busy == {"requests", "abandoning", "vector", "graph", "waiting"}

TypeOK ==
  /\ handler \in [Requests -> HandlerStates]
  /\ op \in [Requests -> OpStates]
  /\ inFlight \in 0 .. Limit
  /\ registered \subseteq Requests
  /\ {closing, closed, complete} \subseteq BOOLEAN
  /\ closer \in [Closers -> CloserStates]
  /\ targets \subseteq Requests
  /\ backend \in [Backends -> {"open", "closed", "failed"}]

Init ==
  /\ handler = [r \in Requests |-> "out"]
  /\ op = [r \in Requests |-> "none"]
  /\ inFlight = 0
  /\ registered = {}
  /\ closing = FALSE /\ closed = FALSE /\ complete = FALSE
  /\ closer = [c \in Closers |-> "out"]
  /\ targets = {}
  /\ backend = [b \in Backends |-> "open"]

----------------------------------------------------------------------------
(* The operation task: BaselineSearchEngine.search.                         *)

\* Task.cancel on the operations of rs: one that has not started never will,
\* one that is executing starts to unwind, one that has ended is left alone.
Cancelled(rs) ==
  [r \in Requests |->
     CASE r \in rs /\ op[r] = "created"   -> "cancelled"
       [] r \in rs /\ op[r] = "executing" -> "unwinding"
       [] OTHER                           -> op[r]]

\* One request more than there are slots is admitted.
EnterOneMore(r) ==
  /\ op[r] = "created"
  /\ IF closing \/ inFlight > Limit
     THEN /\ op' = [op EXCEPT ![r] = "refused"]
          /\ UNCHANGED <<inFlight, registered>>
     ELSE /\ op' = [op EXCEPT ![r] = "executing"]
          /\ inFlight' = inFlight + 1
          /\ registered' = registered \cup {r}
  /\ UNCHANGED <<handler, closeVars>>

\* The engine admits a request that arrives while it closes.
EnterUnchecked(r) ==
  /\ op[r] = "created"
  /\ IF inFlight >= Limit
     THEN /\ op' = [op EXCEPT ![r] = "refused"]
          /\ UNCHANGED <<inFlight, registered>>
     ELSE /\ op' = [op EXCEPT ![r] = "executing"]
          /\ inFlight' = inFlight + 1
          /\ registered' = registered \cup {r}
  /\ UNCHANGED <<handler, closeVars>>

\* _run_search: NOT_READY while the engine closes and OVERLOADED at the limit,
\* which leave no trace behind; or the request is admitted.
Enter(r) ==
  /\ op[r] = "created"
  /\ IF closing \/ inFlight >= Limit
     THEN /\ op' = [op EXCEPT ![r] = "refused"]
          /\ UNCHANGED <<inFlight, registered>>
     ELSE /\ op' = [op EXCEPT ![r] = "executing"]
          /\ inFlight' = inFlight + 1
          /\ registered' = registered \cup {r}
  /\ UNCHANGED <<handler, closeVars>>

\* The search returns a response or raises.
Search(r) ==
  /\ op[r] = "executing"
  /\ \E end \in {"answered", "refused"} : op' = [op EXCEPT ![r] = end]
  /\ inFlight' = inFlight - 1
  /\ registered' = registered \ {r}
  /\ UNCHANGED <<handler, closeVars>>

\* A cancelled search keeps its slot.
UnwindKeepsSlot(r) ==
  /\ op[r] = "unwinding"
  /\ op' = [op EXCEPT ![r] = "cancelled"]
  /\ registered' = registered \ {r}
  /\ UNCHANGED <<handler, inFlight, closeVars>>

\* The CancelledError leaves the search, its slot and its registration.
Unwind(r) ==
  /\ op[r] = "unwinding"
  /\ op' = [op EXCEPT ![r] = "cancelled"]
  /\ inFlight' = inFlight - 1
  /\ registered' = registered \ {r}
  /\ UNCHANGED <<handler, closeVars>>

----------------------------------------------------------------------------
(* The handler: run_until_disconnect.                                       *)

Arrive(r) ==
  /\ handler[r] = "out"
  /\ handler' = [handler EXCEPT ![r] = "watching"]
  /\ op' = [op EXCEPT ![r] = "created"]
  /\ UNCHANGED <<inFlight, registered, closeVars>>

\* The operation has ended: its result is returned or raised.
Reply(r) ==
  /\ handler[r] = "watching" /\ op[r] \in Ended
  /\ handler' = [handler EXCEPT ![r] =
       CASE op[r] = "answered"  -> "responded"
         [] op[r] = "refused"   -> "failed"
         [] op[r] = "cancelled" -> "cancelled"]
  /\ UNCHANGED <<op, inFlight, registered, closeVars>>

\* The watcher sees the client go first, or the handler itself is cancelled,
\* perhaps when the operation has ended and its result is not yet returned:
\* either way what is left of the operation is cancelled ...
Disconnect(r) ==
  /\ handler[r] = "watching"
  /\ handler' = [handler EXCEPT ![r] = "joining"]
  /\ op' = Cancelled({r})
  /\ UNCHANGED <<inFlight, registered, closeVars>>

\* ... (and forgotten) ...
JoinNothing(r) ==
  /\ handler[r] = "joining"
  /\ handler' = [handler EXCEPT ![r] = "cancelled"]
  /\ UNCHANGED <<op, inFlight, registered, closeVars>>

\* ... and awaited.  A further cancellation of the handler cancels the
\* operation again and changes nothing.
Join(r) ==
  /\ handler[r] = "joining" /\ op[r] \in Ended
  /\ handler' = [handler EXCEPT ![r] = "cancelled"]
  /\ UNCHANGED <<op, inFlight, registered, closeVars>>

----------------------------------------------------------------------------
(* close().                                                                 *)

\* Every caller believes it is the first.
CloseEveryOwner(c) ==
  /\ closer[c] = "out" /\ ~closed
  /\ closing' = TRUE
  /\ targets' = registered
  /\ op' = Cancelled(registered)
  /\ closer' = [closer EXCEPT ![c] = IF registered = {} THEN "vector" ELSE "requests"]
  /\ UNCHANGED <<handler, inFlight, registered, closed, complete, backend>>

\* The first caller owns the close: it shuts the door and cancels all searches.
\* With none to await it goes on to the backends without suspending.
CloseAsOwner(c) ==
  /\ closer[c] = "out" /\ ~closed /\ ~closing
  /\ closing' = TRUE
  /\ targets' = registered
  /\ op' = Cancelled(registered)
  /\ closer' = [closer EXCEPT ![c] = IF registered = {} THEN "vector" ELSE "requests"]
  /\ UNCHANGED <<handler, inFlight, registered, closed, complete, backend>>

\* Later callers wait for it, or find the engine closed.
CloseAsFollower(c) ==
  /\ closer[c] = "out" /\ (closing \/ closed)
  /\ closer' = [closer EXCEPT ![c] = IF closed THEN "returned" ELSE "waiting"]
  /\ UNCHANGED <<requestVars, closing, closed, complete, targets, backend>>

FollowerReturns(c) ==
  /\ closer[c] = "waiting" /\ complete
  /\ closer' = [closer EXCEPT ![c] = "returned"]
  /\ UNCHANGED <<requestVars, closing, closed, complete, targets, backend>>

\* cancel_and_await returns when the last of the searches has ended.
RequestsEnded(c) ==
  /\ closer[c] = "requests" /\ \A r \in targets : op[r] \in Ended
  /\ closer' = [closer EXCEPT ![c] = "vector"]
  /\ UNCHANGED <<requestVars, closing, closed, complete, targets, backend>>

\* An error of the vector backend ends the close.
VectorEndsTheClose(c) ==
  /\ closer[c] = "vector"
  /\ \E end \in {"closed", "failed"} :
       /\ backend' = [backend EXCEPT !["vector"] = end]
       /\ closer' = [closer EXCEPT ![c] = IF end = "closed" THEN "graph" ELSE "raised"]
       /\ closed' = (closed \/ end = "failed")
       /\ complete' = (complete \/ end = "failed")
  /\ UNCHANGED <<requestVars, closing, targets>>

\* The vector backend is closed, raises, or its close is cancelled with the
\* caller: the error is kept and the graph backend closed all the same.
CloseVector(c) ==
  /\ closer[c] = "vector"
  /\ \E end \in {"closed", "failed"} : backend' = [backend EXCEPT !["vector"] = end]
  /\ closer' = [closer EXCEPT ![c] = "graph"]
  /\ UNCHANGED <<requestVars, closing, closed, complete, targets>>

\* The event is set only when nothing failed.
CloseGraphQuietly(c) ==
  /\ closer[c] = "graph"
  /\ \E end \in {"closed", "failed"} :
       /\ backend' = [backend EXCEPT !["graph"] = end]
       /\ complete' = (end = "closed" /\ backend["vector"] = "closed")
       /\ closed' = complete'
       /\ closer' = [closer EXCEPT ![c] = IF complete' THEN "returned" ELSE "raised"]
  /\ UNCHANGED <<requestVars, closing, targets>>

\* Whatever the graph backend does, the engine is closed and the others wake.
CloseGraph(c) ==
  /\ closer[c] = "graph"
  /\ \E end \in {"closed", "failed"} :
       /\ backend' = [backend EXCEPT !["graph"] = end]
       /\ closer' = [closer EXCEPT ![c] =
            IF end = "closed" /\ backend["vector"] = "closed" THEN "returned" ELSE "raised"]
  /\ closed' = TRUE /\ complete' = TRUE
  /\ UNCHANGED <<requestVars, closing, targets>>

\* The task of a caller is cancelled.  A follower leaves at once.  The owner
\* that awaits the searches leaves when they have ended, and nobody closes the
\* backends; that the cancellation of a backend's close is kept as an error is
\* in CloseVector and CloseGraph.
CancelCloser(c) ==
  /\ closer[c] \in {"waiting", "requests"}
  /\ closer' = [closer EXCEPT ![c] = IF @ = "waiting" THEN "raised" ELSE "abandoning"]
  /\ UNCHANGED <<requestVars, closing, closed, complete, targets, backend>>

Abandon(c) ==
  /\ closer[c] = "abandoning" /\ \A r \in targets : op[r] \in Ended
  /\ closer' = [closer EXCEPT ![c] = "raised"]
  /\ UNCHANGED <<requestVars, closing, closed, complete, targets, backend>>

----------------------------------------------------------------------------
RequestStep(r) == Enter(r) \/ Search(r) \/ Unwind(r) \/ Reply(r) \/ Join(r)
CloseStep(c) == \/ FollowerReturns(c) \/ RequestsEnded(c) \/ CloseVector(c)
                \/ CloseGraph(c) \/ Abandon(c)

Next ==
  \/ \E r \in Requests : Arrive(r)
  \/ \E r \in Requests : Enter(r)
  \/ \E r \in Requests : Search(r)
  \/ \E r \in Requests : Unwind(r)
  \/ \E r \in Requests : Reply(r)
  \/ \E r \in Requests : Disconnect(r)
  \/ \E r \in Requests : Join(r)
  \/ \E c \in Closers : CloseAsOwner(c)
  \/ \E c \in Closers : CloseAsFollower(c)
  \/ \E c \in Closers : FollowerReturns(c)
  \/ \E c \in Closers : RequestsEnded(c)
  \/ \E c \in Closers : CloseVector(c)
  \/ \E c \in Closers : CloseGraph(c)
  \/ \E c \in Closers : CancelCloser(c)
  \/ \E c \in Closers : Abandon(c)

Safety == Init /\ [][Next]_vars

\* Tasks that are ready run; a search ends by its deadline, or when cancelled
\* (RequestScheduler, EveryRequestEnds); closing a backend ends, well or not.
Fairness == /\ \A r \in Requests : WF_vars(RequestStep(r))
            /\ \A c \in Closers : WF_vars(CloseStep(c))

Spec == Safety /\ Fairness

----------------------------------------------------------------------------
\* Every admitted search holds one slot and is registered for shutdown, and
\* nothing else is: no early return, error or cancellation leaks a slot, and there are
\* never more searches inside than the limit admits (AdmissionController.slot).
AdmissionExact ==
  /\ registered = {r \in Requests : op[r] \in Inside}
  /\ inFlight = Cardinality(registered)
  /\ inFlight <= Limit

\* A backend is closed only after the last search that could use it has ended,
\* also a search that arrives, or is admitted, while the engine closes.
NoServiceAfterClose ==
  \A r \in Requests : op[r] \in Inside => \A b \in Backends : backend[b] = "open"

\* A handler that has ended leaves no search behind, whoever cancelled it.
NoDetachedSearch ==
  \A r \in Requests : handler[r] \in {"responded", "failed", "cancelled"} => op[r] \in Ended

\* An engine that calls itself closed has tried to close both backends, the
\* second also when the first failed, and only then do other callers return.
ClosedMeansBoth ==
  /\ closed = complete
  /\ closed => \A b \in Backends : backend[b] # "open"
  /\ \A c \in Closers : closer[c] = "returned" => closed

\* No backend is closed twice, however many tasks call close().
ClosedOnce ==
  [][\A b \in Backends :
       /\ backend[b] # "open" => backend'[b] = backend[b]
       /\ Cardinality({c \in Closers : closer[c] \in {"requests", "vector", "graph"}}) <= 1]_vars

\* The owner of the close gave up while it awaited the searches: nobody is
\* left who would close a backend.
OwnerGaveUp ==
  /\ closing /\ \A b \in Backends : backend[b] = "open"
  /\ \A c \in Closers : closer[c] \notin {"requests", "abandoning", "vector", "graph"}

\* Every handler ends and, unless the owner gives up, every close returns or
\* raises, also when a backend fails to close.
EverybodyLeaves ==
  /\ \A r \in Requests : handler[r] = "watching" ~> handler[r] \notin {"watching", "joining"}
  /\ \A c \in Closers : closer[c] \in Busy ~> closer[c] \notin Busy \/ OwnerGaveUp

\* What test_shared_engine_closes_both_backends takes for granted: close()
\* closes both backends.
CloseCompletes == closing ~> closed
=============================================================================
