-------------------------- MODULE RequestScheduler --------------------------
(***************************************************************************)
(* SchedulerExecutor.execute (scheduler/executor.py) and the part of       *)
(* BaselineSearchEngine._execute_request (core/engine.py) around it: the   *)
(* requests in flight, the one or two branch tasks each of them runs, the  *)
(* deadline, cancellation by the client or a shutdown, and the two circuit *)
(* breakers that all the requests share.                                   *)
(*                                                                         *)
(* One event loop runs every task, so a step here is what a task does      *)
(* between two suspension points.  The locks of the breakers are never     *)
(* held across an await and a coroutine takes them without suspending, so  *)
(* a branch acquires its permit in its first step and records its verdict  *)
(* in the step that ends its operation.                                    *)
(*                                                                         *)
(* A request slot stands for one place of the admission limit: when its    *)
(* request has been answered another one may start in it.                  *)
(***************************************************************************)
EXTENDS CircuitOps

CONSTANTS
  Requests,     \* request slots
  Modes(_),     \* the planner modes of the requests that arrive at a slot
  ErrorCodes,   \* the codes of the RAGPlanErrors a backend operation raises
  Disconnects   \* the reasons a request task is cancelled for

Branches == {"vector", "graph"}

PlannerModes == {"vector", "graph", "fixed_hybrid", "rule"}

\* The codes counted as the backend's failures (executor.py:333) and the codes that no
\* successful sibling makes up for (engine.py:1017).
Counted == {"DEPENDENCY_UNAVAILABLE", "RETRIEVAL_FAILED"}
Fatal == {"CORPUS_INCONSISTENT", "MODEL_INCOMPATIBLE", "PLAN_INVARIANT_VIOLATION",
          "INTERNAL_ERROR"}

ParentReasons == {"client_disconnect", "engine_shutdown", "parent_cancelled"}

ASSUME Parameters ==
  /\ \A r \in Requests : Modes(r) \subseteq PlannerModes
  /\ Disconnects \subseteq ParentReasons
  /\ ErrorCodes \subseteq Counted \cup Fatal \cup {"MODE_UNAVAILABLE"}

VARIABLES
  breaker,   \* breaker[b]: the circuit of branch b
  permit,    \* permit[b][r]: the permit request r holds of it
  task,      \* task[r][b]: the branch task, its context and its result
  phase,     \* phase[r]: where execute is suspended, "idle" outside it
  clock,     \* clock[r]: whether now has passed the branch cutoff of the request
  answer     \* answer[r]: how the last request of the slot ended

vars == <<breaker, permit, task, phase, clock, answer>>

----------------------------------------------------------------------------
(* Branch results.  A result is what BranchResult records of a branch; ""   *)
(* stands for None.  Times, hits and circuit snapshots are left out.        *)

Result(status, code, origin, timeout, reason) ==
  [status |-> status, error_code |-> code, failure_origin |-> origin,
   timeout_origin |-> timeout, cancellation_reason |-> reason]

NoResult == Result("not_scheduled", "", "", "", "")

\* A task that was cancelled before its first turn ends without a result.
Unstarted == Result("cancelled_error", "", "", "", "")

DeadlineTimeout ==
  Result("timed_out", "", "application", "application_deadline", "application_deadline")

FailedWith(code, origin) == Result("failed", code, origin, "", "")

\* The terminal results the validator of BranchResult accepts, with the
\* enumerations of core/models.py; for TypeOK.
BranchResults ==
  {res \in [status : {"succeeded", "timed_out", "failed", "cancelled"},
            error_code : {""} \cup Counted \cup Fatal \cup {"MODE_UNAVAILABLE"},
            failure_origin : {"", "application", "backend_native", "circuit_open", "client"},
            timeout_origin : {"", "application_deadline", "backend_client"},
            cancellation_reason : {"", "application_deadline"} \cup ParentReasons] :
     /\ res.status = "failed" <=> res.error_code # ""
     /\ res.cancellation_reason # "" => res.status \in {"timed_out", "cancelled"}
     /\ res.timeout_origin # "" => res.status = "timed_out"
     /\ res.failure_origin # "" => res.status # "succeeded"}

\* How an operation ends: with its payload, with a deadline error of the
\* application or of the backend's client, with another RAGPlanError, or with
\* an exception of any other class.
Outcomes == {"payload", "deadline", "client_timeout", "exception"} \cup ErrorCodes

\* A payload that came too late reported as a success.
ResultOfLate(outcome, passed) ==
  CASE outcome = "payload"        -> Result("succeeded", "", IF passed THEN "application" ELSE "", "", "")
    [] outcome = "deadline"       -> DeadlineTimeout
    [] outcome = "client_timeout" -> Result("timed_out", "", "backend_native", "backend_client", "")
    [] outcome = "exception"      -> FailedWith("DEPENDENCY_UNAVAILABLE", "backend_native")
    [] outcome \in ErrorCodes     ->
         FailedWith(outcome, IF outcome \in Counted THEN "backend_native" ELSE "application")

\* What _run_branch reports of each outcome, before or after the cutoff ...
ResultOf(outcome, passed) ==
  CASE outcome = "payload" /\ ~passed      -> Result("succeeded", "", "", "", "")
    [] outcome = "payload" /\ passed       -> DeadlineTimeout
    [] outcome = "deadline"                -> DeadlineTimeout
    [] outcome = "client_timeout"          ->
         Result("timed_out", "", "backend_native", "backend_client", "")
    [] outcome = "exception"               ->
         FailedWith("DEPENDENCY_UNAVAILABLE", "backend_native")
    [] outcome \in ErrorCodes              ->
         FailedWith(outcome, IF outcome \in Counted THEN "backend_native" ELSE "application")

\* The application's own deadline charged to the backend.
VerdictOfBlame(outcome, passed) ==
  CASE outcome = "payload" /\ ~passed -> "success"
    [] outcome = "payload" /\ passed  -> "ignored"
    [] outcome \in Counted \cup {"client_timeout", "exception", "deadline"} -> "failure"
    [] outcome \in ErrorCodes \ Counted -> "ignored"

\* ... and what it tells the circuit of it.
VerdictOf(outcome, passed) ==
  CASE outcome = "payload" /\ ~passed -> "success"
    [] outcome = "payload" /\ passed  -> "ignored"
    [] outcome = "deadline"           -> "ignored"
    [] outcome \in Counted \cup {"client_timeout", "exception"} -> "failure"
    [] outcome \in ErrorCodes \ Counted -> "ignored"

\* A cancelled branch is a timeout when the scheduler cancelled it at the
\* cutoff, and cancelled when its request was.
CancelledBy(reason) ==
  IF reason = "application_deadline" THEN DeadlineTimeout
  ELSE Result("cancelled", "", "client", "", reason)

----------------------------------------------------------------------------
NoTask == [st |-> "none", reason |-> "", result |-> NoResult]
Created(reason) == [st |-> "created", reason |-> reason, result |-> NoResult]

Tasks == [st : {"none", "created", "running", "done"},
          reason : {"", "application_deadline"} \cup Disconnects,
          result : BranchResults \cup {NoResult, Unstarted}]

Live(r) == {b \in Branches : task[r][b].st \in {"created", "running"}}
Scheduled(r) == {b \in Branches : task[r][b].st # "none"}

\* Only the tasks that have started are cancelled.
CancellingStarted(r, reason) ==
  [task EXCEPT ![r] = [b \in Branches |->
     IF @[b].st = "running" THEN [@[b] EXCEPT !.reason = reason] ELSE @[b]]]

\* cancel_and_await and the contexts: every live task is cancelled, for a
\* reason it reads when the CancelledError reaches it.
Cancelling(r, reason) ==
  [task EXCEPT ![r] = [b \in Branches |->
     IF b \in Live(r) THEN [@[b] EXCEPT !.reason = reason] ELSE @[b]]]

Replies == {"none", "complete", "partial", "cancelled", "DEADLINE_EXCEEDED"}
             \cup Counted \cup Fatal \cup {"MODE_UNAVAILABLE"}

TypeOK ==
  /\ breaker \in [Branches -> Breakers]
  /\ permit \in [Branches -> [Requests -> Permits]]
  /\ task \in [Requests -> [Branches -> Tasks]]
  /\ phase \in [Requests -> {"idle", "waiting", "expiring", "cancelling"}]
  /\ clock \in [Requests -> {"in_time", "cut_off"}]
  /\ answer \in [Requests -> Replies]

Init ==
  /\ breaker = [b \in Branches |-> NewBreaker]
  /\ permit = [b \in Branches |-> [r \in Requests |-> "none"]]
  /\ task = [r \in Requests |-> [b \in Branches |-> NoTask]]
  /\ phase = [r \in Requests |-> "idle"]
  /\ clock = [r \in Requests |-> "in_time"]
  /\ answer = [r \in Requests |-> "none"]

----------------------------------------------------------------------------
(* The request: _execute_request from planning to the response.             *)

\* _branch_work: the branches of a plan.  The rule planner is told whether the
\* graph circuit is open; without the graph it plans the vector branch alone.
Plans(mode, graph) ==
  CASE mode = "vector"       -> {{"vector"}}
    [] mode = "graph"        -> {{"graph"}}
    [] mode = "fixed_hybrid" -> {Branches}
    [] mode = "rule"         ->
         IF Refresh(graph).state = "open" THEN {{"vector"}} ELSE {{"vector"}, Branches}

\* execute creates the tasks and suspends on them.  When the cutoff passes
\* before it looks at the clock it cancels them before their first turn.
Start(r, mode) ==
  /\ phase[r] = "idle"
  /\ breaker' = IF mode = "rule" THEN [breaker EXCEPT !["graph"] = Refresh(@)] ELSE breaker
  /\ \E works \in Plans(mode, breaker["graph"]), now \in {"in_time", "cut_off"} :
       LET reason == IF now = "in_time" THEN "" ELSE "application_deadline"
       IN  /\ task' = [task EXCEPT ![r] =
                         [b \in Branches |-> IF b \in works THEN Created(reason) ELSE NoTask]]
           /\ phase' = [phase EXCEPT ![r] = IF now = "in_time" THEN "waiting" ELSE "expiring"]
           /\ clock' = [clock EXCEPT ![r] = now]
  /\ answer' = [answer EXCEPT ![r] = "none"]
  /\ UNCHANGED permit

\* What the scheduler takes for a task's result: a task that never started
\* timed out.
Collected(r) ==
  [b \in Scheduled(r) |->
     IF task[r][b].result = Unstarted THEN DeadlineTimeout ELSE task[r][b].result]

\* A success hides the integrity failure of its sibling.
ReplyHidesFatal(results, late) ==
  LET statuses == {results[b].status : b \in DOMAIN results}
      codes == {results[b].error_code : b \in DOMAIN results}
  IN  IF "succeeded" \in statuses
      THEN {IF late THEN "DEADLINE_EXCEEDED"
            ELSE IF statuses = {"succeeded"} THEN "complete" ELSE "partial"}
      ELSE IF codes \cap Fatal # {} THEN codes \cap Fatal
      ELSE {"DEADLINE_EXCEEDED"}

\* _raise_if_no_usable_branch, _rank_execution and the last look at the
\* deadline.  Of two fatal codes the first branch's is raised; which of them
\* that is makes no difference here.  That the fusion of two good lists may refuse
\* them when they contradict each other is left to Fusion.
Reply(results, late) ==
  LET statuses == {results[b].status : b \in DOMAIN results}
      codes == {results[b].error_code : b \in DOMAIN results}
  IN  IF codes \cap Fatal # {} THEN codes \cap Fatal
      ELSE IF "succeeded" \in statuses
      THEN {IF late THEN "DEADLINE_EXCEEDED"
            ELSE IF statuses = {"succeeded"} THEN "complete" ELSE "partial"}
      ELSE IF statuses \cap {"timed_out", "cancelled"} # {} THEN {"DEADLINE_EXCEEDED"}
      ELSE IF codes = {"MODE_UNAVAILABLE"} THEN codes
      ELSE {"DEPENDENCY_UNAVAILABLE"}

\* The request leaves execute; what is left of its tasks is out of its hands.
Leave(r) ==
  /\ phase' = [phase EXCEPT ![r] = "idle"]
  /\ clock' = [clock EXCEPT ![r] = "in_time"]
  /\ task' = [task EXCEPT ![r] =
                [b \in Branches |-> IF @[b].st = "done" THEN NoTask ELSE @[b]]]
  /\ UNCHANGED <<breaker, permit>>

\* The deadline lies behind the cutoff: once the cutoff has passed the response
\* may or may not be too late as well.
Respond(r) ==
  /\ Leave(r)
  /\ \E late \in {FALSE, clock[r] = "cut_off"} : \E reply \in Reply(Collected(r), late) :
       answer' = [answer EXCEPT ![r] = reply]

\* asyncio.wait returns with the last result, and execute with it.  (When it
\* returns with one of two, execute only goes back to wait.)
Wake(r) == phase[r] = "waiting" /\ Live(r) = {} /\ Respond(r)

\* asyncio.wait times out, or execute finds the cutoff passed.
Expire(r) ==
  /\ phase[r] = "waiting" /\ clock[r] = "cut_off" /\ Live(r) # {}
  /\ task' = Cancelling(r, "application_deadline")
  /\ phase' = [phase EXCEPT ![r] = "expiring"]
  /\ UNCHANGED <<breaker, permit, clock, answer>>

\* _expire_pending gives up on the branches without waiting for them.
JoinExpiredEarly(r) == phase[r] = "expiring" /\ Respond(r)

\* _expire_pending has awaited every task it cancelled.
JoinExpired(r) == phase[r] = "expiring" /\ Live(r) = {} /\ Respond(r)

\* The request task is cancelled: while it waits it cancels its branches and
\* tells them why; while it expires them they keep the deadline for a reason.
Cancel(r, why) ==
  /\ phase[r] \in {"waiting", "expiring"}
  /\ phase' = [phase EXCEPT ![r] = "cancelling"]
  /\ task' = IF phase[r] = "waiting" THEN Cancelling(r, why) ELSE task
  /\ UNCHANGED <<breaker, permit, clock, answer>>

\* The CancelledError goes on once cancel_and_await has awaited every branch.
JoinCancelled(r) ==
  /\ phase[r] = "cancelling" /\ Live(r) = {}
  /\ Leave(r)
  /\ answer' = [answer EXCEPT ![r] = "cancelled"]

----------------------------------------------------------------------------
(* The branch: _run_branch.                                                 *)

Ends(r, b, result) ==
  task' = [task EXCEPT ![r][b] = [@ EXCEPT !.st = "done", !.reason = "", !.result = result]]

Returns(r, b, verdict) ==
  /\ breaker' = [breaker EXCEPT ![b] = Recorded(@, permit[b][r], verdict)]
  /\ permit' = [permit EXCEPT ![b][r] = "none"]

\* The first turn of the task: its circuit lets it into the backend ...
Admitted(r, b) ==
  /\ task[r][b].st = "created" /\ task[r][b].reason = "" /\ ~Rejects(breaker[b])
  /\ permit' = [permit EXCEPT ![b][r] = PermitFrom(breaker[b])]
  /\ breaker' = [breaker EXCEPT ![b] = Acquired(@)]
  /\ task' = [task EXCEPT ![r][b].st = "running"]
  /\ UNCHANGED <<phase, clock, answer>>

\* ... or raises CircuitOpenError, and the branch has failed ...
Refused(r, b) ==
  /\ task[r][b].st = "created" /\ task[r][b].reason = "" /\ Rejects(breaker[b])
  /\ breaker' = [breaker EXCEPT ![b] = Refresh(@)]
  /\ Ends(r, b, FailedWith("MODE_UNAVAILABLE", "circuit_open"))
  /\ UNCHANGED <<permit, phase, clock, answer>>

\* ... or it was cancelled before it and its coroutine is never entered.
NeverStarted(r, b) ==
  /\ task[r][b].st = "created" /\ task[r][b].reason # ""
  /\ Ends(r, b, Unstarted)
  /\ UNCHANGED <<breaker, permit, phase, clock, answer>>

\* The operation returns or raises; a cancelled one may still do so first.
OperationEnds(r, b) ==
  /\ task[r][b].st = "running"
  /\ \E outcome \in Outcomes :
       LET passed == clock[r] = "cut_off"
       IN  Ends(r, b, ResultOf(outcome, passed)) /\ Returns(r, b, VerdictOf(outcome, passed))
  /\ UNCHANGED <<phase, clock, answer>>

\* A cancelled branch that gives back nothing to its circuit.
BranchCancelledKeepsPermit(r, b) ==
  /\ task[r][b].st = "running" /\ task[r][b].reason # ""
  /\ Ends(r, b, CancelledBy(task[r][b].reason))
  /\ UNCHANGED <<breaker, permit, phase, clock, answer>>

\* The CancelledError reaches the operation.
BranchCancelled(r, b) ==
  /\ task[r][b].st = "running" /\ task[r][b].reason # ""
  /\ Ends(r, b, CancelledBy(task[r][b].reason))
  /\ Returns(r, b, "ignored")
  /\ UNCHANGED <<phase, clock, answer>>

----------------------------------------------------------------------------
\* Time passes the branch cutoff.
ClockAdvances(r) ==
  /\ phase[r] # "idle" /\ clock[r] = "in_time"
  /\ clock' = [clock EXCEPT ![r] = "cut_off"]
  /\ UNCHANGED <<breaker, permit, task, phase, answer>>

Tick(b) ==
  /\ breaker[b].left > 0
  /\ breaker' = [breaker EXCEPT ![b] = Ticked(@)]
  /\ UNCHANGED <<permit, task, phase, clock, answer>>

FirstTurn(r, b) == Admitted(r, b) \/ Refused(r, b) \/ NeverStarted(r, b)
Resumes(r) == Wake(r) \/ Expire(r) \/ JoinExpired(r) \/ JoinCancelled(r)

Next ==
  \/ \E r \in Requests, mode \in PlannerModes : mode \in Modes(r) /\ Start(r, mode)
  \/ \E r \in Requests : Wake(r)
  \/ \E r \in Requests : Expire(r)
  \/ \E r \in Requests : JoinExpired(r)
  \/ \E r \in Requests, why \in Disconnects : Cancel(r, why)
  \/ \E r \in Requests : JoinCancelled(r)
  \/ \E r \in Requests, b \in Branches : Admitted(r, b)
  \/ \E r \in Requests, b \in Branches : Refused(r, b)
  \/ \E r \in Requests, b \in Branches : NeverStarted(r, b)
  \/ \E r \in Requests, b \in Branches : OperationEnds(r, b)
  \/ \E r \in Requests, b \in Branches : BranchCancelled(r, b)
  \/ \E r \in Requests : ClockAdvances(r)
  \/ \E b \in Branches : Tick(b)

\* The event loop runs every task that is ready, the clock runs, and a
\* cancelled operation unwinds.  An operation nobody cancels may hang.
Fairness ==
  /\ \A r \in Requests : WF_vars(Resumes(r)) /\ WF_vars(ClockAdvances(r))
  /\ \A r \in Requests, b \in Branches :
       WF_vars(FirstTurn(r, b)) /\ WF_vars(BranchCancelled(r, b))
  /\ \A b \in Branches : WF_vars(Tick(b))

Safety == Init /\ [][Next]_vars
Spec == Safety /\ Fairness

----------------------------------------------------------------------------
\* "Full child-task cleanup": outside execute a request has no task that still
\* runs, and a circuit's permit is held by a running branch and by no other,
\* however the request ended (docs/runtime.md, scheduler contract).
NoOrphans ==
  \A r \in Requests : \A b \in Branches :
    /\ phase[r] = "idle" => task[r][b].st = "none"
    /\ permit[b][r] # "none" <=> task[r][b].st = "running"

\* A circuit is charged with a failure only in the step in which some branch
\* reports a failure of its backend, and starts to count afresh only in one in
\* which a branch reports a success: the two separate decisions of _run_branch
\* agree for every outcome, deadline and cancellation.
BlamedOnEvidence ==
  [][\A b \in Branches :
       LET reported == {task'[r][b].result : r \in {q \in Requests :
                          task[q][b].st = "running" /\ task'[q][b].st = "done"}}
       IN  /\ breaker'[b].failures > breaker[b].failures \/ breaker'[b].left > breaker[b].left
                => \E res \in reported : res.failure_origin = "backend_native"
           /\ breaker'[b].failures < breaker[b].failures
                => \E res \in reported : res.status = "succeeded"]_vars

\* The answer fits the results, as the validators of SearchResponse demand and
\* docs/runtime.md promises: an integrity failure is never served, a branch
\* that succeeded in time is served unless the deadline itself has passed, and
\* complete means that every branch succeeded.
AnswerFitsResults ==
  [][\A r \in Requests :
       answer'[r] # answer[r] /\ answer'[r] # "none" /\ answer'[r] # "cancelled" =>
         LET results == Collected(r)
             good == {b \in DOMAIN results : results[b].status = "succeeded"}
             fatal == {b \in DOMAIN results : results[b].error_code \in Fatal}
         IN  /\ fatal # {} => answer'[r] \in Fatal
             /\ good # {} /\ fatal = {}
                  => \/ answer'[r] \in {"complete", "partial"}
                     \/ clock[r] = "cut_off" /\ answer'[r] = "DEADLINE_EXCEEDED"
             /\ answer'[r] = "complete" => good = DOMAIN results /\ good # {}
             /\ answer'[r] = "partial" => good # {} /\ good # DOMAIN results]_vars

\* Every request is answered, though a backend may hang, its circuit refuse it
\* or the client disconnect at any point.
EveryRequestEnds == \A r \in Requests : phase[r] # "idle" ~> phase[r] = "idle"

\* Each circuit behaves as CircuitBreaker says among these callers; so the
\* theorems of that module hold of both, and none of them is ever wedged.
VectorCircuit == INSTANCE CircuitBreaker
  WITH Calls <- Requests, breaker <- breaker["vector"], permit <- permit["vector"]
GraphCircuit == INSTANCE CircuitBreaker
  WITH Calls <- Requests, breaker <- breaker["graph"], permit <- permit["graph"]

CircuitsKept == VectorCircuit!Spec /\ GraphCircuit!Spec
=============================================================================
