----------------------- MODULE RequestSchedulerProofs -----------------------
(***************************************************************************)
(* The safety of the scheduler for any requests, modes and limits.  Each   *)
(* of the two circuits is a CircuitBreaker whose calls are the requests,   *)
(* so that what CircuitBreakerProofs proves of one breaker is taken over   *)
(* by refinement; what is left to prove is that the tasks of a request and *)
(* the permits they hold end with it, whatever ends it.                    *)
(***************************************************************************)
EXTENDS RequestScheduler, TLAPS

V == INSTANCE CircuitBreakerProofs
       WITH Calls <- Requests, breaker <- breaker["vector"], permit <- permit["vector"]
G == INSTANCE CircuitBreakerProofs
       WITH Calls <- Requests, breaker <- breaker["graph"], permit <- permit["graph"]

IInv == TypeOK /\ NoOrphans /\ V!IInv /\ G!IInv

\* What a step of the scheduler is to the circuit of a branch.
Acquires(b, r) ==
  /\ permit[b][r] = "none" /\ ~Rejects(breaker[b])
  /\ permit'[b] = [permit[b] EXCEPT ![r] = PermitFrom(breaker[b])]
  /\ breaker'[b] = Acquired(breaker[b])

\* The result a branch reports stands behind what it tells its circuit.
Backs(result, verdict) ==
  /\ verdict = "failure" => result.failure_origin = "backend_native"
  /\ verdict = "success" => result.status = "succeeded"

Records(b, r) ==
  /\ permit[b][r] # "none"
  /\ task[r][b].st = "running" /\ task'[r][b].st = "done"
  /\ \E verdict \in Verdicts :
       /\ breaker'[b] = Recorded(breaker[b], permit[b][r], verdict)
       /\ Backs(task'[r][b].result, verdict)
  /\ permit'[b] = [permit[b] EXCEPT ![r] = "none"]

CircuitStep(b) ==
  \/ \E r \in Requests : Acquires(b, r)
  \/ \E r \in Requests : Records(b, r)
  \/ breaker'[b] = Refresh(breaker[b]) /\ permit'[b] = permit[b]
  \/ breaker[b].left > 0 /\ breaker'[b] = Ticked(breaker[b]) /\ permit'[b] = permit[b]
  \/ breaker'[b] = breaker[b] /\ permit'[b] = permit[b]

----------------------------------------------------------------------------
(* Operators.                                                               *)

\* Every outcome, whenever it comes, is a verdict and a result the validator accepts, and
\* the result stands behind the verdict.
LEMMA OutcomesAreReported ==
  ASSUME NEW outcome \in Outcomes, NEW passed \in BOOLEAN
  PROVE  /\ VerdictOf(outcome, passed) \in Verdicts
         /\ ResultOf(outcome, passed) \in BranchResults
         /\ Backs(ResultOf(outcome, passed), VerdictOf(outcome, passed))
<1>1. CASE outcome = "payload"
  BY <1>1, Parameters
     DEF VerdictOf, ResultOf, Backs, Verdicts, BranchResults, Result, DeadlineTimeout, Counted, Fatal
<1>2. CASE outcome \in {"deadline", "client_timeout"}
  BY <1>2, Parameters
     DEF VerdictOf, ResultOf, Backs, Verdicts, BranchResults, Result, DeadlineTimeout, Counted, Fatal
<1>3. CASE outcome = "exception"
  BY <1>3, Parameters
     DEF VerdictOf, ResultOf, Backs, Verdicts, BranchResults, Result, FailedWith, Counted, Fatal
<1>4. CASE outcome \in ErrorCodes
  BY <1>4, Parameters
     DEF VerdictOf, ResultOf, Backs, Verdicts, BranchResults, Result, FailedWith, Counted, Fatal
<1> QED BY <1>1, <1>2, <1>3, <1>4 DEF Outcomes

\* What is reported of a branch that was cancelled, refused or never started is a result.
LEMMA OtherResults ==
  /\ \A reason \in {"application_deadline"} \cup Disconnects : CancelledBy(reason) \in BranchResults
  /\ FailedWith("MODE_UNAVAILABLE", "circuit_open") \in BranchResults
<1>1. ASSUME NEW reason \in {"application_deadline"} \cup Disconnects
      PROVE  CancelledBy(reason) \in BranchResults
  BY Parameters DEF CancelledBy, DeadlineTimeout, Result, BranchResults, ParentReasons
<1>2. FailedWith("MODE_UNAVAILABLE", "circuit_open") \in BranchResults
  BY DEF FailedWith, Result, BranchResults
<1> QED BY <1>1, <1>2

\* A reply is one of the replies.
LEMMA RepliesAreReplies ==
  ASSUME NEW results, NEW late \in BOOLEAN
  PROVE  Reply(results, late) \subseteq Replies \ {"none", "cancelled"}
BY DEF Reply, Replies, Fatal, Counted

----------------------------------------------------------------------------
\* A task ends by its state and its result; no other task changes.
LEMMA EndedIsTask ==
  ASSUME NEW t \in Tasks, NEW result \in BranchResults \cup {NoResult, Unstarted}
  PROVE  /\ [t EXCEPT !.st = "done", !.reason = "", !.result = result] \in Tasks
         /\ [t EXCEPT !.st = "done", !.reason = "", !.result = result].st = "done"
         /\ [t EXCEPT !.st = "done", !.reason = "", !.result = result].result = result
<1> DEFINE Results == BranchResults \cup {NoResult, Unstarted}
<1> DEFINE new == [t EXCEPT !.st = "done", !.reason = "", !.result = result]
<1>1. result \in Results /\ t \in [st : {"none", "created", "running", "done"},
          reason : {"", "application_deadline"} \cup Disconnects, result : Results]
  BY DEF Tasks
<1> HIDE DEF Results
<1>2. new \in [st : {"none", "created", "running", "done"},
          reason : {"", "application_deadline"} \cup Disconnects, result : Results]
  BY <1>1
<1>3. new.st = "done" /\ new.result = result
  BY <1>1
<1> QED BY <1>2, <1>3 DEF Tasks, Results

LEMMA EndsKeepsTasks ==
  ASSUME TypeOK, NEW r \in Requests, NEW b \in Branches,
         NEW result \in BranchResults \cup {NoResult, Unstarted}, Ends(r, b, result)
  PROVE  /\ task' \in [Requests -> [Branches -> Tasks]]
         /\ task'[r][b].st = "done" /\ task'[r][b].result = result
         /\ \A q \in Requests, c \in Branches : q # r \/ c # b => task'[q][c] = task[q][c]
<1> DEFINE new == [task[r][b] EXCEPT !.st = "done", !.reason = "", !.result = result]
<1>1. new \in Tasks /\ new.st = "done" /\ new.result = result
  <2>1. task[r][b] \in Tasks
    BY DEF TypeOK
  <2> QED BY <2>1, EndedIsTask
<1>2. task' = [task EXCEPT ![r][b] = new]
  BY DEF Ends
<1> HIDE DEF new
<1> QED BY <1>1, <1>2 DEF TypeOK

\* How the tasks of a request change when all its live ones are told why they end.
LEMMA CancellingKeepsTasks ==
  ASSUME TypeOK, NEW r \in Requests, NEW reason \in {"application_deadline"} \cup Disconnects,
         task' = Cancelling(r, reason)
  PROVE  /\ task' \in [Requests -> [Branches -> Tasks]]
         /\ \A q \in Requests, b \in Branches : task'[q][b].st = task[q][b].st
<1> DEFINE told == [b \in Branches |->
                     IF b \in Live(r) THEN [task[r][b] EXCEPT !.reason = reason] ELSE task[r][b]]
<1>1. ASSUME NEW b \in Branches
      PROVE  told[b] \in Tasks /\ told[b].st = task[r][b].st
  <2>1. task[r][b] \in Tasks
    BY DEF TypeOK
  <2>2. /\ [task[r][b] EXCEPT !.reason = reason] \in Tasks
        /\ [task[r][b] EXCEPT !.reason = reason].st = task[r][b].st
    BY <2>1 DEF Tasks
  <2> QED BY <2>1, <2>2
<1>2. told \in [Branches -> Tasks]
  BY <1>1
<1>3. task' = [task EXCEPT ![r] = told]
  BY DEF Cancelling, TypeOK
<1> HIDE DEF told
<1> QED BY <1>1, <1>2, <1>3 DEF TypeOK

\* A request that leaves execute when its last task has ended leaves no task.
LEMMA LeaveKeepsTasks ==
  ASSUME TypeOK, NEW r \in Requests, Live(r) = {}, Leave(r)
  PROVE  /\ task' \in [Requests -> [Branches -> Tasks]]
         /\ \A b \in Branches : task[r][b].st \in {"none", "done"} /\ task'[r][b].st = "none"
         /\ \A q \in Requests \ {r} : task'[q] = task[q]
<1> DEFINE left == [b \in Branches |-> IF task[r][b].st = "done" THEN NoTask ELSE task[r][b]]
<1>1. task' = [task EXCEPT ![r] = left]
  BY DEF Leave, TypeOK
<1>2. ASSUME NEW b \in Branches
      PROVE  task[r][b].st \in {"none", "done"} /\ left[b] \in Tasks /\ left[b].st = "none"
  <2>1. task[r][b] \in Tasks
    BY DEF TypeOK
  <2>2. task[r][b].st \in {"none", "done"}
    BY <2>1 DEF Live, Tasks
  <2>3. NoTask \in Tasks /\ NoTask.st = "none"
    BY DEF NoTask, Tasks
  <2> QED BY <2>1, <2>2, <2>3
<1>3. left \in [Branches -> Tasks]
  BY <1>2
<1> HIDE DEF left
<1> QED BY <1>1, <1>2, <1>3 DEF TypeOK

\* What a branch does to its circuit it does to no other circuit.
LEMMA OneCircuit ==
  ASSUME TypeOK, NEW r \in Requests, NEW b \in Branches, NEW next, NEW p \in Permits,
         breaker' = [breaker EXCEPT ![b] = next], permit' = [permit EXCEPT ![b][r] = p]
  PROVE  /\ breaker'[b] = next /\ permit'[b] = [permit[b] EXCEPT ![r] = p]
         /\ permit' \in [Branches -> [Requests -> Permits]]
         /\ permit'[b][r] = p
         /\ \A q \in Requests, c \in Branches : q # r \/ c # b => permit'[c][q] = permit[c][q]
         /\ \A c \in Branches \ {b} : breaker'[c] = breaker[c] /\ permit'[c] = permit[c]
BY DEF TypeOK

----------------------------------------------------------------------------
(* What every step keeps, but for the ranges of the breakers, which their   *)
(* own invariants give.                                                     *)

Kept ==
  /\ breaker' = [b \in Branches |-> breaker'[b]]
  /\ permit' \in [Branches -> [Requests -> Permits]]
  /\ task' \in [Requests -> [Branches -> Tasks]]
  /\ phase' \in [Requests -> {"idle", "waiting", "expiring", "cancelling"}]
  /\ clock' \in [Requests -> {"in_time", "cut_off"}]
  /\ answer' \in [Requests -> Replies]
  /\ NoOrphans'
  /\ \A b \in Branches : CircuitStep(b)

LEMMA StartKeeps ==
  ASSUME IInv, NEW r \in Requests, NEW mode \in PlannerModes, Start(r, mode)
  PROVE  Kept
<1> USE DEF IInv
<1>1. PICK works \in Plans(mode, breaker["graph"]), now \in {"in_time", "cut_off"} :
        LET reason == IF now = "in_time" THEN "" ELSE "application_deadline"
        IN  /\ task' = [task EXCEPT ![r] =
                          [b \in Branches |-> IF b \in works THEN Created(reason) ELSE NoTask]]
            /\ phase' = [phase EXCEPT ![r] = IF now = "in_time" THEN "waiting" ELSE "expiring"]
            /\ clock' = [clock EXCEPT ![r] = now]
  BY DEF Start
<1> DEFINE reason == IF now = "in_time" THEN "" ELSE "application_deadline"
           new == [b \in Branches |-> IF b \in works THEN Created(reason) ELSE NoTask]
<1>2. Created(reason) \in Tasks /\ Created(reason).st = "created"
  BY DEF Created, Tasks
<1>3. NoTask \in Tasks /\ NoTask.st = "none"
  BY DEF NoTask, Tasks
<1>4. new \in [Branches -> Tasks] /\ \A b \in Branches : new[b].st # "running"
  BY <1>2, <1>3
<1>5. task' = [task EXCEPT ![r] = new] /\ phase'[r] # "idle"
  BY <1>1 DEF TypeOK
<1> HIDE DEF new
<1>6. /\ task' \in [Requests -> [Branches -> Tasks]]
      /\ phase' \in [Requests -> {"idle", "waiting", "expiring", "cancelling"}]
      /\ clock' \in [Requests -> {"in_time", "cut_off"}]
  BY <1>1, <1>4, <1>5 DEF TypeOK
<1>7. answer' \in [Requests -> Replies] /\ permit' = permit
  BY DEF Start, TypeOK, Replies
<1>8. NoOrphans'
  <2>1. \A b \in Branches : task[r][b].st = "none" /\ permit[b][r] = "none"
    BY DEF NoOrphans, Start
  <2>2. ASSUME NEW q \in Requests, NEW b \in Branches
        PROVE  /\ phase'[q] = "idle" => task'[q][b].st = "none"
               /\ permit'[b][q] # "none" <=> task'[q][b].st = "running"
    <3>1. CASE q = r
      BY <1>4, <1>5, <1>7, <2>1, <3>1 DEF TypeOK
    <3>2. CASE q # r
      <4>1. phase'[q] = phase[q] /\ task'[q] = task[q] /\ permit' = permit
        BY <1>1, <1>5, <1>7, <3>2 DEF TypeOK
      <4> QED BY <4>1 DEF NoOrphans
    <3> QED BY <3>1, <3>2
  <2> QED BY <2>2 DEF NoOrphans
<1>9. /\ breaker' = [b \in Branches |-> breaker'[b]]
      /\ \A b \in Branches : CircuitStep(b)
  <2>1. CASE mode = "rule"
    <3>1. breaker' = [breaker EXCEPT !["graph"] = Refresh(breaker["graph"])]
      BY <2>1 DEF Start
    <3>2. breaker'["graph"] = Refresh(breaker["graph"]) /\ breaker'["vector"] = breaker["vector"]
      BY <3>1 DEF TypeOK, Branches
    <3> QED BY <1>7, <3>1, <3>2 DEF CircuitStep, Branches, TypeOK
  <2>2. CASE mode # "rule"
    BY <1>7, <2>2 DEF Start, CircuitStep, TypeOK
  <2> QED BY <2>1, <2>2
<1> QED BY <1>6, <1>7, <1>8, <1>9 DEF Kept, TypeOK

\* A request that leaves execute, with whatever reply.
LEMMA LeaveKeeps ==
  ASSUME IInv, NEW r \in Requests, Live(r) = {}, Leave(r), answer' \in [Requests -> Replies]
  PROVE  Kept
<1> USE DEF IInv
<1>1. /\ task' \in [Requests -> [Branches -> Tasks]]
      /\ \A b \in Branches : task[r][b].st \in {"none", "done"} /\ task'[r][b].st = "none"
      /\ \A q \in Requests \ {r} : task'[q] = task[q]
  BY LeaveKeepsTasks
<1>2. /\ phase' \in [Requests -> {"idle", "waiting", "expiring", "cancelling"}]
      /\ clock' \in [Requests -> {"in_time", "cut_off"}]
      /\ breaker' = breaker /\ permit' = permit
      /\ \A q \in Requests \ {r} : phase'[q] = phase[q]
  BY DEF Leave, TypeOK
<1>3. NoOrphans'
  <2>1. ASSUME NEW q \in Requests, NEW b \in Branches
        PROVE  /\ phase'[q] = "idle" => task'[q][b].st = "none"
               /\ permit'[b][q] # "none" <=> task'[q][b].st = "running"
    <3>1. CASE q = r
      BY <1>1, <1>2, <3>1 DEF NoOrphans
    <3>2. CASE q # r
      BY <1>1, <1>2, <3>2 DEF NoOrphans
    <3> QED BY <3>1, <3>2
  <2> QED BY <2>1 DEF NoOrphans
<1> QED BY <1>1, <1>2, <1>3 DEF Kept, CircuitStep, TypeOK

LEMMA RespondKeeps ==
  ASSUME IInv, NEW r \in Requests, Live(r) = {}, Respond(r)
  PROVE  Kept
<1>1. Leave(r)
  BY DEF Respond
<1>2. PICK late \in {FALSE, clock[r] = "cut_off"} :
        \E reply \in Reply(Collected(r), late) : answer' = [answer EXCEPT ![r] = reply]
  BY DEF Respond
<1>3. late \in BOOLEAN
  BY <1>2
<1>4. Reply(Collected(r), late) \subseteq Replies
  BY <1>3, RepliesAreReplies
<1>5. answer' \in [Requests -> Replies]
  BY <1>2, <1>4 DEF IInv, TypeOK
<1> QED BY <1>1, <1>5, LeaveKeeps

LEMMA JoinCancelledKeeps ==
  ASSUME IInv, NEW r \in Requests, JoinCancelled(r)
  PROVE  Kept
<1>1. answer' \in [Requests -> Replies]
  BY DEF JoinCancelled, IInv, TypeOK, Replies
<1> QED BY <1>1, LeaveKeeps DEF JoinCancelled

\* Steps of a request that stays in execute: no task starts or ends in them.
LEMMA StayKeeps ==
  ASSUME IInv, NEW r \in Requests, phase[r] # "idle", phase'[r] # "idle",
         task' \in [Requests -> [Branches -> Tasks]],
         \A q \in Requests, b \in Branches : task'[q][b].st = task[q][b].st,
         phase' \in [Requests -> {"idle", "waiting", "expiring", "cancelling"}],
         \A q \in Requests \ {r} : phase'[q] = phase[q],
         clock' \in [Requests -> {"in_time", "cut_off"}],
         UNCHANGED <<breaker, permit, answer>>
  PROVE  Kept
<1>1. NoOrphans'
  BY DEF IInv, NoOrphans
<1> QED BY <1>1 DEF Kept, CircuitStep, IInv, TypeOK

LEMMA ExpireKeeps ==
  ASSUME IInv, NEW r \in Requests, Expire(r)
  PROVE  Kept
<1>1. /\ task' \in [Requests -> [Branches -> Tasks]]
      /\ \A q \in Requests, b \in Branches : task'[q][b].st = task[q][b].st
  BY CancellingKeepsTasks DEF Expire, IInv
<1>2. /\ phase[r] # "idle" /\ phase'[r] # "idle"
      /\ phase' \in [Requests -> {"idle", "waiting", "expiring", "cancelling"}]
      /\ \A q \in Requests \ {r} : phase'[q] = phase[q]
      /\ clock' \in [Requests -> {"in_time", "cut_off"}]
      /\ UNCHANGED <<breaker, permit, answer>>
  BY DEF Expire, IInv, TypeOK
<1> QED BY <1>1, <1>2, StayKeeps

LEMMA CancelKeeps ==
  ASSUME IInv, NEW r \in Requests, NEW why \in Disconnects, Cancel(r, why)
  PROVE  Kept
<1>1. /\ task' \in [Requests -> [Branches -> Tasks]]
      /\ \A q \in Requests, b \in Branches : task'[q][b].st = task[q][b].st
  BY CancellingKeepsTasks DEF Cancel, IInv, TypeOK
<1>2. /\ phase[r] # "idle" /\ phase'[r] # "idle"
      /\ phase' \in [Requests -> {"idle", "waiting", "expiring", "cancelling"}]
      /\ \A q \in Requests \ {r} : phase'[q] = phase[q]
      /\ clock' \in [Requests -> {"in_time", "cut_off"}]
      /\ UNCHANGED <<breaker, permit, answer>>
  BY DEF Cancel, IInv, TypeOK
<1> QED BY <1>1, <1>2, StayKeeps

LEMMA ClockAdvancesKeeps ==
  ASSUME IInv, NEW r \in Requests, ClockAdvances(r)
  PROVE  Kept
<1>1. clock' \in [Requests -> {"in_time", "cut_off"}]
  BY DEF ClockAdvances, IInv, TypeOK
<1> QED BY <1>1, StayKeeps DEF ClockAdvances, IInv, TypeOK

LEMMA TickKeeps ==
  ASSUME IInv, NEW b \in Branches, Tick(b)
  PROVE  Kept
<1>1. /\ breaker' = [c \in Branches |-> breaker'[c]]
      /\ breaker'[b] = Ticked(breaker[b])
      /\ \A c \in Branches \ {b} : breaker'[c] = breaker[c]
      /\ UNCHANGED <<permit, task, phase, clock, answer>>
  BY DEF Tick, IInv, TypeOK
<1>2. NoOrphans'
  BY <1>1 DEF IInv, NoOrphans
<1>3. ASSUME NEW c \in Branches PROVE CircuitStep(c)
  BY <1>1 DEF CircuitStep, Tick
<1> QED BY <1>1, <1>2, <1>3 DEF Kept, IInv, TypeOK

\* A step of one branch: it holds a permit after the step exactly when it runs.
LEMMA BranchKeeps ==
  ASSUME IInv, NEW r \in Requests, NEW b \in Branches, task[r][b].st # "none",
         task' \in [Requests -> [Branches -> Tasks]],
         \A q \in Requests, c \in Branches : q # r \/ c # b => task'[q][c] = task[q][c],
         permit' \in [Branches -> [Requests -> Permits]],
         \A q \in Requests, c \in Branches : q # r \/ c # b => permit'[c][q] = permit[c][q],
         permit'[b][r] # "none" <=> task'[r][b].st = "running",
         breaker' = [c \in Branches |-> breaker'[c]],
         \A c \in Branches \ {b} : breaker'[c] = breaker[c] /\ permit'[c] = permit[c],
         CircuitStep(b),
         UNCHANGED <<phase, clock, answer>>
  PROVE  Kept
<1>1. NoOrphans'
  <2>1. ASSUME NEW q \in Requests, NEW c \in Branches
        PROVE  /\ phase'[q] = "idle" => task'[q][c].st = "none"
               /\ permit'[c][q] # "none" <=> task'[q][c].st = "running"
    <3>1. CASE q = r /\ c = b
      BY <3>1 DEF IInv, NoOrphans
    <3>2. CASE q # r \/ c # b
      BY <3>2 DEF IInv, NoOrphans
    <3> QED BY <3>1, <3>2
  <2> QED BY <2>1 DEF NoOrphans
<1>2. \A c \in Branches : CircuitStep(c)
  BY DEF CircuitStep
<1> QED BY <1>1, <1>2 DEF Kept, IInv, TypeOK

LEMMA AdmittedKeeps ==
  ASSUME IInv, NEW r \in Requests, NEW b \in Branches, Admitted(r, b)
  PROVE  Kept
<1> USE DEF IInv
<1> DEFINE new == [task[r][b] EXCEPT !.st = "running"]
<1>1. task[r][b] \in Tasks
  BY DEF TypeOK
<1>2. new \in Tasks /\ new.st = "running"
  BY <1>1 DEF Tasks
<1>3. task' = [task EXCEPT ![r][b] = new]
  BY DEF Admitted, TypeOK
<1> HIDE DEF new
<1>4. /\ task' \in [Requests -> [Branches -> Tasks]] /\ task'[r][b].st = "running"
      /\ \A q \in Requests, c \in Branches : q # r \/ c # b => task'[q][c] = task[q][c]
  BY <1>2, <1>3 DEF TypeOK
<1>5. PermitFrom(breaker[b]) \in Permits \ {"none"}
  BY DEF PermitFrom, Permits
<1>6. /\ breaker'[b] = Acquired(breaker[b])
      /\ permit'[b] = [permit[b] EXCEPT ![r] = PermitFrom(breaker[b])]
      /\ permit' \in [Branches -> [Requests -> Permits]]
      /\ permit'[b][r] # "none"
      /\ \A q \in Requests, c \in Branches : q # r \/ c # b => permit'[c][q] = permit[c][q]
      /\ \A c \in Branches \ {b} : breaker'[c] = breaker[c] /\ permit'[c] = permit[c]
  <2> DEFINE p == PermitFrom(breaker[b])
             next == Acquired(breaker[b])
  <2>1. breaker' = [breaker EXCEPT ![b] = next] /\ permit' = [permit EXCEPT ![b][r] = p]
    BY DEF Admitted
  <2>2. p \in Permits /\ p # "none"
    BY <1>5
  <2> HIDE DEF p, next
  <2>3. /\ breaker'[b] = next /\ permit'[b] = [permit[b] EXCEPT ![r] = p]
        /\ permit' \in [Branches -> [Requests -> Permits]]
        /\ permit'[b][r] = p
        /\ \A q \in Requests, c \in Branches : q # r \/ c # b => permit'[c][q] = permit[c][q]
        /\ \A c \in Branches \ {b} : breaker'[c] = breaker[c] /\ permit'[c] = permit[c]
    BY <2>1, <2>2, OneCircuit
  <2> QED BY <2>2, <2>3 DEF p, next
<1>7. breaker' = [c \in Branches |-> breaker'[c]]
  BY DEF Admitted, TypeOK
<1>8. permit[b][r] = "none" /\ task[r][b].st # "none"
  BY DEF Admitted, NoOrphans
<1>9. CircuitStep(b)
  BY <1>6, <1>8 DEF CircuitStep, Acquires, Admitted
<1> QED BY <1>4, <1>6, <1>7, <1>8, <1>9, BranchKeeps DEF Admitted

LEMMA RefusedKeeps ==
  ASSUME IInv, NEW r \in Requests, NEW b \in Branches, Refused(r, b)
  PROVE  Kept
<1> USE DEF IInv
<1>1. /\ task' \in [Requests -> [Branches -> Tasks]] /\ task'[r][b].st = "done"
      /\ \A q \in Requests, c \in Branches : q # r \/ c # b => task'[q][c] = task[q][c]
  BY EndsKeepsTasks, OtherResults DEF Refused
<1>2. /\ breaker'[b] = Refresh(breaker[b]) /\ permit' = permit
      /\ \A c \in Branches \ {b} : breaker'[c] = breaker[c]
      /\ breaker' = [c \in Branches |-> breaker'[c]]
  BY DEF Refused, TypeOK
<1>3. permit[b][r] = "none" /\ task[r][b].st # "none"
  BY DEF Refused, NoOrphans
<1>4. permit \in [Branches -> [Requests -> Permits]]
  BY DEF TypeOK
<1>5. CircuitStep(b)
  BY <1>2 DEF CircuitStep
<1> QED BY <1>1, <1>2, <1>3, <1>4, <1>5, BranchKeeps DEF Refused

LEMMA NeverStartedKeeps ==
  ASSUME IInv, NEW r \in Requests, NEW b \in Branches, NeverStarted(r, b)
  PROVE  Kept
<1> USE DEF IInv
<1>1. /\ task' \in [Requests -> [Branches -> Tasks]] /\ task'[r][b].st = "done"
      /\ \A q \in Requests, c \in Branches : q # r \/ c # b => task'[q][c] = task[q][c]
  BY EndsKeepsTasks DEF NeverStarted
<1>2. breaker' = breaker /\ permit' = permit /\ breaker' = [c \in Branches |-> breaker'[c]]
  BY DEF NeverStarted, TypeOK
<1>3. permit[b][r] = "none" /\ task[r][b].st # "none"
  BY DEF NeverStarted, NoOrphans
<1>4. permit \in [Branches -> [Requests -> Permits]]
  BY DEF TypeOK
<1>5. CircuitStep(b)
  BY <1>2 DEF CircuitStep
<1> QED BY <1>1, <1>2, <1>3, <1>4, <1>5, BranchKeeps DEF NeverStarted

\* A branch that ran ends, with any result, and gives its permit back with any verdict.
LEMMA ReturnsKeeps ==
  ASSUME IInv, NEW r \in Requests, NEW b \in Branches, task[r][b].st = "running",
         NEW result \in BranchResults, NEW verdict \in Verdicts,
         Backs(result, verdict), Ends(r, b, result), Returns(r, b, verdict), UNCHANGED <<phase, clock, answer>>
  PROVE  Kept
<1> USE DEF IInv
<1>1. /\ task' \in [Requests -> [Branches -> Tasks]]
      /\ task'[r][b].st = "done" /\ task'[r][b].result = result
      /\ \A q \in Requests, c \in Branches : q # r \/ c # b => task'[q][c] = task[q][c]
  BY EndsKeepsTasks
<1>2. /\ breaker'[b] = Recorded(breaker[b], permit[b][r], verdict)
      /\ permit'[b] = [permit[b] EXCEPT ![r] = "none"]
      /\ permit' \in [Branches -> [Requests -> Permits]]
      /\ permit'[b][r] = "none"
      /\ \A q \in Requests, c \in Branches : q # r \/ c # b => permit'[c][q] = permit[c][q]
      /\ \A c \in Branches \ {b} : breaker'[c] = breaker[c] /\ permit'[c] = permit[c]
  BY OneCircuit DEF Returns, Permits
<1>3. breaker' = [c \in Branches |-> breaker'[c]]
  BY DEF Returns, TypeOK
<1>4. permit[b][r] # "none"
  BY DEF NoOrphans
<1>5. CircuitStep(b)
  BY <1>1, <1>2, <1>4 DEF CircuitStep, Records
<1> QED BY <1>1, <1>2, <1>3, <1>5, BranchKeeps

LEMMA OperationEndsKeeps ==
  ASSUME IInv, NEW r \in Requests, NEW b \in Branches, OperationEnds(r, b)
  PROVE  Kept
<1> DEFINE passed == clock[r] = "cut_off"
<1>1. PICK outcome \in Outcomes :
        Ends(r, b, ResultOf(outcome, passed)) /\ Returns(r, b, VerdictOf(outcome, passed))
  BY DEF OperationEnds
<1>2. passed \in BOOLEAN
  OBVIOUS
<1> HIDE DEF passed
<1>3. /\ ResultOf(outcome, passed) \in BranchResults /\ VerdictOf(outcome, passed) \in Verdicts
      /\ Backs(ResultOf(outcome, passed), VerdictOf(outcome, passed))
  BY <1>2, OutcomesAreReported
<1> QED BY <1>1, <1>3, ReturnsKeeps DEF OperationEnds

LEMMA BranchCancelledKeeps ==
  ASSUME IInv, NEW r \in Requests, NEW b \in Branches, BranchCancelled(r, b)
  PROVE  Kept
<1>1. task[r][b] \in Tasks /\ task[r][b].reason # ""
  BY DEF BranchCancelled, IInv, TypeOK
<1>2. task[r][b].reason \in {"application_deadline"} \cup Disconnects
  BY <1>1 DEF Tasks
<1>3. /\ CancelledBy(task[r][b].reason) \in BranchResults /\ "ignored" \in Verdicts
      /\ Backs(CancelledBy(task[r][b].reason), "ignored")
  BY <1>2, OtherResults DEF Verdicts, Backs
<1> QED BY <1>3, ReturnsKeeps DEF BranchCancelled

LEMMA NextKeeps == IInv /\ [Next]_vars => Kept
<1> SUFFICES ASSUME IInv, [Next]_vars PROVE Kept OBVIOUS
<1>1. ASSUME NEW r \in Requests, NEW mode \in PlannerModes, Start(r, mode) PROVE Kept
  BY <1>1, StartKeeps
<1>2. ASSUME NEW r \in Requests, Wake(r) PROVE Kept
  BY <1>2, RespondKeeps DEF Wake
<1>3. ASSUME NEW r \in Requests, Expire(r) PROVE Kept
  BY <1>3, ExpireKeeps
<1>4. ASSUME NEW r \in Requests, JoinExpired(r) PROVE Kept
  BY <1>4, RespondKeeps DEF JoinExpired
<1>5. ASSUME NEW r \in Requests, NEW why \in Disconnects, Cancel(r, why) PROVE Kept
  BY <1>5, CancelKeeps
<1>6. ASSUME NEW r \in Requests, JoinCancelled(r) PROVE Kept
  BY <1>6, JoinCancelledKeeps
<1>7. ASSUME NEW r \in Requests, NEW b \in Branches, Admitted(r, b) PROVE Kept
  BY <1>7, AdmittedKeeps
<1>8. ASSUME NEW r \in Requests, NEW b \in Branches, Refused(r, b) PROVE Kept
  BY <1>8, RefusedKeeps
<1>9. ASSUME NEW r \in Requests, NEW b \in Branches, NeverStarted(r, b) PROVE Kept
  BY <1>9, NeverStartedKeeps
<1>10. ASSUME NEW r \in Requests, NEW b \in Branches, OperationEnds(r, b) PROVE Kept
  BY <1>10, OperationEndsKeeps
<1>11. ASSUME NEW r \in Requests, NEW b \in Branches, BranchCancelled(r, b) PROVE Kept
  BY <1>11, BranchCancelledKeeps
<1>12. ASSUME NEW r \in Requests, ClockAdvances(r) PROVE Kept
  BY <1>12, ClockAdvancesKeeps
<1>13. ASSUME NEW b \in Branches, Tick(b) PROVE Kept
  BY <1>13, TickKeeps
<1>14. CASE UNCHANGED vars
  <2>1. NoOrphans'
    BY <1>14 DEF vars, IInv, NoOrphans
  <2>2. breaker' = [c \in Branches |-> breaker'[c]]
    BY <1>14 DEF vars, IInv, TypeOK
  <2> QED BY <1>14, <2>1, <2>2 DEF vars, IInv, TypeOK, Kept, CircuitStep
<1> QED BY <1>1, <1>2, <1>3, <1>4, <1>5, <1>6, <1>7, <1>8, <1>9, <1>10, <1>11, <1>12,
           <1>13, <1>14 DEF Next

----------------------------------------------------------------------------
(* The two circuits: their steps are those of a CircuitBreaker.             *)

LEMMA VectorSteps == Kept => [V!Next]_V!vars
<1>1. ASSUME CircuitStep("vector") PROVE [V!Next]_V!vars
  <2>1. ASSUME NEW r \in Requests, Acquires("vector", r) PROVE V!Acquire(r)
    BY <2>1 DEF Acquires, V!Acquire, Rejects, V!Rejects, PermitFrom, V!PermitFrom,
                Acquired, V!Acquired, Refresh, V!Refresh
  <2>2. ASSUME NEW r \in Requests, Records("vector", r) PROVE V!Finish(r)
    BY <2>2 DEF Records, V!Finish, V!Record, Verdicts, V!Verdicts, Recorded, V!Recorded,
                RecordedSuccess, V!RecordedSuccess, RecordedFailure, V!RecordedFailure,
                RecordedIgnored, V!RecordedIgnored, Opened, V!Opened
  <2> QED BY <1>1, <2>1, <2>2 DEF CircuitStep, V!Next, V!Snapshot, V!Tick, V!vars,
             Refresh, V!Refresh, Ticked, V!Ticked
<1> QED BY <1>1 DEF Kept, Branches

LEMMA GraphSteps == Kept => [G!Next]_G!vars
<1>1. ASSUME CircuitStep("graph") PROVE [G!Next]_G!vars
  <2>1. ASSUME NEW r \in Requests, Acquires("graph", r) PROVE G!Acquire(r)
    BY <2>1 DEF Acquires, G!Acquire, Rejects, G!Rejects, PermitFrom, G!PermitFrom,
                Acquired, G!Acquired, Refresh, G!Refresh
  <2>2. ASSUME NEW r \in Requests, Records("graph", r) PROVE G!Finish(r)
    BY <2>2 DEF Records, G!Finish, G!Record, Verdicts, G!Verdicts, Recorded, G!Recorded,
                RecordedSuccess, G!RecordedSuccess, RecordedFailure, G!RecordedFailure,
                RecordedIgnored, G!RecordedIgnored, Opened, G!Opened
  <2> QED BY <1>1, <2>1, <2>2 DEF CircuitStep, G!Next, G!Snapshot, G!Tick, G!vars,
             Refresh, G!Refresh, Ticked, G!Ticked
<1> QED BY <1>1 DEF Kept, Branches

----------------------------------------------------------------------------
LEMMA InitHolds == Init => IInv
<1> SUFFICES ASSUME Init PROVE IInv OBVIOUS
<1>1. V!IInv
  <2>1. V!Init BY DEF Init, V!Init, NewBreaker, V!NewBreaker, Branches
  <2> QED BY <2>1, CircuitLimits, V!InitHolds DEF V!InitHolds
<1>2. G!IInv
  <2>1. G!Init BY DEF Init, G!Init, NewBreaker, G!NewBreaker, Branches
  <2> QED BY <2>1, CircuitLimits, G!InitHolds DEF G!InitHolds
<1>3. TypeOK
  <2>1. NewBreaker \in Breakers
    BY CircuitLimits DEF NewBreaker, Breakers, CircuitState
  <2>2. NoTask \in Tasks
    BY DEF NoTask, Tasks
  <2> QED BY <2>1, <2>2 DEF Init, TypeOK, Permits, Replies
<1>4. NoOrphans
  BY DEF Init, NoOrphans, NoTask
<1> QED BY <1>1, <1>2, <1>3, <1>4 DEF IInv

LEMMA IInvIsInductive == IInv /\ [Next]_vars => IInv'
<1> SUFFICES ASSUME IInv, [Next]_vars PROVE IInv' OBVIOUS
<1>1. Kept
  BY NextKeeps
<1>2. V!IInv'
  BY <1>1, VectorSteps, CircuitLimits, V!NextKeeps DEF V!NextKeeps, IInv
<1>3. G!IInv'
  BY <1>1, GraphSteps, CircuitLimits, G!NextKeeps DEF G!NextKeeps, IInv
<1>4. breaker'["vector"] \in Breakers /\ breaker'["graph"] \in Breakers
  BY <1>2, <1>3 DEF V!IInv, V!TypeOK, V!Breakers, V!CircuitState, G!IInv, G!TypeOK,
     G!Breakers, G!CircuitState, Breakers, CircuitState
<1>5. breaker' \in [Branches -> Breakers]
  BY <1>1, <1>4 DEF Kept, Branches
<1> QED BY <1>1, <1>2, <1>3, <1>5 DEF IInv, TypeOK, Kept

\* Types, tasks, permits and the invariants of both circuits hold together.
THEOREM Invariance == Safety => []IInv
<1> QED BY InitHolds, IInvIsInductive, PTL DEF Safety

\* Contexts, results, replies and circuits are what core/models.py and states.py
\* let them be, for any requests, modes, codes and limits.
THEOREM TypeCorrect == Safety => []TypeOK
<1>1. IInv => TypeOK BY DEF IInv
<1> QED BY Invariance, <1>1, PTL

\* "Full child-task cleanup" (docs/runtime.md): when execute has ended, by an answer, a
\* deadline or a cancellation at any point, no task of the request is left, and a
\* permit of a circuit is held by a running branch and by no other.
THEOREM NoTaskIsLeft == Safety => []NoOrphans
<1>1. IInv => NoOrphans BY DEF IInv
<1> QED BY Invariance, <1>1, PTL

\* Both circuits of the engine are a CircuitBreaker whose calls are the requests: no
\* interleaving of branches, deadlines and cancellations uses one as its own
\* specification does not allow (executor.py, _run_branch).
THEOREM CircuitsAreBreakers == Safety => VectorCircuit!Safety /\ GraphCircuit!Safety
<1>1. Init => VectorCircuit!Init /\ GraphCircuit!Init
  BY DEF Init, VectorCircuit!Init, GraphCircuit!Init, NewBreaker, VectorCircuit!NewBreaker,
         GraphCircuit!NewBreaker, Branches
<1>2. IInv /\ [Next]_vars => [VectorCircuit!Next]_VectorCircuit!vars
  <2>1. [V!Next]_V!vars => [VectorCircuit!Next]_VectorCircuit!vars
    BY DEF V!Next, V!vars, V!Acquire, V!Finish, V!Record, V!Snapshot, V!Tick, V!Verdicts,
       V!Rejects, V!PermitFrom, V!Acquired, V!Refresh, V!Recorded, V!RecordedSuccess,
       V!RecordedFailure, V!RecordedIgnored, V!Opened, V!Ticked,
       VectorCircuit!Next, VectorCircuit!vars, VectorCircuit!Acquire, VectorCircuit!Finish,
       VectorCircuit!Record, VectorCircuit!Snapshot, VectorCircuit!Tick, VectorCircuit!Verdicts,
       VectorCircuit!Rejects, VectorCircuit!PermitFrom, VectorCircuit!Acquired,
       VectorCircuit!Refresh, VectorCircuit!Recorded, VectorCircuit!RecordedSuccess,
       VectorCircuit!RecordedFailure, VectorCircuit!RecordedIgnored, VectorCircuit!Opened,
       VectorCircuit!Ticked
  <2> QED BY <2>1, NextKeeps, VectorSteps
<1>3. IInv /\ [Next]_vars => [GraphCircuit!Next]_GraphCircuit!vars
  <2>1. [G!Next]_G!vars => [GraphCircuit!Next]_GraphCircuit!vars
    BY DEF G!Next, G!vars, G!Acquire, G!Finish, G!Record, G!Snapshot, G!Tick, G!Verdicts,
       G!Rejects, G!PermitFrom, G!Acquired, G!Refresh, G!Recorded, G!RecordedSuccess,
       G!RecordedFailure, G!RecordedIgnored, G!Opened, G!Ticked,
       GraphCircuit!Next, GraphCircuit!vars, GraphCircuit!Acquire, GraphCircuit!Finish,
       GraphCircuit!Record, GraphCircuit!Snapshot, GraphCircuit!Tick, GraphCircuit!Verdicts,
       GraphCircuit!Rejects, GraphCircuit!PermitFrom, GraphCircuit!Acquired,
       GraphCircuit!Refresh, GraphCircuit!Recorded, GraphCircuit!RecordedSuccess,
       GraphCircuit!RecordedFailure, GraphCircuit!RecordedIgnored, GraphCircuit!Opened,
       GraphCircuit!Ticked
  <2> QED BY <2>1, NextKeeps, GraphSteps
<1> QED BY <1>1, <1>2, <1>3, Invariance, PTL DEF Safety, VectorCircuit!Safety, GraphCircuit!Safety

\* What is proved of one breaker holds of both, among all the branches that share them:
\* one probe at a time, a count that agrees with the state, and an open window that late
\* branches do not disturb (states.py, executor.py).
THEOREM CircuitsKeepPromises ==
  Safety => /\ [](VectorCircuit!SingleProbe /\ VectorCircuit!CountMatchesState)
            /\ [](GraphCircuit!SingleProbe /\ GraphCircuit!CountMatchesState)
            /\ VectorCircuit!WindowUndisturbed /\ GraphCircuit!WindowUndisturbed
<1>1. /\ V!SingleProbe <=> VectorCircuit!SingleProbe
      /\ V!CountMatchesState <=> VectorCircuit!CountMatchesState
      /\ G!SingleProbe <=> GraphCircuit!SingleProbe
      /\ G!CountMatchesState <=> GraphCircuit!CountMatchesState
  BY DEF V!SingleProbe, V!ProbeHolders, V!CountMatchesState, VectorCircuit!SingleProbe,
     VectorCircuit!ProbeHolders, VectorCircuit!CountMatchesState, G!SingleProbe,
     G!ProbeHolders, G!CountMatchesState, GraphCircuit!SingleProbe,
     GraphCircuit!ProbeHolders, GraphCircuit!CountMatchesState
<1>2. Safety => V!Safety /\ G!Safety
  <2>1. Init => V!Init /\ G!Init
    BY DEF Init, V!Init, G!Init, NewBreaker, V!NewBreaker, G!NewBreaker, Branches
  <2>2. IInv /\ [Next]_vars => [V!Next]_V!vars /\ [G!Next]_G!vars
    BY NextKeeps, VectorSteps, GraphSteps
  <2> QED BY <2>1, <2>2, Invariance, PTL DEF Safety, V!Safety, G!Safety
<1>3. V!Safety => []V!SingleProbe /\ []V!CountMatchesState /\ V!WindowUndisturbed
  BY CircuitLimits, V!ProbeIsSingle, V!CountIsRight, V!WindowIsUndisturbed, PTL
     DEF V!ProbeIsSingle, V!CountIsRight, V!WindowIsUndisturbed
<1>4. G!Safety => []G!SingleProbe /\ []G!CountMatchesState /\ G!WindowUndisturbed
  BY CircuitLimits, G!ProbeIsSingle, G!CountIsRight, G!WindowIsUndisturbed, PTL
     DEF G!ProbeIsSingle, G!CountIsRight, G!WindowIsUndisturbed
<1>5. /\ V!WindowUndisturbed => VectorCircuit!WindowUndisturbed
      /\ G!WindowUndisturbed => GraphCircuit!WindowUndisturbed
  BY PTL DEF V!WindowUndisturbed, VectorCircuit!WindowUndisturbed, V!vars, VectorCircuit!vars,
     G!WindowUndisturbed, GraphCircuit!WindowUndisturbed, G!vars, GraphCircuit!vars
<1> QED BY <1>1, <1>2, <1>3, <1>4, <1>5, PTL

----------------------------------------------------------------------------
\* A verdict raises the count or the window only as a failure, and lowers the count only
\* as a success.
LEMMA VerdictsCount ==
  ASSUME NEW b \in Breakers, NEW p \in {"plain", "probe"}, NEW v \in Verdicts
  PROVE  LET after == Recorded(b, p, v)
         IN  /\ after.failures > b.failures \/ after.left > b.left => v = "failure"
             /\ after.failures < b.failures => v = "success"
<1>1. CASE v = "success"
  <2> DEFINE cleared == [b EXCEPT !.state = "closed", !.failures = 0, !.left = 0]
  <2>1. Recorded(b, p, v) \in {[cleared EXCEPT !.probe = FALSE], cleared, b}
    BY <1>1 DEF Recorded, RecordedSuccess
  <2>2. cleared.failures = 0 /\ cleared.left = 0
        /\ [cleared EXCEPT !.probe = FALSE].failures = 0 /\ [cleared EXCEPT !.probe = FALSE].left = 0
    BY DEF Breakers
  <2>3. b.failures \in Nat /\ b.left \in Nat
    BY CircuitLimits DEF Breakers
  <2> HIDE DEF cleared
  <2>4. /\ Recorded(b, p, v).failures \in {0, b.failures}
        /\ Recorded(b, p, v).left \in {0, b.left}
    BY <2>1, <2>2
  <2> QED BY <1>1, <2>3, <2>4
<1>2. CASE v = "failure"
  <2> DEFINE counted == [b EXCEPT !.failures = @ + 1]
             ended == [b EXCEPT !.probe = FALSE]
  <2>1. Recorded(b, p, v) \in {Opened(ended), Opened(counted), counted, b}
    BY <1>2 DEF Recorded, RecordedFailure
  <2>2. /\ counted.failures = b.failures + 1 /\ Opened(counted).failures = b.failures + 1
        /\ Opened(ended).failures = b.failures
    BY DEF Opened, Breakers
  <2> HIDE DEF counted, ended
  <2> QED BY <1>2, <2>1, <2>2, CircuitLimits DEF Breakers
<1>3. CASE v = "ignored"
  BY <1>3, CircuitLimits DEF Recorded, RecordedIgnored, Breakers
<1> QED BY <1>1, <1>2, <1>3 DEF Verdicts

\* A circuit is charged, and forgives, only on the evidence of what a branch reports in
\* the same step (_run_branch decides on both separately).
THEOREM BlameIsEvident == Safety => BlamedOnEvidence
<1> DEFINE Reported(b) == {task'[r][b].result : r \in {q \in Requests :
                              task[q][b].st = "running" /\ task'[q][b].st = "done"}}
           Blamed(b) ==
             /\ breaker'[b].failures > breaker[b].failures \/ breaker'[b].left > breaker[b].left
                  => \E res \in Reported(b) : res.failure_origin = "backend_native"
             /\ breaker'[b].failures < breaker[b].failures
                  => \E res \in Reported(b) : res.status = "succeeded"
<1>1. ASSUME IInv, Kept, NEW b \in Branches PROVE Blamed(b)
  <2>1. breaker[b] \in Breakers
    BY <1>1 DEF IInv, TypeOK
  <2>2. ASSUME NEW r \in Requests, Records(b, r) PROVE Blamed(b)
    <3>1. permit[b][r] \in {"plain", "probe"}
      BY <1>1, <2>2 DEF IInv, TypeOK, Permits, Records
    <3>2. PICK verdict \in Verdicts :
            /\ breaker'[b] = Recorded(breaker[b], permit[b][r], verdict)
            /\ Backs(task'[r][b].result, verdict)
      BY <2>2 DEF Records
    <3>3. task'[r][b].result \in Reported(b)
      BY <2>2 DEF Records
    <3>4. /\ breaker'[b].failures > breaker[b].failures \/ breaker'[b].left > breaker[b].left
               => verdict = "failure"
          /\ breaker'[b].failures < breaker[b].failures => verdict = "success"
      BY <2>1, <3>1, <3>2, VerdictsCount
    <3> HIDE DEF Reported
    <3> QED BY <3>2, <3>3, <3>4 DEF Backs
  <2>3. ASSUME breaker'[b] \in {Acquired(breaker[b]), Refresh(breaker[b]), breaker[b]}
        PROVE  Blamed(b)
    <3>1. breaker'[b].failures = breaker[b].failures /\ breaker'[b].left = breaker[b].left
      BY <2>1, <2>3 DEF Acquired, Refresh, Breakers
    <3> HIDE DEF Reported
    <3> QED BY <2>1, <3>1, CircuitLimits DEF Breakers
  <2>4. ASSUME breaker[b].left > 0, breaker'[b] = Ticked(breaker[b])
        PROVE  Blamed(b)
    <3>1. breaker'[b].failures = breaker[b].failures /\ breaker'[b].left = breaker[b].left - 1
      BY <2>1, <2>4 DEF Ticked, Breakers
    <3> HIDE DEF Reported
    <3> QED BY <2>1, <3>1, CircuitLimits DEF Breakers
  <2> QED BY <1>1, <2>2, <2>3, <2>4 DEF Kept, CircuitStep, Acquires
<1>2. IInv /\ [Next]_vars => [\A b \in Branches : Blamed(b)]_vars
  BY <1>1, NextKeeps
<1> QED BY <1>2, Invariance, PTL DEF Safety, BlamedOnEvidence

----------------------------------------------------------------------------
\* What a reply says of the results it was put together from.
Fits(reply, results, late) ==
  LET good == {b \in DOMAIN results : results[b].status = "succeeded"}
      fatal == {b \in DOMAIN results : results[b].error_code \in Fatal}
  IN  /\ fatal # {} => reply \in Fatal
      /\ good # {} /\ fatal = {}
           => \/ reply \in {"complete", "partial"}
              \/ late /\ reply = "DEADLINE_EXCEEDED"
      /\ reply = "complete" => good = DOMAIN results /\ good # {}
      /\ reply = "partial" => good # {} /\ good # DOMAIN results

LEMMA ReplyFits ==
  ASSUME NEW results, NEW late \in BOOLEAN, NEW reply \in Reply(results, late)
  PROVE  Fits(reply, results, late)
<1> DEFINE good == {b \in DOMAIN results : results[b].status = "succeeded"}
           fatal == {b \in DOMAIN results : results[b].error_code \in Fatal}
           statuses == {results[b].status : b \in DOMAIN results}
           codes == {results[b].error_code : b \in DOMAIN results}
<1>1. /\ codes \cap Fatal # {} <=> fatal # {}
      /\ "succeeded" \in statuses <=> good # {}
      /\ "succeeded" \in statuses /\ statuses = {"succeeded"} => good = DOMAIN results
      /\ "succeeded" \in statuses /\ statuses # {"succeeded"} => good # DOMAIN results
  OBVIOUS
<1>2. reply \in IF codes \cap Fatal # {} THEN codes \cap Fatal
                ELSE IF "succeeded" \in statuses
                THEN {IF late THEN "DEADLINE_EXCEEDED"
                      ELSE IF statuses = {"succeeded"} THEN "complete" ELSE "partial"}
                ELSE IF statuses \cap {"timed_out", "cancelled"} # {} THEN {"DEADLINE_EXCEEDED"}
                ELSE IF codes = {"MODE_UNAVAILABLE"} THEN codes
                ELSE {"DEPENDENCY_UNAVAILABLE"}
  BY DEF Reply
<1> HIDE DEF good, fatal, statuses, codes
<1>3. reply \in {"complete", "partial"} => reply \notin Fatal /\ reply # "MODE_UNAVAILABLE"
  BY DEF Fatal
<1>4. /\ fatal # {} => reply \in Fatal
      /\ good # {} /\ fatal = {}
           => reply \in {"complete", "partial"} \/ (late /\ reply = "DEADLINE_EXCEEDED")
      /\ reply = "complete" => good = DOMAIN results /\ good # {}
      /\ reply = "partial" => good # {} /\ good # DOMAIN results
  BY <1>1, <1>2, <1>3
<1> QED BY <1>4 DEF good, fatal, Fits

\* Only Respond answers anything but a cancellation, and it answers one request.
LEMMA AnswersAreReplies ==
  ASSUME TypeOK, [Next]_vars, NEW r \in Requests,
         answer'[r] # answer[r], answer'[r] # "none", answer'[r] # "cancelled"
  PROVE  \E late \in {FALSE, clock[r] = "cut_off"} : answer'[r] \in Reply(Collected(r), late)
<1>1. ASSUME NEW q \in Requests, NEW mode \in PlannerModes, Start(q, mode) PROVE FALSE
  BY <1>1 DEF Start, TypeOK
<1>2. ASSUME NEW q \in Requests, JoinCancelled(q) PROVE FALSE
  BY <1>2 DEF JoinCancelled, TypeOK
<1>3. ASSUME NEW q \in Requests, Respond(q)
      PROVE  \E late \in {FALSE, clock[r] = "cut_off"} : answer'[r] \in Reply(Collected(r), late)
  <2>1. PICK late \in {FALSE, clock[q] = "cut_off"} :
          \E reply \in Reply(Collected(q), late) : answer' = [answer EXCEPT ![q] = reply]
    BY <1>3 DEF Respond
  <2>2. q = r /\ answer'[r] \in Reply(Collected(q), late)
    BY <2>1 DEF TypeOK
  <2> QED BY <2>1, <2>2
<1>4. ASSUME UNCHANGED answer PROVE FALSE
  BY <1>4
<1> QED BY <1>1, <1>2, <1>3, <1>4
    DEF Next, vars, Wake, Expire, JoinExpired, Cancel, Admitted, Refused, NeverStarted,
        OperationEnds, BranchCancelled, ClockAdvances, Tick

\* An integrity failure is never served, a branch that succeeded is served unless the
\* deadline has passed, and complete means that every branch succeeded
\* (_raise_if_no_usable_branch, _rank_execution), for any requests and error codes.
THEOREM AnswersFit == Safety => AnswerFitsResults
<1> DEFINE Answered(r) ==
             answer'[r] # answer[r] /\ answer'[r] # "none" /\ answer'[r] # "cancelled"
<1>1. ASSUME TypeOK, [Next]_vars, NEW r \in Requests, Answered(r)
      PROVE  Fits(answer'[r], Collected(r), clock[r] = "cut_off")
  <2>1. PICK late \in {FALSE, clock[r] = "cut_off"} : answer'[r] \in Reply(Collected(r), late)
    BY <1>1, AnswersAreReplies
  <2>2. late \in BOOLEAN /\ (late => clock[r] = "cut_off")
    BY <2>1
  <2>3. Fits(answer'[r], Collected(r), late)
    BY <2>1, <2>2, ReplyFits
  <2> QED BY <2>2, <2>3 DEF Fits
<1>2. TypeOK /\ [Next]_vars =>
        [\A r \in Requests : Answered(r) => Fits(answer'[r], Collected(r), clock[r] = "cut_off")]_vars
  BY <1>1
<1> QED BY <1>2, TypeCorrect, PTL DEF Safety, AnswerFitsResults, Fits

=============================================================================
