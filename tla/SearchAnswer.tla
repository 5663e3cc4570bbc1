---------------------------- MODULE SearchAnswer ----------------------------
(***************************************************************************)
(* One search through an engine (core/engine.py), from the request to the  *)
(* answer or the error: what is refused, which plan is chosen with the     *)
(* time that is left, which branches run and with what result, and the     *)
(* answer that is put together from them and must pass the validators of   *)
(* its own models (core/models.py).  How the branches race is the subject  *)
(* of RequestScheduler and how their lists are fused that of Fusion;       *)
(* here a branch has a result and a list is the set of its chunks.         *)
(*                                                                         *)
(* The single-store engines pass the same points as the dual one; they     *)
(* keep no circuits, no kill switches and no state machine, and what is    *)
(* called the scheduler's part of a trace is absent from theirs.           *)
(***************************************************************************)
EXTENDS Planning

CONSTANTS
  Calls,      \* the calls with their circumstances, of which the valid ones are made
  Spares,     \* how long before the branch cutoff a rule plan may be chosen
  Found,      \* the sets of chunks a branch may find
  Circuits    \* what a circuit may be before and after a branch that holds its permit

VARIABLES
  call,       \* the request, the engine, the kill switches, the query
  now,        \* elapsed time
  events,     \* the states of the request, with their times
  decision,   \* the PlannerDecision, or <<>>
  branches,   \* the result of each branch that ran
  answer,     \* the SearchResponse, or <<>>
  outcome     \* "" until "complete", "partial", an error code or "validation_error"

vars == <<call, now, events, decision, branches, answer, outcome>>

Kinds == {"vector", "graph"}
BranchesOf(mode) == CASE mode = "vector" -> {"vector"} [] mode = "graph" -> {"graph"}
                      [] mode = "fixed_hybrid" -> Kinds

----------------------------------------------------------------------------
(* The request.  depth and profile are those of the benchmark's entries,    *)
(* 0 and -1 for none; planId is 0 when none is given.                       *)

RequestValid(c) ==
  /\ c.mode = "cost_aware" => c.topK = 10
  /\ c.planId # 0 => c.mode = "fixed_hybrid" /\ c.planId \in {4, 5, 6, 8}
  /\ c.topK \in 1 .. 50 /\ c.budget \in Budgets

\* benchmark_graph_search and benchmark_plan_search, before the request runs.
BenchmarkRefusal(c) ==
  IF c.depth # 0 /\ (c.mode # "graph" \/ c.depth \notin 1 .. 3) THEN "INVALID_REQUEST"
  ELSE IF c.profile = -1 THEN ""
  ELSE IF c.profile \notin Enabled \/ Catalog[c.profile].rerank THEN "PLAN_INVARIANT_VIOLATION"
  ELSE IF c.mode # ModeOf(Catalog[c.profile]) THEN "INVALID_REQUEST"
  ELSE IF c.mode = "fixed_hybrid" /\ c.planId # c.profile THEN "INVALID_REQUEST"
  ELSE ""

\* The kill switches and modes of _execute_request; one that lets the benchmark by.
DualRefusalUnguarded(c) == IF c.mode = "cost_aware" /\ ~c.force THEN "MODE_UNAVAILABLE" ELSE ""

DualRefusal(c) ==
  IF c.force /\ (c.depth # 0 \/ c.profile # -1) THEN "MODE_UNAVAILABLE"
  ELSE IF c.depth # 0 /\ c.profile # -1 THEN "PLAN_INVARIANT_VIOLATION"
  ELSE IF c.mode = "cost_aware" /\ ~c.force THEN "MODE_UNAVAILABLE"
  ELSE ""

Refusal(c) ==
  CASE c.engine = "vector" -> IF c.mode \in {"vector", "rule"} THEN "" ELSE "MODE_UNAVAILABLE"
    [] c.engine = "graph"  -> IF c.mode = "graph" THEN "" ELSE "MODE_UNAVAILABLE"
    [] c.engine = "dual"   -> IF BenchmarkRefusal(c) # "" THEN BenchmarkRefusal(c) ELSE DualRefusal(c)

\* The mode the request is analyzed for.
Effective(c) ==
  IF c.profile # -1 THEN ModeOf(Catalog[c.profile])
  ELSE IF c.force THEN "vector"
  ELSE c.mode

Init ==
  /\ call \in {c \in Calls : RequestValid(c)}
  /\ now = 0 /\ events = <<[state |-> "received", at |-> 0]>>
  /\ decision = <<>> /\ branches = <<>> /\ answer = <<>> /\ outcome = ""

----------------------------------------------------------------------------
(* The steps.                                                               *)

State == events[Len(events)].state
Cutoff == BranchCutoff(call.budget)
Late(t) == t >= Cutoff

Follows(state) ==
  CASE state = "received"  -> {"analyzing"}
    [] state = "analyzing" -> {"planning", "failed"}
    [] state = "planning"  -> {"executing", "failed"}
    [] state = "executing" -> {"fusing", "failed"}
    [] state = "fusing"    -> {"reranking", "complete", "partial", "failed"}
    [] state = "reranking" -> {"complete", "partial", "failed"}
    [] OTHER -> {}

\* transition, always legal where the engine calls it.
Enters(state, t) ==
  /\ state \in Follows(State)
  /\ events' = Append(events, [state |-> state, at |-> t])

\* An error leaves; fail_if_possible.
Fails(code, t) ==
  /\ outcome' = code
  /\ events' = IF "failed" \in Follows(State)
               THEN Append(events, [state |-> "failed", at |-> t]) ELSE events

Running(state) == outcome = "" /\ State = state

Receive ==
  /\ Running("received")
  /\ IF Refusal(call) # "" THEN Fails(Refusal(call), now)
     ELSE Enters("analyzing", now) /\ UNCHANGED outcome
  /\ UNCHANGED <<call, now, decision, branches, answer>>

\* The graph engine embeds nothing and looks at the deadline when it plans; the others
\* find a late analysis before they look at the language.
Analyze(t) ==
  LET unsupported == ~call.language /\ Effective(call) \notin {"vector", "rule"}
      code == IF Late(t) /\ call.engine # "graph" THEN "DEADLINE_EXCEEDED"
              ELSE IF unsupported THEN "MODE_UNAVAILABLE" ELSE "" IN
  /\ Running("analyzing") /\ t >= now
  /\ now' = t
  /\ IF code # "" THEN Fails(code, t) ELSE Enters("planning", t) /\ UNCHANGED outcome
  /\ UNCHANGED <<call, decision, branches, answer>>

\* The decision with left time; fixed_hybrid without a plan is plan 5.
Chosen(c, left) ==
  LET mode == Effective(c) IN
  IF c.profile # -1 THEN ProfileDecision(c.mode, c.profile, c.topK, left)
  ELSE CASE mode = "rule" ->
              RuleDecision([language |-> c.language, signals |-> c.signals, topK |-> c.topK],
                           left, c.engine = "dual" /\ ~c.open)
         [] mode = "vector" -> VectorDecision(c.mode, c.topK, left, c.force /\ c.mode # "vector")
         [] mode = "graph" -> GraphDecision(c.topK, left, c.depth)
         [] mode = "fixed_hybrid" ->
              FixedDecision(IF c.planId = 0 THEN 5 ELSE c.planId, c.topK, left)

Plan(t) ==
  /\ Running("planning") /\ t >= now
  /\ now' = t
  /\ IF Late(t) THEN Fails("DEADLINE_EXCEEDED", t) /\ UNCHANGED decision
     ELSE /\ decision' = Chosen(call, Left(Cutoff, t))
          /\ Enters("executing", t) /\ UNCHANGED outcome
  /\ UNCHANGED <<call, branches, answer>>

----------------------------------------------------------------------------
(* The branches.  A result is how a branch ended, the chunks it found, its   *)
(* circuit before and after it, and its boundaries on the clock of the       *)
(* request; NoTime and NoCircuit stand where the code has None.              *)

NoTime == -1
NoCircuit == [before |-> "", after |-> ""]

Codes == {"MODE_UNAVAILABLE", "DEPENDENCY_UNAVAILABLE", "RETRIEVAL_FAILED", "CORPUS_INCONSISTENT"}
FatalCodes == {"CORPUS_INCONSISTENT", "MODEL_INCOMPATIBLE", "PLAN_INVARIANT_VIOLATION", "INTERNAL_ERROR"}

\* The exits of _run_branch: a status with its code, the origins of a failure and of a
\* timeout, and the reason of a cancellation.
Exit(status, code, origin, timeout, reason) ==
  [status |-> status, code |-> code, origin |-> origin, timeout |-> timeout, reason |-> reason]

Success == Exit("succeeded", "", "", "", "")
Expiry == Exit("timed_out", "", "application", "application_deadline", "application_deadline")
ClientTimeout == Exit("timed_out", "", "backend_native", "backend_client", "")
CircuitOpen == Exit("failed", "MODE_UNAVAILABLE", "circuit_open", "", "")
Failure(code) ==
  Exit("failed", code, IF code \in {"DEPENDENCY_UNAVAILABLE", "RETRIEVAL_FAILED"}
                       THEN "backend_native" ELSE "application", "", "")
\* An operation that raises CancelledError though nobody cancelled its branch.
Cancellation == Exit("cancelled", "", "client", "", "parent_cancelled")

Result(ending, hits, circuit, span) ==
  [status |-> ending.status, code |-> ending.code, origin |-> ending.origin, timeout |-> ending.timeout,
   reason |-> ending.reason, hits |-> hits, circuit |-> circuit,
   started |-> span.started, ended |-> span.ended, latency |-> span.latency]

\* The boundaries of a branch that runs between a and z.
Span(start, end) == [started |-> start, ended |-> end, latency |-> end - start]
Spans(a, z) == {Span(a, a), Span(a, z), Span(z, z)}

\* A branch succeeds before the cutoff.  One that expires before its first turn, or before
\* it has a permit, has met no circuit; one that is refused takes one look at its circuit.
DualResults(a, z) ==
  {Result(Success, hits, c, s) : hits \in Found, c \in Circuits, s \in {s \in Spans(a, z) : ~Late(s.ended)}}
    \cup {Result(Expiry, {}, c, s) : c \in Circuits \cup {NoCircuit}, s \in Spans(a, z)}
    \cup {Result(CircuitOpen, {}, [before |-> c.after, after |-> c.after], s) :
            c \in Circuits, s \in Spans(a, z)}
    \cup {Result(ending, {}, c, s) : ending \in {ClientTimeout, Cancellation} \cup {Failure(code) : code \in Codes},
                                   c \in Circuits, s \in Spans(a, z)}

\* A single-store engine measures its branch and has no boundaries and no circuit.
SingleResults(a, z) ==
  LET span == [started |-> NoTime, ended |-> NoTime, latency |-> z - a] IN
  {Result(Success, hits, NoCircuit, span) : hits \in Found}
    \cup {Result(ending, {}, NoCircuit, span) :
            ending \in {Expiry, ClientTimeout, Cancellation} \cup {Failure(code) : code \in Codes}}

Results(a, z) == IF call.engine = "dual" THEN DualResults(a, z) ELSE SingleResults(a, z)

Succeeded(run) == {b \in DOMAIN run : run[b].status = "succeeded"}

\* _raise_if_no_usable_branch, and what the single-store engines raise.
Unusable(run) ==
  LET codes == {run[b].code : b \in DOMAIN run} IN
  IF codes \cap FatalCodes # {} THEN CHOOSE code \in codes \cap FatalCodes : TRUE
  ELSE IF Succeeded(run) # {} THEN ""
  ELSE IF \E b \in DOMAIN run : run[b].status \in {"timed_out", "cancelled"} THEN "DEADLINE_EXCEEDED"
  ELSE IF codes = {"MODE_UNAVAILABLE"} THEN "MODE_UNAVAILABLE"
  ELSE "DEPENDENCY_UNAVAILABLE"

\* The one branch of a single-store engine raises its own code, or its CancelledError.
Raised(run) ==
  IF call.engine = "dual" THEN Unusable(run)
  ELSE LET result == run[CHOOSE b \in DOMAIN run : TRUE] IN
       IF result.status = "timed_out" THEN "DEADLINE_EXCEEDED"
       ELSE IF result.status = "cancelled" THEN "cancelled" ELSE result.code

\* A branch that succeeds does so before the cutoff.
Execute(run, t) ==
  /\ Running("executing") /\ t >= now
  /\ Late(t) => Succeeded(run) # DOMAIN run
  /\ branches' = run /\ now' = t
  /\ IF Raised(run) # "" THEN Fails(Raised(run), t) ELSE Enters("fusing", t) /\ UNCHANGED outcome
  /\ UNCHANGED <<call, decision, answer>>

----------------------------------------------------------------------------
(* The answer.                                                              *)

\* The counts of weighted_rrf_v1, or <<>> when one source is annotated.
HitCount(branch) == IF branch \in Succeeded(branches) THEN Cardinality(branches[branch].hits) ELSE 0
Candidate == UNION {branches[b].hits : b \in Succeeded(branches)}
ResultCount == Smaller(call.topK, Cardinality(Candidate))

FusionTrace ==
  IF decision.effective # "fixed_hybrid" THEN <<>>
  ELSE <<[inputs |-> [b \in Kinds |-> HitCount(b)],
          output |-> ResultCount,
          duplicates |-> IF Kinds = Succeeded(branches)
                         THEN Cardinality(branches["vector"].hits \cap branches["graph"].hits) ELSE 0,
          missing |-> Kinds \ Succeeded(branches)]>>

\* The first branch of a hybrid that is not there, and why.
Fallback ==
  IF decision.effective # "fixed_hybrid" \/ Succeeded(branches) = Kinds THEN <<>>
  ELSE LET b == IF "vector" \in Succeeded(branches) THEN "graph" ELSE "vector" IN
       <<b, IF branches[b].code # "" THEN branches[b].code ELSE branches[b].status>>

\* How far apart the branches started; a skew over the branches that ended well.
Starts(run) == {run[b].started : b \in DOMAIN run} \ {NoTime}
Latest(times) == CHOOSE s \in times : \A r \in times : s >= r
Earliest(times) == CHOOSE s \in times : \A r \in times : s <= r

SkewOfSucceeded(run) ==
  LET starts == {run[b].started : b \in Succeeded(run)} \ {NoTime} IN
  IF starts = {} THEN 0 ELSE Latest(starts) - Earliest(starts)

Skew(run) == IF Starts(run) = {} THEN 0 ELSE Latest(Starts(run)) - Earliest(Starts(run))

\* The circuit a branch left behind, and how long a kind of branch took, if it ran.
CircuitAfter(b) == IF b \in DOMAIN branches THEN branches[b].circuit.after ELSE ""
LatencyOf(b) == IF b \in DOMAIN branches THEN branches[b].latency ELSE NoTime

SchedulerTrace(terminal, fused, total) ==
  IF call.engine # "dual" THEN <<>>
  ELSE <<[events |-> Append(events, [state |-> terminal, at |-> fused]),
          terminal |-> terminal,
          tasks |-> Cardinality(DOMAIN branches),
          skew |-> Skew(branches),
          overshoot |-> Larger(0, total - Absolute(call.budget)),
          switches |-> (IF call.force THEN <<"force_vector_only">> ELSE <<>>)
                         \o (IF call.noCost THEN <<"disable_cost_aware">> ELSE <<>>),
          circuits |-> [b \in Kinds |-> CircuitAfter(b)],
          fallback |-> Fallback]>>

\* The answer whose lists were fused at one time and whose total was read at another.  A
\* graph operation returns its trace with its chunks.
Answer(fused, total) ==
  LET partial == Fallback # <<>>
      terminal == IF partial THEN "partial" ELSE "complete" IN
  [status |-> terminal, partial |-> partial, count |-> ResultCount,
   decision |-> IF partial THEN [decision EXCEPT !.fallback = Fallback] ELSE decision,
   latency |-> [b \in Kinds |-> LatencyOf(b)],
   graphTrace |-> "graph" \in Succeeded(branches),
   fusion |-> FusionTrace, fusionLatency |-> IF FusionTrace # <<>> THEN fused - now ELSE 0,
   scheduler |-> SchedulerTrace(terminal, fused, total),
   reserve |-> Reserve(call.budget), total |-> total, violated |-> total > Absolute(call.budget)]

----------------------------------------------------------------------------
(* The validators of the models: an answer that fails one is never sent.    *)

BranchResultValid(r) ==
  /\ r.latency # NoTime
  /\ r.status # "succeeded" => r.hits = {}
  /\ r.status = "failed" <=> r.code # ""
  /\ r.started = NoTime <=> r.ended = NoTime
  /\ r.started # NoTime => r.started <= r.ended /\ r.latency = r.ended - r.started
  /\ r.reason # "" => r.status \in {"timed_out", "cancelled"}
  /\ r.timeout # "" => r.status = "timed_out"
  /\ r.origin # "" => r.status # "succeeded"

FusionTraceValid(f) ==
  /\ f.duplicates <= Smaller(f.inputs["vector"], f.inputs["graph"])
  /\ f.output <= f.inputs["vector"] + f.inputs["graph"] - f.duplicates

SchedulerTraceValid(s) ==
  /\ [i \in DOMAIN s.events |-> s.events[i].state] \in
       {<<"received", "analyzing", "planning", "executing", "fusing", s.terminal>>,
        <<"received", "analyzing", "planning", "executing", "fusing", "reranking", s.terminal>>}
  /\ \A i, j \in DOMAIN s.events : i < j => s.events[i].at <= s.events[j].at
  /\ s.switches \in {<<>>, <<"force_vector_only">>, <<"disable_cost_aware">>,
                      <<"force_vector_only", "disable_cost_aware">>}
  /\ s.tasks \in 1 .. 2
  /\ s.terminal = "partial" <=> s.fallback # <<>>

DecisionValid(d) ==
  /\ d.vectorK \in 0 .. 50 /\ d.graphK \in 0 .. 50
  /\ d.plan.vector <=> d.vectorK # 0
  /\ d.plan.graph <=> d.graphK # 0

\* What the trace says of fusion agrees with the branches.
FusionAgrees(f, a) ==
  /\ a.decision.effective = "fixed_hybrid"
  /\ f.output = a.count
  /\ \A b \in Kinds :
       IF b \in f.missing
       THEN f.inputs[b] = 0 /\ (b \in DOMAIN branches => branches[b].status # "succeeded")
       ELSE /\ b \in DOMAIN branches /\ branches[b].status = "succeeded"
            /\ Cardinality(branches[b].hits) = f.inputs[b]

\* The largest difference of two of the times, 0 if there are none.
Spread(d, times) ==
  /\ times = {} => d = 0
  /\ \A x, y \in times : x - y <= d
  /\ times # {} => \E x, y \in times : x - y = d

SchedulerAgrees(s, a) ==
  /\ s.terminal = IF a.partial THEN "partial" ELSE "complete"
  /\ a.partial => a.decision.fallback = s.fallback
  /\ s.overshoot = Larger(0, a.total - Absolute(call.budget))
  /\ s.tasks = Cardinality(DOMAIN branches)
  /\ s.events[Len(s.events)].at <= a.total
  /\ Spread(s.skew, {t \in {branches[b].started : b \in DOMAIN branches} : t # NoTime})
  /\ \A b \in Kinds :
       IF b \in DOMAIN branches THEN s.circuits[b] = branches[b].circuit.after ELSE s.circuits[b] = ""

TraceValid(a) ==
  /\ a.violated <=> a.total > Absolute(call.budget)
  /\ a.reserve = Smaller(400, Larger(100, call.budget))
  /\ a.count <= call.topK
  /\ Cardinality(DOMAIN branches) \in 1 .. 2
  /\ \A b \in Kinds :
       IF b \in DOMAIN branches THEN a.latency[b] = branches[b].latency ELSE a.latency[b] = NoTime
  /\ a.graphTrace => "graph" \in DOMAIN branches
  /\ "graph" \in Succeeded(branches) => a.graphTrace
  /\ a.fusion = <<>> => a.fusionLatency = 0
  /\ \A i \in DOMAIN a.fusion : FusionTraceValid(a.fusion[i]) /\ FusionAgrees(a.fusion[i], a)
  /\ \A i \in DOMAIN a.scheduler : SchedulerTraceValid(a.scheduler[i]) /\ SchedulerAgrees(a.scheduler[i], a)

ResponseValid(a) ==
  /\ \A b \in DOMAIN branches : BranchResultValid(branches[b])
  /\ DecisionValid(a.decision)
  /\ TraceValid(a)
  /\ a.status = "partial" <=> a.partial
  /\ a.status = "complete" => Succeeded(branches) = DOMAIN branches
  /\ a.status = "partial" =>
       /\ Succeeded(branches) # {}
       /\ \E b \in DOMAIN branches : branches[b].status \in {"timed_out", "failed", "cancelled"}

\* The models are built one after another and the first that is not valid raises.
Build(fused, total) ==
  /\ Running("fusing") /\ fused >= now /\ total >= fused
  /\ now' = total
  /\ answer' = Answer(fused, total)
  /\ Enters(Answer(fused, total).status, fused)
  /\ outcome' = IF ResponseValid(Answer(fused, total)) THEN "" ELSE "validation_error"
  /\ UNCHANGED <<call, decision, branches>>

\* The last look at the clock.
Return(t) ==
  /\ outcome = "" /\ State \in {"complete", "partial"} /\ t >= now
  /\ now' = t
  /\ outcome' = IF t > Absolute(call.budget) THEN "DEADLINE_EXCEEDED" ELSE answer.status
  /\ UNCHANGED <<call, events, decision, branches, answer>>

----------------------------------------------------------------------------
(* The clock is looked at around the cutoff and the deadline; a plan that    *)
(* depends on the time left is chosen at several times before the cutoff.    *)

PlanTimes ==
  IF Effective(call) = "rule" THEN {Cutoff - s : s \in Spares} \cup {Cutoff} ELSE {now, Cutoff}
End == {now, Absolute(call.budget), Absolute(call.budget) + 1}

Done == outcome # "" /\ UNCHANGED vars

Next ==
  \/ Receive
  \/ \E t \in {now, Cutoff} : Analyze(t)
  \/ State = "planning" /\ \E t \in PlanTimes : Plan(t)
  \/ /\ State = "executing"
     /\ \E t \in {now, Cutoff} :
          t >= now /\ \E run \in [BranchesOf(decision.effective) -> Results(now, t)] : Execute(run, t)
  \/ \E fused, total \in End : Build(fused, total)
  \/ \E t \in End : Return(t)
  \/ Done

Spec == Init /\ [][Next]_vars

----------------------------------------------------------------------------
(* The properties.                                                          *)

Types ==
  /\ RequestValid(call) /\ now \in Nat
  /\ \A i \in DOMAIN events : events[i].at \in 0 .. now
  /\ DOMAIN branches \subseteq Kinds
  /\ answer # <<>> => decision # <<>> /\ branches # <<>>

\* Whatever the branches did and however late it became, the answer that
\* _execute_request puts together passes those validators of BranchResult, FusionTrace,
\* SchedulerTrace, SearchTrace and SearchResponse that relate its counts, statuses, times
\* and circuits, and the bounds of PlannerDecision: a search that found something does
\* not end in their ValidationError.  Left out is what the model has no word for: the
\* identities and texts, equal because they are copied; the order and uniqueness of what
\* is a set here; the budget that remains at a boundary; and the bounds of single fields.
AnswersAreValid == outcome # "validation_error"

\* The graph is searched only for a supported language, never under the force-vector
\* switch whoever asks (search and both entries of the benchmark), and by the rule
\* planner only for a query with a signal, enough time, and a circuit that was not open.
GraphOnlyWhenAllowed ==
  "graph" \in DOMAIN branches =>
    /\ call.language /\ ~call.force
    /\ call.mode = "rule" => /\ GraphTier /\ ~call.open /\ call.signals # {}
                             /\ decision.feasible /\ decision.left > LowBudget

\* With more time left RulePlanner.select never chooses a lesser plan for the same
\* query: a slower analysis can cost a plan, and never gains one.
MoreTimeNoWorse ==
  State = "received" =>
    \A s, t \in Spares, runtime \in BOOLEAN :
      LET query == [language |-> call.language, signals |-> call.signals, topK |-> call.topK] IN
      s <= t => RuleDecision(query, s, runtime).id <= RuleDecision(query, t, runtime).id
=============================================================================
