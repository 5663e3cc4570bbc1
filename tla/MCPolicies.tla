----------------------------- MODULE MCPolicies -----------------------------
(***************************************************************************)
(* What decides over a request, and what such decisions are made from, for *)
(* TLC: a behaviour is one of a circuit breaker, of a search through an    *)
(* engine, of the cost models on disk, of their optimizer, of the guard    *)
(* that watches them, or of the benchmark runs they are measured by.       *)
(***************************************************************************)
EXTENDS CircuitBreaker, Planning

CONSTANTS
  Searches, Margins, Shares, Observed,                  \* of SearchAnswer
  Runs,                                                 \* the trainings of CostModel
  Predictions, Moments,                                 \* of OfflineOptimizer
  Guarded, Window, Minimum, Violation, Underprediction, \* of RuntimeGuard
  Processes, Protocols, Environments, Times, Trials     \* of BenchmarkRun

VARIABLES
  part,
  call, now, events, decision, branches, answer, outcome,
  artifact, manifest, training, written, at, seen, loaded, model, overlapped,
  forecast, supported, choice,
  artifactVersion, observations, disabled,
  runManifest, environment, protocol, aggregate, rawTrials, lock, place, command, own, read

\* A call as the entries of the engines make it: only the dual engine has benchmark
\* entries and switches.
CallShapes ==
  [engine : {"dual", "vector", "graph"},
   mode : {"vector", "graph", "fixed_hybrid", "rule", "cost_aware"},
   planId : Nat, topK : Nat, budget : Nat, depth : Nat, profile : {-1} \cup Nat,
   language : BOOLEAN, signals : SUBSET {"relation", "multi_hop"}, force : BOOLEAN,
   noCost : BOOLEAN, open : BOOLEAN]

ASSUME SearchesValid ==
  /\ \A c \in Searches : c \in CallShapes
  /\ \A c \in Searches : c.engine # "dual" => c.depth = 0 /\ c.profile = -1 /\ ~c.force
  /\ Margins \subseteq Nat
  /\ \A found \in Shares : IsFiniteSet(found)

\* Between a branch's permit and its verdict other calls may move its circuit anywhere.
ASSUME CircuitsValid == Observed \subseteq [before : {"closed", "half_open"}, after : {"closed", "open", "half_open"}]

Engine == INSTANCE SearchAnswer
  WITH Calls <- Searches, Spares <- Margins, Found <- Shares, Circuits <- Observed

engineVars == <<call, now, events, decision, branches, answer, outcome>>

----------------------------------------------------------------------------
\* What a training was of is written in its manifest.
ASSUME RunsValid == Runs \in Seq([matrix : Nat, corpus : Nat, research : BOOLEAN])

Cost == INSTANCE CostModel WITH Trainings <- Runs

costVars == <<artifact, manifest, training, written, at, seen, loaded, model, overlapped>>

\* A prediction that is no number counts as one out of range.
ASSUME PredictionsValid ==
  /\ \A f \in Predictions : \A p \in Enabled : f[p].quality \in Int /\ f[p].latency \in Int
  /\ Moments \subseteq Int

Optimizer == INSTANCE OfflineOptimizer WITH Forecasts <- Predictions, Remaining <- Moments

optimizerVars == <<forecast, supported, choice>>

\* GUARD_WINDOW_SIZE and the constants after it.
ASSUME GuardValid ==
  /\ Window \in Nat \ {0} /\ Minimum \in 1 .. Window
  /\ Violation \in 0 .. 100 /\ Underprediction \in 0 .. 100

Guard == INSTANCE RuntimeGuard
  WITH Artifacts <- Guarded, WindowSize <- Window, MinimumSamples <- Minimum,
       ViolationPercent <- Violation, UnderpredictionPercent <- Underprediction

guardVars == <<artifactVersion, observations, disabled>>

ASSUME TrialsValid == Trials \in Nat

Benchmark == INSTANCE BenchmarkRun

benchmarkVars ==
  <<runManifest, environment, protocol, aggregate, rawTrials, lock, place, command, own, read>>

MCInit ==
  /\ part \in {"circuit", "search", "cost", "optimizer", "guard", "benchmark"}
  /\ Init
  /\ IF part = "search" THEN Engine!Init
     ELSE call = <<>> /\ now = 0 /\ events = <<>> /\ decision = <<>> /\ branches = <<>>
          /\ answer = <<>> /\ outcome = ""
  /\ Cost!Init
  /\ IF part = "optimizer" THEN Optimizer!Init
     ELSE forecast = <<>> /\ supported = FALSE /\ choice = <<>>
  /\ IF part = "guard" THEN Guard!Init
     ELSE artifactVersion = <<>> /\ observations = <<>> /\ disabled = FALSE
  /\ Benchmark!Init

MCNext ==
  /\ UNCHANGED part
  /\ \/ part = "circuit" /\ Next /\ UNCHANGED <<engineVars, costVars, optimizerVars, guardVars, benchmarkVars>>
     \/ part = "search" /\ Engine!Next /\ UNCHANGED <<vars, costVars, optimizerVars, guardVars, benchmarkVars>>
     \/ part = "cost" /\ Cost!Next /\ UNCHANGED <<vars, engineVars, optimizerVars, guardVars, benchmarkVars>>
     \/ part = "optimizer" /\ Optimizer!Next /\ UNCHANGED <<vars, engineVars, costVars, guardVars, benchmarkVars>>
     \/ part = "guard" /\ Guard!Next /\ UNCHANGED <<vars, engineVars, costVars, optimizerVars, benchmarkVars>>
     \/ part = "benchmark" /\ Benchmark!Next
          /\ UNCHANGED <<vars, engineVars, costVars, optimizerVars, guardVars>>

\* The fairness of the circuit asks nothing of the other parts.
MCSpec == MCInit /\ [][MCNext]_<<part, vars, engineVars, costVars, optimizerVars, guardVars, benchmarkVars>> /\ Fairness

\* The answer an engine puts together passes the validators of its models that relate its
\* counts, statuses, times and circuits (_execute_request).
SearchAnswersAreValid == part = "search" => Engine!Types /\ Engine!AnswersAreValid

\* The graph is searched only where the switches, the language and the circuit let it.
SearchGraphAllowed == part = "search" => Engine!GraphOnlyWhenAllowed

\* More time never gets a lesser plan: neither from RulePlanner.select nor from
\* OfflineCostAwareOptimizer.select.
PlansUseTime ==
  /\ part = "search" => Engine!MoreTimeNoWorse
  /\ part = "optimizer" => Optimizer!MoreTimeKeepsQuality

\* The two cost models of an optimizer are of one training's data, and what is loaded is
\* what its manifest names, whatever a killed training left behind
\* (load_historical_research_bundle, load_cost_model).
CostBundleHolds == Cost!Types /\ Cost!BundleIsAPair /\ Cost!EstimatorIsItsManifests

\* The guard is off exactly on the evidence of its window (RuntimeModelGuard.observe).
GuardEvidence == part = "guard" => Guard!Types /\ Guard!DisabledOnEvidence

\* What benchmark runs leave behind is evidence: rows in their order, of one identity, and
\* whole when they were reported (BenchmarkRunner.run, RunRepository, command._execute).
BenchmarkEvidence == Benchmark!TypeOK /\ Benchmark!EvidenceHolds

----------------------------------------------------------------------------
(* The instance of the run.                                                 *)

Search(engine, mode, topK) ==
  [engine |-> engine, mode |-> mode, planId |-> 0, topK |-> topK, budget |-> 25, depth |-> 0,
   profile |-> -1, language |-> TRUE, signals |-> {}, force |-> FALSE, noCost |-> FALSE, open |-> FALSE]

\* Rule calls vary the query and the time; the others what is asked for and the switches.
RuleCalls ==
  {[Search(engine, "rule", topK) EXCEPT !.budget = budget, !.language = language,
                                        !.signals = signals, !.open = open] :
     engine \in {"dual", "vector"}, topK \in {10, 50}, budget \in {25, 400},
     language \in BOOLEAN, signals \in {{}, {"relation"}, {"multi_hop"}}, open \in BOOLEAN}

ModeCalls ==
  {[Search(engine, mode, topK) EXCEPT !.planId = planId, !.language = language, !.force = force,
                                      !.noCost = noCost] :
     engine \in {"dual", "vector", "graph"}, mode \in {"vector", "graph", "fixed_hybrid", "rule", "cost_aware"},
     topK \in {1, 10, 50}, planId \in {0, 6, 7}, language \in BOOLEAN,
     force \in BOOLEAN, noCost \in BOOLEAN}

BenchmarkCalls ==
  {[Search("dual", mode, topK) EXCEPT !.planId = planId, !.depth = depth, !.profile = profile,
                                      !.language = language, !.force = force] :
     mode \in {"vector", "graph", "fixed_hybrid"}, topK \in {1, 50}, planId \in {0, 4},
     depth \in {0, 2, 4}, profile \in {-1, 1, 3, 4, 7, 9}, language \in BOOLEAN, force \in BOOLEAN}

SearchesOfRun ==
  RuleCalls \cup {c \in ModeCalls : c.force => c.engine = "dual"}
    \cup {c \in BenchmarkCalls : c.depth = 0 \/ c.profile = -1}

\* Good and bad predictions of three plans: the cheapest, one of a middle depth, the
\* deepest; a quality above one and a negative latency are refused.
ForecastOf(choices) ==
  [p \in 0 .. 8 |-> IF p \in {0, 4, 8} THEN choices[p]
                    ELSE [quality |-> 20 + p, latency |-> 500 * (p + 1)]]

PredictionsOfRun ==
  {ForecastOf(f) : f \in [{0, 4, 8} -> [quality : {40, 90, 101}, latency : {-1, 300, 4000}]]}

CatalogOfPlans ==
  LET P(vectorK, graphK, depth, weight, rerankK, enabled) ==
        [vector |-> vectorK > 0, graph |-> graphK > 0, vectorK |-> vectorK, graphK |-> graphK,
         depth |-> depth, vectorWeight |-> weight, graphWeight |-> 100 - weight,
         rerank |-> rerankK > 0, rerankK |-> rerankK, enabled |-> enabled] IN
  [p \in 0 .. 8 |->
     CASE p = 0 -> P(10, 0, 0, 100, 0, TRUE)  [] p = 1 -> P(30, 0, 0, 100, 0, TRUE)
       [] p = 2 -> P(0, 20, 1, 0, 0, TRUE)    [] p = 3 -> P(0, 30, 3, 0, 0, TRUE)
       [] p = 4 -> P(20, 15, 1, 70, 0, TRUE)  [] p = 5 -> P(20, 20, 1, 50, 0, TRUE)
       [] p = 6 -> P(15, 30, 2, 30, 0, TRUE)  [] p = 7 -> P(30, 30, 2, 50, 10, FALSE)
       [] p = 8 -> P(15, 40, 3, 25, 0, TRUE)]

RunsOfTrainer ==
  <<[matrix |-> 1, corpus |-> 1, research |-> TRUE], [matrix |-> 2, corpus |-> 1, research |-> TRUE],
    [matrix |-> 2, corpus |-> 2, research |-> TRUE], [matrix |-> 2, corpus |-> 2, research |-> FALSE]>>

ObservedCircuits == {[before |-> "closed", after |-> "open"]}

SharesOfChunks == {{}, {1, 2}, {2, 3}}

ProfileOfPlans ==
  [p \in Candidates |-> CASE p = 0 -> 300 [] p = 1 -> 700 [] p = 4 -> 1400 [] p = 5 -> 2100
                          [] p = 6 -> 3600 [] p = 8 -> 6000]
=============================================================================
