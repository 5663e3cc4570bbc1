------------------------------ MODULE Planning ------------------------------
(***************************************************************************)
(* How a retrieval plan is chosen: the deadline of a request               *)
(* (core/deadline.py), the plan catalog (planner/catalog.py), the rule     *)
(* planner (planner/rule.py), the presets of the explicit modes            *)
(* (core/engine.py) and the offline optimizer (planner/optimizer.py).      *)
(*                                                                         *)
(* Operators only.  Plan n of the catalog is the number n.  Times are      *)
(* twentieths of a millisecond since the request arrived, in which the     *)
(* five per cent of the reserve are exact.                                 *)
(***************************************************************************)
EXTENDS Integers, Sequences, FiniteSets

CONSTANTS
  Catalog,      \* Catalog[p]: the parameters of plan p
  Profile,      \* Profile[p]: the safe p95 latency of a candidate of the rule planner
  LowBudget,    \* low_budget_threshold_ms
  Surcharge,    \* top_k_surcharge_ms
  GraphTier     \* graph_tier_enabled of the audited policy

Larger(a, b) == IF a >= b THEN a ELSE b
Smaller(a, b) == IF a <= b THEN a ELSE b

----------------------------------------------------------------------------
(* The deadline: a budget in milliseconds, a reserve for the answer, and    *)
(* the cutoff of the branches before it.                                    *)

Budgets == 25 .. 5000
Absolute(budget) == 20 * budget
Reserve(budget) == Smaller(400, Larger(100, budget))
BranchCutoff(budget) == Absolute(budget) - Reserve(budget)

Left(limit, now) == Larger(0, limit - now)

----------------------------------------------------------------------------
(* The catalog.                                                             *)

\* The validator of PlanDefinition; weights in hundredths.
PlanValid(plan) ==
  /\ plan.vector \/ plan.graph
  /\ IF plan.vector THEN plan.vectorK >= 1 ELSE plan.vectorK = 0 /\ plan.vectorWeight = 0
  /\ IF plan.graph THEN plan.graphK >= 1 /\ plan.depth \in 1 .. 3
     ELSE plan.graphK = 0 /\ plan.graphWeight = 0 /\ plan.depth = 0
  /\ plan.vectorWeight + plan.graphWeight = 100
  /\ IF plan.rerank THEN plan.rerankK \in 1 .. plan.vectorK + plan.graphK ELSE plan.rerankK = 0

\* The plans the rule planner chooses from, in the order of its ladders.
Candidates == {0, 1, 4, 5, 6, 8}

\* The parameters are typed, and PlanCatalog asks for the plans 0 to 8.
PlanShapes ==
  [vector : BOOLEAN, graph : BOOLEAN, vectorK : Nat, graphK : Nat, depth : Nat,
   vectorWeight : 0 .. 100, graphWeight : 0 .. 100, rerank : BOOLEAN, rerankK : Nat,
   enabled : BOOLEAN]

ASSUME CatalogValid ==
  /\ DOMAIN Catalog = 0 .. 8
  /\ \A p \in 0 .. 8 : Catalog[p] \in PlanShapes /\ PlanValid(Catalog[p])

\* The catalog of the repository (configs/plans.yaml): plans 0 and 1 are for the vector
\* store alone, and no plan asks a store for more than a decision may.
ASSUME CatalogShipped ==
  /\ \A p \in Candidates : Catalog[p].enabled /\ Catalog[p].vector
  /\ ~Catalog[0].graph /\ ~Catalog[1].graph
  /\ \A p \in 0 .. 8 : Catalog[p].vectorK <= 50 /\ Catalog[p].graphK <= 50

ASSUME ProfilesValid ==
  /\ Profile \in [Candidates -> Nat] /\ \A p, q \in Candidates : p < q => Profile[p] < Profile[q]
  /\ Surcharge \in Nat /\ LowBudget \in Nat
  /\ GraphTier \in BOOLEAN

\* A decision, without the identities of the configuration.  0 stands for no top-k and
\* <<>> for no fallback.  A plan that covers fewer results than asked for is widened.
ModeOf(plan) ==
  IF plan.vector /\ plan.graph THEN "fixed_hybrid" ELSE IF plan.vector THEN "vector" ELSE "graph"

Decision(mode, id, plan, topK, left, feasible, fallback) ==
  [mode |-> mode, effective |-> ModeOf(plan), id |-> id, plan |-> plan,
   vectorK |-> IF plan.vector THEN Larger(topK, plan.vectorK) ELSE 0,
   graphK |-> IF plan.graph THEN Larger(topK, plan.graphK) ELSE 0,
   left |-> left, feasible |-> feasible, fallback |-> fallback]

----------------------------------------------------------------------------
(* The presets of the explicit modes.                                       *)

VectorDecision(mode, topK, left, forced) ==
  LET id == IF topK <= 10 THEN 0 ELSE 1 IN
  Decision(mode, id, Catalog[id], topK, left, TRUE, IF forced THEN <<"force_vector">> ELSE <<>>)

\* depth is that of a benchmark, or 0.
GraphDecision(topK, left, depth) ==
  LET id == IF depth = 0 THEN (IF topK <= 20 THEN 2 ELSE 3) ELSE IF depth = 1 THEN 2 ELSE 3
      plan == IF depth = 2 THEN [Catalog[3] EXCEPT !.depth = 2] ELSE Catalog[id] IN
  Decision("graph", id, plan, topK, left, TRUE, <<>>)

FixedDecision(id, topK, left) ==
  Decision("fixed_hybrid", id, Catalog[id], topK, left, TRUE, <<>>)

ProfileDecision(mode, id, topK, left) ==
  Decision(mode, id, Catalog[id], topK, left, TRUE, <<>>)

----------------------------------------------------------------------------
(* The rule planner.  A query has signals above their thresholds, a         *)
(* language, and the number of results asked for.                           *)

Predicted(p, query) ==
  Profile[p] + Surcharge * Larger(0, query.topK - Larger(Catalog[p].vectorK, Catalog[p].graphK))

Feasible(p, query, left, allowed) ==
  /\ Catalog[p].graph => query.language /\ allowed
  /\ Predicted(p, query) <= left

SimpleOrder == <<1, 0>>
RelationOrder == <<6, 5, 4, 0>>
MultiHopOrder == <<8, 6, 5, 4, 0>>

\* A ladder that keeps the deep plans for the short budgets.
LadderInverted(query, left, allowed) ==
  IF ~query.language \/ left > LowBudget THEN <<0>>
  ELSE IF query.signals = {} \/ ~allowed THEN SimpleOrder
  ELSE RelationOrder

Ladder(query, left, allowed) ==
  IF ~query.language \/ left <= LowBudget THEN <<0>>
  ELSE IF query.signals = {} \/ ~allowed THEN SimpleOrder
  ELSE IF "multi_hop" \in query.signals THEN MultiHopOrder
  ELSE RelationOrder

\* Why a query that wants the graph does not get it.
RuleFallback(query, left, allowed) ==
  IF ~query.language THEN <<"unsupported_language">>
  ELSE IF left > LowBudget /\ query.signals # {} /\ ~allowed
  THEN (IF GraphTier THEN <<"graph_runtime_unavailable">> ELSE <<"graph_audit_gate">>)
  ELSE <<>>

\* The first plan of the ladder that fits, or plan 0 all the same.
FirstFeasible(ladder, query, left, allowed) ==
  LET fits == {i \in DOMAIN ladder : Feasible(ladder[i], query, left, allowed)} IN
  IF fits = {} THEN 0 ELSE ladder[CHOOSE i \in fits : \A j \in fits : i <= j]

RuleDecision(query, left, runtime) ==
  LET allowed == GraphTier /\ runtime
      id == FirstFeasible(Ladder(query, left, allowed), query, left, allowed) IN
  Decision("rule", id, Catalog[id], query.topK, left, Feasible(id, query, left, allowed),
           RuleFallback(query, left, allowed))

----------------------------------------------------------------------------
(* The offline optimizer.  A model predicts the quality of every enabled    *)
(* plan, in hundredths, and its latency; a prediction that is not finite    *)
(* counts as one out of range.                                              *)

Enabled == {p \in 0 .. 8 : Catalog[p].enabled}

Eligible(p, predictions, language, left, reserve) ==
  /\ predictions[p].quality \in 0 .. 100 /\ predictions[p].latency >= 0
  /\ Catalog[p].graph => language
  /\ predictions[p].latency + reserve <= left

\* A preference for depth before quality.
PreferredDeeper(p, q, predictions) ==
  LET key(x) == <<3 - Catalog[x].depth, 100 - predictions[x].quality, predictions[x].latency, x>> IN
  \E n \in 1 .. 4 : key(p)[n] < key(q)[n] /\ \A m \in 1 .. n - 1 : key(p)[m] = key(q)[m]

\* Quality, then stable_tie_break_key: latency, depth, id.
Preferred(p, q, predictions) ==
  LET key(x) == <<100 - predictions[x].quality, predictions[x].latency, Catalog[x].depth, x>> IN
  \E n \in 1 .. 4 : key(p)[n] < key(q)[n] /\ \A m \in 1 .. n - 1 : key(p)[m] = key(q)[m]

OptimizerDecision(predictions, language, left, reserve) ==
  LET eligible == {p \in Enabled : Eligible(p, predictions, language, left, reserve)}
      id == IF eligible = {} THEN 0
            ELSE CHOOSE p \in eligible : \A q \in eligible \ {p} : Preferred(p, q, predictions) IN
  Decision("cost_aware", id, Catalog[id], 0, left, eligible # {},
           IF eligible = {} THEN <<"no_feasible_candidate">> ELSE <<>>)
=============================================================================
