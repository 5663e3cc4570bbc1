-------------------------- MODULE OfflineOptimizer --------------------------
(***************************************************************************)
(* One choice of the offline optimizer (planner/optimizer.py, select): the *)
(* models predict the quality and the latency of every enabled plan, some  *)
(* predictions are nonsense, and the best plan that fits in what is left   *)
(* of the deadline is chosen.                                              *)
(***************************************************************************)
EXTENDS Planning

CONSTANTS
  Forecasts,     \* the predictions of the models, for each plan
  Remaining      \* the times left at which a plan is chosen

VARIABLES
  forecast,      \* what the models predict for the query
  supported,     \* whether its language is supported
  choice         \* the decision, or <<>>

vars == <<forecast, supported, choice>>

Init == forecast \in Forecasts /\ supported \in BOOLEAN /\ choice = <<>>

\* select, any number of times; the reserve is that of the smallest budget.
Select(left) ==
  /\ choice' = OptimizerDecision(forecast, supported, left, Reserve(25))
  /\ UNCHANGED <<forecast, supported>>

Next == \E left \in Remaining : Select(left)

Spec == Init /\ [][Next]_vars

\* A decision that is called feasible can be made at any later time of the deadline that
\* leaves no less: with more time left there is again a plan, and one of no lower
\* predicted quality; a plan for the graph is never chosen for an unsupported language.
MoreTimeKeepsQuality ==
  choice # <<>> =>
    /\ choice.plan.graph => supported
    /\ \A left \in Remaining :
         LET then == OptimizerDecision(forecast, supported, left, Reserve(25)) IN
         choice.feasible /\ choice.left <= left =>
           then.feasible /\ forecast[choice.id].quality <= forecast[then.id].quality
=============================================================================
