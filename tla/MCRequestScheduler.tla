------------------------- MODULE MCRequestScheduler -------------------------
(* TLC instance of RequestScheduler: a slot for requests of any mode and a   *)
(* slot for requests of one branch, which compete for the graph circuit.     *)
EXTENDS RequestScheduler

CONSTANTS r1, r2

MCRequests == {r1, r2}
MCModes(r) == IF r = r1 THEN {"fixed_hybrid", "rule", "vector"} ELSE {"graph"}
MCModesLive(r) == IF r = r1 THEN {"rule"} ELSE {"graph"}
=============================================================================
