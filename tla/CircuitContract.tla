--------------------------- MODULE CircuitContract ---------------------------
(***************************************************************************)
(* What a circuit breaker promises the rest of the system, without         *)
(* counters or clocks.  It serves, rests, or is on trial.  While it serves *)
(* any caller may enter.  While it rests nobody enters, except that one    *)
(* caller may be let in to try the backend; while that trial lasts nobody  *)
(* else enters, and only its outcome may bring the service back.  Callers  *)
(* that entered earlier may leave at any time; the leaving of an ordinary  *)
(* caller can stop the service but never resume it or end a trial.         *)
(***************************************************************************)
CONSTANT Callers

VARIABLES
  mode,    \* "serving", "resting" or "trial"
  inside   \* for each caller: "out", "in" (ordinary) or "trying"

vars == <<mode, inside>>

TypeOK == /\ mode \in {"serving", "resting", "trial"}
          /\ inside \in [Callers -> {"out", "in", "trying"}]

Init == mode = "serving" /\ inside = [c \in Callers |-> "out"]

Enter(c) == /\ mode = "serving" /\ inside[c] = "out"
            /\ inside' = [inside EXCEPT ![c] = "in"]
            /\ UNCHANGED mode

StartTrial(c) == /\ mode = "resting" /\ inside[c] = "out"
                 /\ inside' = [inside EXCEPT ![c] = "trying"]
                 /\ mode' = "trial"

Leave(c) == /\ inside[c] = "in"
            /\ inside' = [inside EXCEPT ![c] = "out"]
            /\ \/ UNCHANGED mode
               \/ mode = "serving" /\ mode' = "resting"

EndTrial(c) == /\ inside[c] = "trying"
               /\ inside' = [inside EXCEPT ![c] = "out"]
               /\ mode' \in {"serving", "resting"}

Next == \E c \in Callers : Enter(c) \/ StartTrial(c) \/ Leave(c) \/ EndTrial(c)

Safety == Init /\ [][Next]_vars

\* Whoever is inside leaves in the end.
Spec == Safety /\ \A c \in Callers : WF_vars(Leave(c) \/ EndTrial(c))
=============================================================================
