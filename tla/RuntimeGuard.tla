---------------------------- MODULE RuntimeGuard ----------------------------
(***************************************************************************)
(* RuntimeModelGuard (planner/runtime_guard.py): it watches what an        *)
(* artifact predicted against what was measured, over a window that        *)
(* forgets, and turns the artifact off for good once it drifts.  Only an   *)
(* operator's replacement turns the guard's next artifact on.              *)
(***************************************************************************)
EXTENDS Integers, Sequences, FiniteSets

\* The code fixes a window of 100, at least 20 samples, and 10 and 20 per cent
\* (GUARD_WINDOW_SIZE and the constants after it).
CONSTANTS
  Artifacts,        \* the versions
  WindowSize, MinimumSamples,
  ViolationPercent, UnderpredictionPercent

VARIABLES
  artifactVersion,   \* the artifact that is watched
  observations,      \* its window, the newest last
  disabled           \* whether it has drifted

vars == <<artifactVersion, observations, disabled>>

\* A measurement: over the budget or not, above the prediction or not.
Measurements == [violated : BOOLEAN, under : BOOLEAN]

Init == artifactVersion \in Artifacts /\ observations = <<>> /\ disabled = FALSE

\* A hundred times the number of budget violations and of underpredictions.
Violations(window) == 100 * Cardinality({i \in DOMAIN window : window[i].violated})
Underpredictions(window) == 100 * Cardinality({i \in DOMAIN window : window[i].under})

\* _evaluate
Drifted(window) ==
  /\ Len(window) >= MinimumSamples
  /\ \/ Violations(window) > ViolationPercent * Len(window)
     \/ Underpredictions(window) > UnderpredictionPercent * Len(window)

\* deque(maxlen).append
Appended(window, o) ==
  LET longer == Append(window, o) IN IF Len(longer) > WindowSize THEN Tail(longer) ELSE longer

\* observe; one that keeps measuring an artifact that is off.
ObserveAlways(version, o) ==
  /\ version = artifactVersion
  /\ observations' = Appended(observations, o)
  /\ disabled' = (disabled \/ Drifted(observations'))
  /\ UNCHANGED artifactVersion

\* A measurement of another artifact is refused and changes nothing.
Observe(version, o) ==
  /\ version = artifactVersion
  /\ ~disabled
  /\ observations' = Appended(observations, o)
  /\ disabled' = Drifted(observations')
  /\ UNCHANGED artifactVersion

\* replace_artifact
Replace(version) ==
  /\ version # artifactVersion
  /\ artifactVersion' = version /\ observations' = <<>> /\ disabled' = FALSE

Next ==
  \/ \E version \in Artifacts, o \in Measurements : Observe(version, o)
  \/ \E version \in Artifacts : Replace(version)

Spec == Init /\ [][Next]_vars

----------------------------------------------------------------------------
Types ==
  /\ artifactVersion \in Artifacts /\ disabled \in BOOLEAN
  /\ Len(observations) <= WindowSize
  /\ \A i \in DOMAIN observations : observations[i] \in Measurements

\* An artifact is off exactly when the window convicts it: what was measured after it
\* was turned off neither acquits it nor is mixed into the snapshot that says why.
DisabledOnEvidence ==
  LET violated == Cardinality({i \in DOMAIN observations : observations[i].violated})
      under == Cardinality({i \in DOMAIN observations : observations[i].under}) IN
  disabled <=> /\ Len(observations) >= MinimumSamples
               /\ \/ 100 * violated > ViolationPercent * Len(observations)
                  \/ 100 * under > UnderpredictionPercent * Len(observations)
=============================================================================
