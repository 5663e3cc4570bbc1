---------------------------- MODULE PolicyProofs ----------------------------
(***************************************************************************)
(* The safety of what decides over a request, for any searches, trainings, *)
(* predictions, windows and benchmark runs.  Each part of a behaviour of   *)
(* MCPolicies moves by itself; its invariants are proved by themselves.    *)
(***************************************************************************)
EXTENDS MCPolicies, FiniteSetTheorems, SequenceTheorems, WellFoundedInduction, TLAPS

allVars == <<part, vars, engineVars, costVars, optimizerVars, guardVars, benchmarkVars>>

\* A step is one of the part that moves, and none of any other.
LEMMA PartsMoveAlone ==
  [MCNext]_allVars =>
    /\ part' = part
    /\ part = "search" => [Engine!Next]_engineVars
    /\ [Cost!Next]_costVars
    /\ part = "optimizer" => [Optimizer!Next]_optimizerVars
    /\ part = "guard" => [Guard!Next]_guardVars
    /\ [Benchmark!Next]_benchmarkVars
BY DEF MCNext, allVars

----------------------------------------------------------------------------
(* The guard.                                                               *)

GuardInv == Guard!Types /\ observations \in Seq(Guard!Measurements) /\ Guard!DisabledOnEvidence

\* The window holds measurements and no more than it may.
LEMMA AppendedFits ==
  ASSUME NEW window \in Seq(Guard!Measurements), Len(window) <= Window,
         NEW o \in Guard!Measurements
  PROVE  /\ Guard!Appended(window, o) \in Seq(Guard!Measurements)
         /\ Len(Guard!Appended(window, o)) <= Window
<1>1. /\ Append(window, o) \in Seq(Guard!Measurements)
      /\ Len(Append(window, o)) = Len(window) + 1 /\ Append(window, o) # <<>>
  BY AppendProperties
<1>2. /\ Tail(Append(window, o)) \in Seq(Guard!Measurements)
      /\ Len(Tail(Append(window, o))) = Len(window)
  BY <1>1, HeadTailProperties
<1>3. Len(window) \in Nat
  OBVIOUS
<1> QED BY <1>1, <1>2, <1>3, GuardValid DEF Guard!Appended

\* A window of no measurements convicts nobody.
LEMMA EmptyAcquits ==
  observations = <<>> /\ disabled = FALSE => Guard!DisabledOnEvidence
<1> SUFFICES ASSUME observations = <<>>, disabled = FALSE PROVE Guard!DisabledOnEvidence
  OBVIOUS
<1>1. Len(observations) = 0
  OBVIOUS
<1>2. ~(Len(observations) >= Minimum)
  BY <1>1, GuardValid
<1> QED BY <1>2 DEF Guard!DisabledOnEvidence

LEMMA GuardInit == Guard!Init => GuardInv
<1> SUFFICES ASSUME Guard!Init PROVE GuardInv
  OBVIOUS
<1>1. artifactVersion \in Guarded /\ observations = <<>> /\ disabled = FALSE
  BY DEF Guard!Init
<1>2. Guard!DisabledOnEvidence
  BY <1>1, EmptyAcquits
<1>3. observations \in Seq(Guard!Measurements) /\ Len(observations) = 0 /\ DOMAIN observations = {}
  BY <1>1
<1>4. disabled \in BOOLEAN
  BY <1>1
<1> QED BY <1>1, <1>2, <1>3, <1>4, GuardValid DEF GuardInv, Guard!Types

LEMMA GuardNext == GuardInv /\ [Guard!Next]_guardVars => GuardInv'
<1> SUFFICES ASSUME GuardInv, [Guard!Next]_guardVars PROVE GuardInv'
  OBVIOUS
<1>1. ASSUME NEW version \in Guarded, NEW o \in Guard!Measurements, Guard!Observe(version, o)
      PROVE  GuardInv'
  <2>1. observations' \in Seq(Guard!Measurements) /\ Len(observations') <= Window
    BY <1>1, AppendedFits DEF Guard!Observe, GuardInv, Guard!Types
  <2>2. disabled' = Guard!Drifted(observations')
    BY <1>1 DEF Guard!Observe
  <2>3. Guard!DisabledOnEvidence'
    BY <2>2 DEF Guard!DisabledOnEvidence, Guard!Drifted, Guard!Violations, Guard!Underpredictions
  <2>4. disabled' \in BOOLEAN
    BY <2>2 DEF Guard!Drifted
  <2> QED BY <1>1, <2>1, <2>3, <2>4 DEF GuardInv, Guard!Types, Guard!Observe
<1>2. ASSUME NEW version \in Guarded, Guard!Replace(version)
      PROVE  GuardInv'
  <2>1. artifactVersion' \in Guarded /\ observations' = <<>> /\ disabled' = FALSE
    BY <1>2 DEF Guard!Replace
  <2>2. ASSUME NEW window, window = <<>>
        PROVE  window \in Seq(Guard!Measurements) /\ Len(window) = 0 /\ DOMAIN window = {}
    BY <2>2
  <2>a. observations' \in Seq(Guard!Measurements) /\ Len(observations') = 0 /\ DOMAIN observations' = {}
    BY <2>1, <2>2
  <2>3. ~(Len(observations') >= Minimum)
    BY <2>a, GuardValid
  <2>4. Guard!DisabledOnEvidence'
    BY <2>1, <2>3 DEF Guard!DisabledOnEvidence
  <2>5. disabled' \in BOOLEAN
    BY <2>1
  <2> QED BY <2>1, <2>a, <2>4, <2>5, GuardValid DEF GuardInv, Guard!Types
<1>3. CASE UNCHANGED guardVars
  BY <1>3 DEF guardVars, GuardInv, Guard!Types, Guard!DisabledOnEvidence
<1> QED BY <1>1, <1>2, <1>3 DEF Guard!Next

\* An artifact is off exactly when its window convicts it, for any window, number of
\* samples and rates (RuntimeModelGuard.observe, replace_artifact).
THEOREM GuardIsFair == MCSpec => []GuardEvidence
<1>1. MCInit => (part = "guard" => GuardInv)
  BY GuardInit DEF MCInit
<1>2. (part = "guard" => GuardInv) /\ [MCNext]_allVars => (part = "guard" => GuardInv)'
  BY GuardNext, PartsMoveAlone
<1>3. (part = "guard" => GuardInv) => GuardEvidence
  BY DEF GuardInv, GuardEvidence
<1> QED BY <1>1, <1>2, <1>3, PTL DEF MCSpec, allVars

----------------------------------------------------------------------------
(* The cost models on disk.                                                 *)

CostTypes ==
  /\ artifact \in [Cost!Models -> 0 .. Len(Runs)] /\ manifest \in [Cost!Models -> 0 .. Len(Runs)]
  /\ seen \in [Cost!Models -> 0 .. Len(Runs)] /\ loaded \in [Cost!Models -> 0 .. Len(Runs)]
  /\ model \in [Cost!Models -> 0 .. Len(Runs)]
  /\ training \in 1 .. Len(Runs) + 1 /\ written \in 0 .. 4
  /\ at \in 0 .. 9 /\ overlapped \in BOOLEAN

\* While no training writes, a file that was checked is still the manifest's.
Undisturbed ==
  ~overlapped =>
    /\ at >= 5 => artifact["quality"] = loaded["quality"]
    /\ at >= 6 => model["quality"] = loaded["quality"]
    /\ at >= 8 => artifact["latency"] = loaded["latency"]
    /\ at >= 9 => model["latency"] = loaded["latency"]

ReadyIsPair == at = 9 => Cost!Pair(loaded)

CostInv == CostTypes /\ ReadyIsPair /\ Undisturbed

\* Where the loader is when it takes a step.
LEMMA LoaderSteps ==
  ASSUME at \in 0 .. 9
  PROVE  /\ \A m \in Cost!Models : Cost!AtStep("read", m) => at = IF m = "quality" THEN 1 ELSE 2
         /\ \A m \in Cost!Models : Cost!AtStep("manifest", m) => at = IF m = "quality" THEN 3 ELSE 6
         /\ \A m \in Cost!Models : Cost!AtStep("checksum", m) => at = IF m = "quality" THEN 4 ELSE 7
         /\ \A m \in Cost!Models : Cost!AtStep("load", m) => at = IF m = "quality" THEN 5 ELSE 8
         /\ Len(Cost!Steps) = 8 /\ Cost!Ready = 9
<1> DEFINE S == Cost!Steps
<1>1. /\ S[1] = <<"read", "quality">> /\ S[2] = <<"read", "latency">>
      /\ S[3] = <<"manifest", "quality">> /\ S[4] = <<"checksum", "quality">>
      /\ S[5] = <<"load", "quality">> /\ S[6] = <<"manifest", "latency">>
      /\ S[7] = <<"checksum", "latency">> /\ S[8] = <<"load", "latency">> /\ Len(S) = 8
  BY DEF Cost!Steps
<1>2. \A step, m : Cost!AtStep(step, m) => at \in 1 .. 8 /\ S[at][1] = step /\ S[at][2] = m
  BY <1>1 DEF Cost!AtStep
<1>3. Cost!Ready = 9
  BY <1>1 DEF Cost!Ready
<1> HIDE DEF S
<1>4. \A step, m : Cost!AtStep(step, m) =>
        \/ at = 1 /\ step = "read" /\ m = "quality"
        \/ at = 2 /\ step = "read" /\ m = "latency"
        \/ at = 3 /\ step = "manifest" /\ m = "quality"
        \/ at = 4 /\ step = "checksum" /\ m = "quality"
        \/ at = 5 /\ step = "load" /\ m = "quality"
        \/ at = 6 /\ step = "manifest" /\ m = "latency"
        \/ at = 7 /\ step = "checksum" /\ m = "latency"
        \/ at = 8 /\ step = "load" /\ m = "latency"
  BY <1>1, <1>2
<1> QED BY <1>1, <1>3, <1>4 DEF S

\* The files of a training, in the order in which they are written.
LEMMA FilesOfTraining ==
  /\ Len(Cost!Files) = 4
  /\ \A n \in 1 .. 4 : Cost!Files[n][1] \in {"artifact", "manifest"} /\ Cost!Files[n][2] \in Cost!Models
<1>1. /\ Len(Cost!Files) = 4
      /\ Cost!Files[1] = <<"artifact", "quality">> /\ Cost!Files[2] = <<"manifest", "quality">>
      /\ Cost!Files[3] = <<"artifact", "latency">> /\ Cost!Files[4] = <<"manifest", "latency">>
  BY DEF Cost!Files
<1> QED BY <1>1 DEF Cost!Models

LEMMA CostInit == Cost!Init => CostInv
<1> SUFFICES ASSUME Cost!Init PROVE CostInv
  OBVIOUS
<1>1. Len(Runs) \in Nat
  BY RunsValid
<1>2. Cost!None \in [Cost!Models -> 0 .. Len(Runs)]
  BY <1>1 DEF Cost!None
<1>3. CostTypes
  <2>1. /\ artifact = Cost!None /\ manifest = Cost!None /\ seen = Cost!None
        /\ loaded = Cost!None /\ model = Cost!None
        /\ training = 1 /\ written = 0 /\ at = 0 /\ overlapped = FALSE
    BY DEF Cost!Init
  <2>2. training \in 1 .. Len(Runs) + 1 /\ written \in 0 .. 4 /\ at \in 0 .. 9
    BY <1>1, <2>1
  <2>3. overlapped \in BOOLEAN
    BY <2>1
  <2> QED BY <1>2, <2>1, <2>2, <2>3 DEF CostTypes
<1> QED BY <1>3 DEF Cost!Init, CostInv, ReadyIsPair, Undisturbed

LEMMA CostNext == CostInv /\ [Cost!Next]_costVars => CostInv'
<1> SUFFICES ASSUME CostInv, [Cost!Next]_costVars PROVE CostInv'
  OBVIOUS
<1>0. /\ Len(Runs) \in Nat /\ CostTypes /\ at \in 0 .. 9
      /\ "quality" \in Cost!Models /\ "latency" \in Cost!Models
  BY RunsValid DEF CostInv, ReadyIsPair, CostTypes, Cost!Models
<1>1. CASE Cost!Save
  <2>1. written + 1 \in 1 .. 4 /\ training \in 0 .. Len(Runs)
    <3>1. training <= Len(Runs) /\ written < 4
      BY <1>1, FilesOfTraining DEF Cost!Save
    <3>2. training \in 1 .. Len(Runs) + 1 /\ written \in 0 .. 4
      BY <1>0 DEF CostTypes
    <3> QED BY <1>0, <3>1, <3>2
  <2>2. /\ artifact' \in [Cost!Models -> 0 .. Len(Runs)]
        /\ manifest' \in [Cost!Models -> 0 .. Len(Runs)]
    BY <1>0, <1>1, <2>1, FilesOfTraining DEF Cost!Save, CostTypes
  <2>3. written' \in 0 .. 4 /\ overlapped' = TRUE
    BY <1>0, <1>1, <2>1 DEF Cost!Save, CostTypes
  <2>4. /\ training' = training /\ at' = at /\ seen' = seen /\ loaded' = loaded /\ model' = model
        /\ Cost!Pair(loaded)' <=> Cost!Pair(loaded)
    BY <1>1 DEF Cost!Save, Cost!Pair, Cost!Of
  <2>5. CostTypes' /\ Undisturbed'
    BY <1>0, <2>2, <2>3, <2>4 DEF CostTypes, Undisturbed
  <2> QED BY <2>4, <2>5 DEF CostInv, ReadyIsPair
<1>2. CASE Cost!Leave
  BY <1>0, <1>2 DEF Cost!Leave, CostInv, ReadyIsPair, CostTypes, Undisturbed, Cost!Pair, Cost!Of
<1>3. CASE Cost!Begin
  <2>1. Cost!None \in [Cost!Models -> 0 .. Len(Runs)]
    BY <1>0 DEF Cost!None
  <2>2. /\ at' = 1 /\ overlapped' = FALSE /\ training' = training /\ written' = written
        /\ artifact' = artifact /\ manifest' = manifest
        /\ seen' = Cost!None /\ loaded' = Cost!None /\ model' = Cost!None
    BY <1>3 DEF Cost!Begin
  <2>3. overlapped' \in BOOLEAN
    BY <2>2
  <2>4. at' \in 0 .. 9
    BY <2>2
  <2>5. CostTypes'
    BY <1>0, <2>1, <2>2, <2>3, <2>4 DEF CostTypes
  <2>6. at' # 9 /\ ~(at' >= 5) /\ ~(at' >= 6) /\ ~(at' >= 8) /\ ~(at' >= 9)
    BY <2>2
  <2> QED BY <2>5, <2>6 DEF CostInv, ReadyIsPair, Undisturbed
<1>4. ASSUME NEW m \in Cost!Models, Cost!ReadManifest(m)
      PROVE  CostInv'
  <2>1. at \in 1 .. 2 /\ at' \in 0 .. 3
    BY <1>0, <1>4, LoaderSteps DEF Cost!ReadManifest, Cost!Goes
  <2>2. seen' \in [Cost!Models -> 0 .. Len(Runs)]
    BY <1>0, <1>4 DEF Cost!ReadManifest, CostTypes
  <2>3. /\ overlapped' = overlapped /\ training' = training /\ written' = written
        /\ artifact' = artifact /\ manifest' = manifest /\ loaded' = loaded /\ model' = model
    BY <1>4 DEF Cost!ReadManifest
  <2>4. CostTypes'
    <3>1. overlapped' \in BOOLEAN
      BY <1>0, <2>3 DEF CostTypes
    <3>2. at' \in 0 .. 9
      BY <2>1
    <3> QED BY <1>0, <2>2, <2>3, <3>1, <3>2 DEF CostTypes
  <2>5. at' # 9 /\ ~(at' >= 5) /\ ~(at' >= 6) /\ ~(at' >= 8) /\ ~(at' >= 9)
    BY <2>1
  <2> QED BY <2>4, <2>5 DEF CostInv, ReadyIsPair, Undisturbed
<1>5. ASSUME NEW m \in Cost!Models, Cost!LoadManifest(m)
      PROVE  CostInv'
  <2>1. at = (IF m = "quality" THEN 3 ELSE 6) /\ at' = at + 1
    BY <1>0, <1>5, LoaderSteps DEF Cost!LoadManifest, Cost!Goes
  <2>2. loaded' \in [Cost!Models -> 0 .. Len(Runs)]
    BY <1>0, <1>5 DEF Cost!LoadManifest, CostTypes
  <2>3. m = "latency" => loaded'["quality"] = loaded["quality"]
    BY <1>0, <1>5 DEF Cost!LoadManifest, CostTypes
  <2> QED BY <1>0, <1>5, <2>1, <2>2, <2>3
    DEF Cost!LoadManifest, CostInv, ReadyIsPair, CostTypes, Undisturbed, Cost!Models
<1>6. ASSUME NEW m \in Cost!Models, Cost!CheckFile(m)
      PROVE  CostInv'
  <2>1. at = (IF m = "quality" THEN 4 ELSE 7) /\ at' \in {0, at + 1}
    BY <1>0, <1>6, LoaderSteps DEF Cost!CheckFile, Cost!Goes
  <2>2. at' # 0 => artifact[m] = loaded[m]
    BY <1>0, <1>6 DEF Cost!CheckFile, Cost!Goes, Cost!FileFits
  <2> QED BY <1>0, <1>6, <2>1, <2>2
    DEF Cost!CheckFile, CostInv, ReadyIsPair, CostTypes, Undisturbed, Cost!Models
<1>7. ASSUME NEW m \in Cost!Models, Cost!LoadFile(m)
      PROVE  CostInv'
  <2>1. at = (IF m = "quality" THEN 5 ELSE 8) /\ at' \in {0, at + 1}
    BY <1>0, <1>7, LoaderSteps DEF Cost!LoadFile, Cost!Goes
  <2>2. model' \in [Cost!Models -> 0 .. Len(Runs)] /\ model'[m] = artifact[m]
    BY <1>0, <1>7 DEF Cost!LoadFile, CostTypes
  <2>3. m = "latency" => model'["quality"] = model["quality"]
    BY <1>0, <1>7 DEF Cost!LoadFile, CostTypes
  <2>4. m = "latency" /\ at' # 0 => Cost!Pair(loaded)
    BY <1>0, <1>7 DEF Cost!LoadFile, Cost!Goes
  <2>5. Cost!Pair(loaded)' <=> Cost!Pair(loaded)
    BY <1>7 DEF Cost!LoadFile, Cost!Pair, Cost!Of
  <2> QED BY <1>0, <1>7, <2>1, <2>2, <2>3, <2>4, <2>5
    DEF Cost!LoadFile, CostInv, ReadyIsPair, CostTypes, Undisturbed, Cost!Models
<1>8. CASE UNCHANGED costVars
  BY <1>8 DEF costVars, CostInv, ReadyIsPair, CostTypes, Undisturbed, Cost!Pair, Cost!Of
<1> QED BY <1>1, <1>2, <1>3, <1>4, <1>5, <1>6, <1>7, <1>8 DEF Cost!Next

\* However trainings write, are killed and start again between the steps of a loader, the
\* two cost models of an optimizer are of one training's data, and an estimator is its
\* manifest's when none wrote (load_historical_research_bundle, load_cost_model).
THEOREM BundleIsWhole == MCSpec => []CostBundleHolds
<1>1. MCInit => CostInv
  BY CostInit DEF MCInit
<1>2. CostInv /\ [MCNext]_allVars => CostInv'
  BY CostNext, PartsMoveAlone
<1>3. CostInv => CostBundleHolds
  <2> SUFFICES ASSUME CostInv PROVE CostBundleHolds
    OBVIOUS
  <2>1. Len(Cost!Steps) = 8 /\ Cost!Ready = 9
    BY LoaderSteps DEF CostInv, ReadyIsPair, CostTypes
  <2>2. Cost!Types
    BY <2>1, FilesOfTraining DEF CostInv, ReadyIsPair, CostTypes, Cost!Types
  <2>3. Cost!BundleIsAPair
    BY <2>1 DEF CostInv, ReadyIsPair, Cost!BundleIsAPair, Cost!Pair, Cost!Models
  <2>4. Cost!EstimatorIsItsManifests
    <3> SUFFICES ASSUME at = 9, ~overlapped PROVE model = loaded
      BY <2>1 DEF Cost!EstimatorIsItsManifests
    <3>1. model["quality"] = loaded["quality"] /\ model["latency"] = loaded["latency"]
      BY DEF CostInv, ReadyIsPair, Undisturbed
    <3> QED BY <3>1 DEF CostInv, ReadyIsPair, CostTypes, Cost!Models
  <2> QED BY <2>2, <2>3, <2>4 DEF CostBundleHolds
<1> QED BY <1>1, <1>2, <1>3, PTL DEF MCSpec, allVars

----------------------------------------------------------------------------
(* The benchmark runs.  Nobody who works on the rows believes anything of   *)
(* them that is not so, because only the holder of the lock changes them    *)
(* and nothing is taken over from before it was taken.                      *)

\* Where a process holds the lock, and where it has found or written every file.
Holding == {"manifest", "environment", "protocol", "loading", "running", "appending", "aggregating"}
HasOpened == {"opened", "loading", "running", "appending", "complete", "reporting", "aggregating"}

OneHolder ==
  /\ \A p \in Processes : place[p] \in Holding <=> p \in lock
  /\ \A p, q \in lock : p = q

OneManifest == \A m, n \in runManifest : m = n

OfTheManifest ==
  /\ \A e \in environment : \E m \in runManifest : e = m.environment
  /\ \A c \in protocol : \E m \in runManifest : c = m.protocol
  /\ rawTrials # <<>> => environment # {} /\ protocol # {}

FilesAreOnes ==
  \A p \in Processes :
    /\ place[p] \in HasOpened \cup {"environment", "protocol"} => runManifest = {own[p]}
    /\ place[p] \in HasOpened \cup {"protocol"} => environment = {own[p].environment}
    /\ place[p] \in HasOpened => protocol = {own[p].protocol}

AllWhole == \A i \in DOMAIN rawTrials : rawTrials[i].whole

KnowsTheRows ==
  \A p \in Processes :
    /\ place[p] = "running" => read[p] = rawTrials /\ AllWhole
    /\ place[p] = "appending" =>
         /\ Len(read[p]) < Trials
         /\ rawTrials = Append(read[p], Benchmark!Row(Len(read[p]) + 1, own[p], FALSE))
    /\ place[p] \in {"complete", "reporting", "aggregating"} => Benchmark!Whole
    /\ place[p] \in {"reporting", "aggregating"} => read[p] = rawTrials

AggregatesAreWhole == \A rows \in aggregate : rows = rawTrials /\ Benchmark!Whole

BenchmarkInv == /\ Benchmark!TypeOK /\ OneHolder /\ OneManifest /\ OfTheManifest /\ FilesAreOnes
        /\ Benchmark!RowsAreASchedule /\ KnowsTheRows /\ AggregatesAreWhole

----------------------------------------------------------------------------
LEMMA BenchmarkInit == Trials \in Nat /\ Benchmark!Init => BenchmarkInv
  <1> SUFFICES ASSUME Trials \in Nat, Benchmark!Init PROVE BenchmarkInv
    OBVIOUS
  <1>1. rawTrials = <<>> /\ rawTrials \in Seq(Benchmark!Rows) /\ Len(rawTrials) = 0 /\ DOMAIN rawTrials = {}
    BY DEF Benchmark!Init
  <1>2. \A p \in Processes : place[p] = "idle" /\ read[p] = <<>>
    BY DEF Benchmark!Init
  <1>3. Benchmark!TypeOK
    BY <1>1, <1>2 DEF Benchmark!Init, Benchmark!TypeOK
  <1>4. OneHolder /\ OneManifest /\ OfTheManifest /\ FilesAreOnes
    BY <1>1, <1>2 DEF Benchmark!Init, OneHolder, OneManifest, OfTheManifest, FilesAreOnes, Holding, HasOpened
  <1>5. Benchmark!RowsAreASchedule
    BY <1>1 DEF Benchmark!RowsAreASchedule
  <1>6. KnowsTheRows /\ AggregatesAreWhole
    BY <1>2 DEF Benchmark!Init, KnowsTheRows, AggregatesAreWhole
  <1> QED
    BY <1>3, <1>4, <1>5, <1>6 DEF BenchmarkInv

\* A row of the schedule is a row.
LEMMA RowIsARow ==
  ASSUME NEW m \in Benchmark!Manifests, NEW trial \in 1 .. Trials, NEW whole \in BOOLEAN
  PROVE  Benchmark!Row(trial, m, whole) \in Benchmark!Rows
  BY DEF Benchmark!Row, Benchmark!Rows, Benchmark!Manifests

\* What the schedule says of the rows follows from a manifest on file.
LEMMA OwnRows ==
  ASSUME BenchmarkInv, NEW p \in Processes, place[p] \in HasOpened
  PROVE  /\ own[p] \in Benchmark!Manifests /\ runManifest = {own[p]}
         /\ environment = {own[p].environment} /\ protocol = {own[p].protocol}
         /\ \A i \in DOMAIN rawTrials : rawTrials[i] = Benchmark!Row(i, own[p], rawTrials[i].whole)
  BY DEF BenchmarkInv, Benchmark!TypeOK, FilesAreOnes, Benchmark!RowsAreASchedule, HasOpened

\* Actions that only move a process which is outside, and what it has read.
LEMMA RunKeeps ==
  ASSUME BenchmarkInv, NEW p \in Processes, Benchmark!Run(p)
  PROVE  BenchmarkInv'
  <1>1. Benchmark!TypeOK'
    BY DEF BenchmarkInv, Benchmark!Run, Benchmark!Goes, Benchmark!TypeOK
  <1>2. OneHolder'
    BY DEF BenchmarkInv, Benchmark!Run, Benchmark!Goes, Benchmark!TypeOK, OneHolder, Holding
  <1>3. (OneManifest /\ OfTheManifest /\ Benchmark!RowsAreASchedule /\ AggregatesAreWhole)'
    BY DEF BenchmarkInv, Benchmark!Run, OneManifest, OfTheManifest, Benchmark!RowsAreASchedule, AggregatesAreWhole, Benchmark!Whole
  <1>4. FilesAreOnes'
    BY DEF BenchmarkInv, Benchmark!Run, Benchmark!Goes, Benchmark!TypeOK, FilesAreOnes, HasOpened
  <1>5. KnowsTheRows'
    BY DEF BenchmarkInv, Benchmark!Run, Benchmark!Goes, Benchmark!TypeOK, KnowsTheRows, AllWhole, Benchmark!Whole
  <1> QED
    BY <1>1, <1>2, <1>3, <1>4, <1>5 DEF BenchmarkInv

LEMMA AggregateKeeps ==
  ASSUME BenchmarkInv, NEW p \in Processes, Benchmark!Aggregate(p)
  PROVE  BenchmarkInv'
  <1>1. Benchmark!TypeOK'
    BY DEF BenchmarkInv, Benchmark!Aggregate, Benchmark!Goes, Benchmark!TypeOK
  <1>2. OneHolder'
    BY DEF BenchmarkInv, Benchmark!Aggregate, Benchmark!Goes, Benchmark!TypeOK, OneHolder, Holding
  <1>3. (OneManifest /\ OfTheManifest /\ Benchmark!RowsAreASchedule /\ AggregatesAreWhole)'
    BY DEF BenchmarkInv, Benchmark!Aggregate, OneManifest, OfTheManifest, Benchmark!RowsAreASchedule, AggregatesAreWhole, Benchmark!Whole
  <1>4. FilesAreOnes'
    BY DEF BenchmarkInv, Benchmark!Aggregate, Benchmark!Goes, Benchmark!TypeOK, FilesAreOnes, HasOpened
  <1>5. KnowsTheRows'
    BY DEF BenchmarkInv, Benchmark!Aggregate, Benchmark!Goes, Benchmark!TypeOK, KnowsTheRows, AllWhole, Benchmark!Whole
  <1> QED
    BY <1>1, <1>2, <1>3, <1>4, <1>5 DEF BenchmarkInv

LEMMA LockKeeps ==
  ASSUME BenchmarkInv, NEW p \in Processes, Benchmark!Lock(p)
  PROVE  BenchmarkInv'
  <1>1. Benchmark!TypeOK'
    BY DEF BenchmarkInv, Benchmark!Lock, Benchmark!Goes, Benchmark!TypeOK
  <1>2. OneHolder'
    BY DEF BenchmarkInv, Benchmark!Lock, Benchmark!Goes, Benchmark!TypeOK, OneHolder, Holding
  <1>3. (OneManifest /\ OfTheManifest /\ Benchmark!RowsAreASchedule /\ AggregatesAreWhole)'
    BY DEF BenchmarkInv, Benchmark!Lock, OneManifest, OfTheManifest, Benchmark!RowsAreASchedule, AggregatesAreWhole, Benchmark!Whole
  <1>4. FilesAreOnes'
    BY DEF BenchmarkInv, Benchmark!Lock, Benchmark!Goes, Benchmark!TypeOK, FilesAreOnes, HasOpened
  <1>5. KnowsTheRows'
    BY DEF BenchmarkInv, Benchmark!Lock, Benchmark!Goes, Benchmark!TypeOK, KnowsTheRows, AllWhole, Benchmark!Whole
  <1> QED
    BY <1>1, <1>2, <1>3, <1>4, <1>5 DEF BenchmarkInv

LEMMA StopKeeps ==
  ASSUME BenchmarkInv, NEW p \in Processes, Benchmark!Stop(p)
  PROVE  BenchmarkInv'
  <1>1. Benchmark!TypeOK'
    BY DEF BenchmarkInv, Benchmark!Stop, Benchmark!Releases, Benchmark!Forgets, Benchmark!TypeOK
  <1>2. OneHolder'
    BY DEF BenchmarkInv, Benchmark!Stop, Benchmark!Releases, Benchmark!TypeOK, OneHolder, Holding
  <1>3. (OneManifest /\ OfTheManifest /\ Benchmark!RowsAreASchedule /\ AggregatesAreWhole)'
    BY DEF BenchmarkInv, Benchmark!Stop, OneManifest, OfTheManifest, Benchmark!RowsAreASchedule, AggregatesAreWhole, Benchmark!Whole
  <1>4. FilesAreOnes'
    BY DEF BenchmarkInv, Benchmark!Stop, Benchmark!TypeOK, FilesAreOnes, HasOpened
  <1>5. KnowsTheRows'
    BY DEF BenchmarkInv, Benchmark!Stop, Benchmark!Forgets, Benchmark!TypeOK, KnowsTheRows, AllWhole, Benchmark!Whole
  <1> QED
    BY <1>1, <1>2, <1>3, <1>4, <1>5 DEF BenchmarkInv

\* Whoever writes a file holds the lock, so that a file that others have found stays.
LEMMA InitializeManifestKeeps ==
  ASSUME BenchmarkInv, NEW p \in Processes, Benchmark!InitializeManifest(p)
  PROVE  BenchmarkInv'
  <1>1. own[p] \in Benchmark!Manifests /\ place[p] = "manifest"
    BY DEF BenchmarkInv, Benchmark!TypeOK, Benchmark!InitializeManifest, Benchmark!Goes
  <1>2. runManifest = {} \/ runManifest = {own[p]}
    BY DEF Benchmark!InitializeManifest
  <1>3. Benchmark!TypeOK'
    BY <1>1 DEF BenchmarkInv, Benchmark!InitializeManifest, Benchmark!Goes, Benchmark!TypeOK
  <1>4. OneHolder'
    BY DEF BenchmarkInv, Benchmark!InitializeManifest, Benchmark!Goes, Benchmark!TypeOK, OneHolder, Holding
  <1>5. (OneManifest /\ OfTheManifest)'
    BY <1>2 DEF BenchmarkInv, Benchmark!InitializeManifest, OneManifest, OfTheManifest
  <1>6. FilesAreOnes'
    BY <1>2 DEF BenchmarkInv, Benchmark!InitializeManifest, Benchmark!Goes, Benchmark!TypeOK, FilesAreOnes, HasOpened
  <1>7. Benchmark!RowsAreASchedule'
    BY <1>2 DEF BenchmarkInv, Benchmark!InitializeManifest, Benchmark!RowsAreASchedule
  <1>8. KnowsTheRows'
    BY DEF BenchmarkInv, Benchmark!InitializeManifest, Benchmark!Goes, Benchmark!TypeOK, KnowsTheRows, AllWhole, Benchmark!Whole
  <1>9. AggregatesAreWhole'
    BY DEF BenchmarkInv, Benchmark!InitializeManifest, AggregatesAreWhole, Benchmark!Whole
  <1> QED
    BY <1>3, <1>4, <1>5, <1>6, <1>7, <1>8, <1>9 DEF BenchmarkInv

LEMMA InitializeEnvironmentKeeps ==
  ASSUME BenchmarkInv, NEW p \in Processes, Benchmark!InitializeEnvironment(p)
  PROVE  BenchmarkInv'
  <1>1. own[p] \in Benchmark!Manifests /\ place[p] = "environment" /\ runManifest = {own[p]}
    BY DEF BenchmarkInv, Benchmark!TypeOK, Benchmark!InitializeEnvironment, Benchmark!Goes, FilesAreOnes
  <1>2. own[p].environment \in Environments
    BY <1>1 DEF Benchmark!Manifests
  <1>3. Benchmark!TypeOK'
    BY <1>2 DEF BenchmarkInv, Benchmark!InitializeEnvironment, Benchmark!Goes, Benchmark!TypeOK
  <1>4. OneHolder'
    BY DEF BenchmarkInv, Benchmark!InitializeEnvironment, Benchmark!Goes, Benchmark!TypeOK, OneHolder, Holding
  <1>5. (OneManifest /\ OfTheManifest)'
    BY <1>1 DEF BenchmarkInv, Benchmark!InitializeEnvironment, OneManifest, OfTheManifest
  <1>6. FilesAreOnes'
    BY <1>1 DEF BenchmarkInv, Benchmark!InitializeEnvironment, Benchmark!Goes, Benchmark!TypeOK, FilesAreOnes, HasOpened
  <1>7. (Benchmark!RowsAreASchedule /\ AggregatesAreWhole)'
    BY DEF BenchmarkInv, Benchmark!InitializeEnvironment, Benchmark!RowsAreASchedule, AggregatesAreWhole, Benchmark!Whole
  <1>8. KnowsTheRows'
    BY DEF BenchmarkInv, Benchmark!InitializeEnvironment, Benchmark!Goes, Benchmark!TypeOK, KnowsTheRows, AllWhole, Benchmark!Whole
  <1> QED
    BY <1>3, <1>4, <1>5, <1>6, <1>7, <1>8 DEF BenchmarkInv

LEMMA InitializeProtocolKeeps ==
  ASSUME BenchmarkInv, NEW p \in Processes, Benchmark!InitializeProtocol(p)
  PROVE  BenchmarkInv'
  <1>1. /\ own[p] \in Benchmark!Manifests /\ place[p] = "protocol" /\ runManifest = {own[p]}
        /\ environment = {own[p].environment}
    BY DEF BenchmarkInv, Benchmark!TypeOK, Benchmark!InitializeProtocol, Benchmark!Goes, FilesAreOnes
  <1>2. own[p].protocol \in Protocols
    BY <1>1 DEF Benchmark!Manifests
  <1>3. Benchmark!TypeOK'
    BY <1>2 DEF BenchmarkInv, Benchmark!InitializeProtocol, Benchmark!Goes, Benchmark!Releases, Benchmark!TypeOK
  <1>4. OneHolder'
    BY DEF BenchmarkInv, Benchmark!InitializeProtocol, Benchmark!Goes, Benchmark!Releases, Benchmark!TypeOK, OneHolder, Holding
  <1>5. (OneManifest /\ OfTheManifest)'
    BY <1>1 DEF BenchmarkInv, Benchmark!InitializeProtocol, OneManifest, OfTheManifest
  <1>6. FilesAreOnes'
    BY <1>1 DEF BenchmarkInv, Benchmark!InitializeProtocol, Benchmark!Goes, Benchmark!TypeOK, FilesAreOnes, HasOpened
  <1>7. (Benchmark!RowsAreASchedule /\ AggregatesAreWhole)'
    BY DEF BenchmarkInv, Benchmark!InitializeProtocol, Benchmark!RowsAreASchedule, AggregatesAreWhole, Benchmark!Whole
  <1>8. KnowsTheRows'
    BY DEF BenchmarkInv, Benchmark!InitializeProtocol, Benchmark!Goes, Benchmark!TypeOK, KnowsTheRows, AllWhole, Benchmark!Whole
  <1> QED
    BY <1>3, <1>4, <1>5, <1>6, <1>7, <1>8 DEF BenchmarkInv

LEMMA ResumeKeeps ==
  ASSUME BenchmarkInv, NEW p \in Processes, Benchmark!Resume(p)
  PROVE  BenchmarkInv'
  <1>1. Benchmark!TypeOK'
    BY DEF BenchmarkInv, Benchmark!Resume, Benchmark!Goes, Benchmark!TypeOK
  <1>2. OneHolder'
    BY DEF BenchmarkInv, Benchmark!Resume, Benchmark!Goes, Benchmark!TypeOK, OneHolder, Holding
  <1>3. (OneManifest /\ OfTheManifest /\ Benchmark!RowsAreASchedule /\ AggregatesAreWhole)'
    BY DEF BenchmarkInv, Benchmark!Resume, OneManifest, OfTheManifest, Benchmark!RowsAreASchedule, AggregatesAreWhole, Benchmark!Whole
  <1>4. FilesAreOnes'
    BY DEF BenchmarkInv, Benchmark!Resume, Benchmark!Goes, Benchmark!TypeOK, FilesAreOnes, HasOpened
  <1>5. AllWhole
    BY DEF Benchmark!Resume, Benchmark!Readable, AllWhole
  <1>6. KnowsTheRows'
    BY <1>5 DEF BenchmarkInv, Benchmark!Resume, Benchmark!Goes, Benchmark!TypeOK, KnowsTheRows, AllWhole, Benchmark!Whole
  <1> QED
    BY <1>1, <1>2, <1>3, <1>4, <1>6 DEF BenchmarkInv

\* The trials that are done are the first ones of the schedule, so the next is the one
\* after them.
LEMMA NextTrial ==
  ASSUME BenchmarkInv, NEW p \in Processes, place[p] = "running"
  PROVE  /\ read[p] = rawTrials /\ AllWhole
         /\ Len(rawTrials) \in Nat /\ Len(rawTrials) <= Trials
         /\ Benchmark!Completed(p) = 1 .. Len(rawTrials)
  <1>1. read[p] = rawTrials /\ AllWhole
    BY DEF BenchmarkInv, KnowsTheRows
  <1>2. Len(rawTrials) \in Nat /\ DOMAIN rawTrials = 1 .. Len(rawTrials) /\ Len(rawTrials) <= Trials
    BY DEF BenchmarkInv, Benchmark!TypeOK, Benchmark!RowsAreASchedule
  <1>3. \A i \in DOMAIN rawTrials : rawTrials[i].trial = i
    BY OwnRows DEF Benchmark!Row, HasOpened
  <1>4. Benchmark!Completed(p) = 1 .. Len(rawTrials)
    BY <1>1, <1>2, <1>3 DEF Benchmark!Completed
  <1> QED
    BY <1>1, <1>2, <1>4

LEMMA AppendPartKeeps ==
  ASSUME Trials \in Nat, BenchmarkInv, NEW p \in Processes, Benchmark!AppendPart(p)
  PROVE  BenchmarkInv'
  <1> DEFINE n == Len(rawTrials)
             row == Benchmark!Row(n + 1, own[p], FALSE)
  <1>1. place[p] = "running"
    BY DEF Benchmark!AppendPart, Benchmark!Goes
  <1>2. /\ read[p] = rawTrials /\ AllWhole /\ n \in Nat /\ Benchmark!Completed(p) = 1 .. n
    BY <1>1, NextTrial
  <1>3. own[p] \in Benchmark!Manifests /\ runManifest = {own[p]}
    BY <1>1, OwnRows DEF HasOpened
  <1>4. rawTrials' = Append(rawTrials, row) /\ n + 1 \in 1 .. Trials
    <2>1. PICK trial \in 1 .. Trials \ Benchmark!Completed(p) :
            /\ \A earlier \in 1 .. (trial - 1) : earlier \in Benchmark!Completed(p)
            /\ rawTrials' = Append(rawTrials, Benchmark!Row(trial, own[p], FALSE))
      BY DEF Benchmark!AppendPart
    <2>2. trial = n + 1
      BY <1>2, <2>1
    <2> QED
      BY <2>1, <2>2
  <1>5. row \in Benchmark!Rows /\ row.whole = FALSE
    BY <1>3, <1>4, RowIsARow DEF Benchmark!Row
  <1>6. rawTrials \in Seq(Benchmark!Rows) /\ n < Trials
    BY <1>2, <1>4 DEF BenchmarkInv, Benchmark!TypeOK
  <1> HIDE DEF row
  <1>7. /\ rawTrials' \in Seq(Benchmark!Rows) /\ Len(rawTrials') = n + 1 /\ rawTrials'[n + 1] = row
        /\ \A i \in 1 .. n : rawTrials'[i] = rawTrials[i]
    BY <1>4, <1>5, <1>6
  <1>8. Benchmark!TypeOK'
    BY <1>7 DEF BenchmarkInv, Benchmark!AppendPart, Benchmark!Goes, Benchmark!TypeOK
  <1>9. OneHolder'
    BY DEF BenchmarkInv, Benchmark!AppendPart, Benchmark!Goes, Benchmark!TypeOK, OneHolder, Holding
  <1>10. (OneManifest /\ OfTheManifest)'
    BY <1>1, OwnRows DEF BenchmarkInv, Benchmark!AppendPart, OneManifest, OfTheManifest, HasOpened
  <1>11. FilesAreOnes'
    BY DEF BenchmarkInv, Benchmark!AppendPart, Benchmark!Goes, Benchmark!TypeOK, FilesAreOnes, HasOpened
  <1>12. Benchmark!RowsAreASchedule'
    <2>1. ASSUME NEW i \in 1 .. n
          PROVE  /\ rawTrials'[i].whole
                 /\ rawTrials'[i] = Benchmark!Row(i, own[p], rawTrials'[i].whole)
      BY <1>1, <1>2, <1>6, <1>7, OwnRows DEF AllWhole, HasOpened
    <2>2. rawTrials'[n + 1] = Benchmark!Row(n + 1, own[p], rawTrials'[n + 1].whole)
      BY <1>5, <1>7 DEF row
    <2>3. runManifest' = {own[p]}
      BY <1>3 DEF Benchmark!AppendPart
    <2>4. DOMAIN rawTrials' = 1 .. n + 1 /\ n + 1 <= Trials
      BY <1>4, <1>7
    <2> QED
      BY <1>2, <1>7, <2>1, <2>2, <2>3, <2>4 DEF Benchmark!RowsAreASchedule
  <1>13. ~Benchmark!Whole
    BY <1>6 DEF Benchmark!Whole
  <1>14. KnowsTheRows'
    <2> SUFFICES ASSUME NEW q \in Processes
                 PROVE  /\ place'[q] = "running" => read'[q] = rawTrials' /\ AllWhole'
                        /\ place'[q] = "appending" =>
                             /\ Len(read'[q]) < Trials
                             /\ rawTrials' = Append(read'[q], Benchmark!Row(Len(read'[q]) + 1, own'[q], FALSE))
                        /\ place'[q] \in {"complete", "reporting", "aggregating"} => Benchmark!Whole'
                        /\ place'[q] \in {"reporting", "aggregating"} => read'[q] = rawTrials'
      BY DEF KnowsTheRows
    <2>1. CASE q = p
      BY <2>1, <1>2, <1>4, <1>6 DEF Benchmark!AppendPart, Benchmark!Goes, BenchmarkInv, Benchmark!TypeOK, row
    <2>2. CASE q # p
      <3>1. place'[q] = place[q]
        BY <2>2 DEF Benchmark!AppendPart, Benchmark!Goes, BenchmarkInv, Benchmark!TypeOK
      <3>2. place[q] \notin Holding
        BY <1>1, <2>2 DEF BenchmarkInv, OneHolder, Holding
      <3>3. place[q] \notin {"complete", "reporting", "aggregating"}
        BY <1>13 DEF BenchmarkInv, KnowsTheRows
      <3> QED
        BY <3>1, <3>2, <3>3 DEF Holding
    <2> QED
      BY <2>1, <2>2
  <1>15. AggregatesAreWhole'
    BY <1>13 DEF BenchmarkInv, Benchmark!AppendPart, AggregatesAreWhole
  <1> QED
    BY <1>8, <1>9, <1>10, <1>11, <1>12, <1>14, <1>15 DEF BenchmarkInv

\* The last of a sequence is replaced.
LEMMA ReplaceLast ==
  ASSUME NEW S, NEW s \in Seq(S), NEW x \in S, NEW y \in S
  PROVE  [Append(s, x) EXCEPT ![Len(s) + 1] = y] = Append(s, y)
  <1> DEFINE t == [Append(s, x) EXCEPT ![Len(s) + 1] = y]
  <1>1. t \in Seq(S) /\ Len(t) = Len(s) + 1
    OBVIOUS
  <1>2. Append(s, y) \in Seq(S) /\ Len(Append(s, y)) = Len(s) + 1
    OBVIOUS
  <1>3. \A i \in 1 .. Len(t) : t[i] = Append(s, y)[i]
    <2> SUFFICES ASSUME NEW i \in 1 .. Len(s) + 1 PROVE t[i] = Append(s, y)[i]
      BY <1>1
    <2>1. DOMAIN Append(s, x) = 1 .. Len(s) + 1
      OBVIOUS
    <2>2. CASE i = Len(s) + 1
      BY <2>1, <2>2
    <2>3. CASE i # Len(s) + 1
      <3>1. i \in 1 .. Len(s)
        BY <2>3
      <3>2. t[i] = Append(s, x)[i]
        BY <2>1, <2>3
      <3> QED
        BY <3>1, <3>2
    <2> QED
      BY <2>2, <2>3
  <1> QED
    BY <1>1, <1>2, <1>3, SeqEqual

LEMMA AppendRestKeeps ==
  ASSUME Trials \in Nat, BenchmarkInv, NEW p \in Processes, Benchmark!AppendRest(p)
  PROVE  BenchmarkInv'
  <1> DEFINE known == read[p]
             n == Len(known)
             row == Benchmark!Row(n + 1, own[p], TRUE)
  <1>1. place[p] = "appending"
    BY DEF Benchmark!AppendRest, Benchmark!Goes
  <1>2. known \in Seq(Benchmark!Rows) /\ n \in Nat /\ n < Trials /\ rawTrials = Append(known, Benchmark!Row(n + 1, own[p], FALSE))
    <2>1. known \in Seq(Benchmark!Rows) /\ n \in Nat
      BY DEF BenchmarkInv, Benchmark!TypeOK
    <2>2. n < Trials /\ rawTrials = Append(known, Benchmark!Row(n + 1, own[p], FALSE))
      BY <1>1 DEF BenchmarkInv, KnowsTheRows
    <2> QED
      BY <2>1, <2>2
  <1>3. own[p] \in Benchmark!Manifests /\ runManifest = {own[p]}
    BY <1>1, OwnRows DEF HasOpened
  <1>4. Benchmark!Row(n + 1, own[p], FALSE) \in Benchmark!Rows /\ row \in Benchmark!Rows /\ row.whole = TRUE
    <2>1. n + 1 \in 1 .. Trials
      BY <1>2
    <2>2. Benchmark!Row(n + 1, own[p], FALSE) \in Benchmark!Rows /\ row \in Benchmark!Rows
      BY <1>3, <2>1, RowIsARow
    <2>3. row.whole = TRUE
      BY DEF Benchmark!Row
    <2> QED
      BY <2>2, <2>3
  <1>5. /\ Len(rawTrials) = n + 1 /\ rawTrials[n + 1].trial = n + 1 /\ rawTrials[n + 1].whole = FALSE
        /\ \A i \in 1 .. n : rawTrials[i] = known[i]
    BY <1>2, <1>4 DEF Benchmark!Row
  <1>6. rawTrials' = [rawTrials EXCEPT ![n + 1] = row] /\ read' = [read EXCEPT ![p] = Append(known, row)]
    BY <1>5 DEF Benchmark!AppendRest
  <1>7. \A i \in 1 .. n : known[i] = Benchmark!Row(i, own[p], TRUE) /\ known[i].whole
    <2> SUFFICES ASSUME NEW i \in 1 .. n
                 PROVE  known[i] = Benchmark!Row(i, own[p], TRUE) /\ known[i].whole
      OBVIOUS
    <2>1. i \in DOMAIN rawTrials /\ i < Len(rawTrials)
      BY <1>2, <1>4, <1>5
    <2>2. rawTrials[i].whole /\ rawTrials[i].whole \in BOOLEAN
      BY <1>2, <1>5, <2>1 DEF BenchmarkInv, Benchmark!RowsAreASchedule, Benchmark!Rows
    <2>3. rawTrials[i] = Benchmark!Row(i, own[p], rawTrials[i].whole)
      BY <1>1, <2>1, OwnRows DEF HasOpened
    <2> QED
      BY <1>5, <2>2, <2>3
  <1> HIDE DEF row, known
  <1>8. rawTrials' = Append(known, row)
    <2> DEFINE torn == Benchmark!Row(n + 1, own[p], FALSE)
    <2>1. rawTrials = Append(known, torn) /\ torn \in Benchmark!Rows
      BY <1>2, <1>4
    <2> HIDE DEF torn
    <2>2. [Append(known, torn) EXCEPT ![Len(known) + 1] = row] = Append(known, row)
      BY <1>2, <1>4, <2>1, ReplaceLast
    <2> QED
      BY <1>6, <2>1, <2>2
  <1>9. /\ rawTrials' \in Seq(Benchmark!Rows) /\ Len(rawTrials') = n + 1 /\ rawTrials'[n + 1] = row
        /\ \A i \in 1 .. n : rawTrials'[i] = known[i]
    BY <1>2, <1>4, <1>8
  <1>10. AllWhole'
    <2>1. \A i \in 1 .. n : rawTrials'[i].whole
      BY <1>7, <1>9 DEF known
    <2> QED
      BY <1>2, <1>4, <1>9, <2>1 DEF AllWhole
  <1>11. Benchmark!TypeOK'
    <2>1. Append(known, row) \in Seq(Benchmark!Rows)
      BY <1>2, <1>4
    <2>2. read' \in [Processes -> Seq(Benchmark!Rows)]
      BY <1>6, <2>1 DEF BenchmarkInv, Benchmark!TypeOK
    <2> QED
      BY <1>9, <2>2 DEF BenchmarkInv, Benchmark!AppendRest, Benchmark!Goes, Benchmark!TypeOK
  <1>12. OneHolder'
    BY DEF BenchmarkInv, Benchmark!AppendRest, Benchmark!Goes, Benchmark!TypeOK, OneHolder, Holding
  <1>13. (OneManifest /\ OfTheManifest)'
    BY <1>1, OwnRows DEF BenchmarkInv, Benchmark!AppendRest, OneManifest, OfTheManifest, HasOpened
  <1>14. FilesAreOnes'
    BY DEF BenchmarkInv, Benchmark!AppendRest, Benchmark!Goes, Benchmark!TypeOK, FilesAreOnes, HasOpened
  <1>15. Benchmark!RowsAreASchedule'
    <2>1. \A i \in 1 .. n + 1 : rawTrials'[i] = Benchmark!Row(i, own[p], rawTrials'[i].whole)
      <3>1. \A i \in 1 .. n : rawTrials'[i] = Benchmark!Row(i, own[p], rawTrials'[i].whole)
        BY <1>7, <1>9 DEF Benchmark!Row, known
      <3>2. rawTrials'[n + 1] = Benchmark!Row(n + 1, own[p], rawTrials'[n + 1].whole)
        BY <1>4, <1>9 DEF row
      <3> QED
        BY <1>2, <3>1, <3>2
    <2>2. runManifest' = {own[p]}
      BY <1>3 DEF Benchmark!AppendRest
    <2>3. DOMAIN rawTrials' = 1 .. n + 1 /\ n + 1 <= Trials
      BY <1>2, <1>9
    <2> QED
      BY <1>9, <1>10, <2>1, <2>2, <2>3 DEF Benchmark!RowsAreASchedule, AllWhole
  <1>16. ~Benchmark!Whole
    <2>1. n + 1 \in DOMAIN rawTrials
      BY <1>2, <1>4, <1>5
    <2> QED
      BY <1>5, <2>1 DEF Benchmark!Whole
  <1>17. KnowsTheRows'
    <2> SUFFICES ASSUME NEW q \in Processes
                 PROVE  /\ place'[q] = "running" => read'[q] = rawTrials' /\ AllWhole'
                        /\ place'[q] = "appending" =>
                             /\ Len(read'[q]) < Trials
                             /\ rawTrials' = Append(read'[q], Benchmark!Row(Len(read'[q]) + 1, own'[q], FALSE))
                        /\ place'[q] \in {"complete", "reporting", "aggregating"} => Benchmark!Whole'
                        /\ place'[q] \in {"reporting", "aggregating"} => read'[q] = rawTrials'
      BY DEF KnowsTheRows
    <2>1. CASE q = p
      <3>1. place'[p] = "running" /\ read'[p] = Append(known, row)
        BY <1>6 DEF Benchmark!AppendRest, Benchmark!Goes, BenchmarkInv, Benchmark!TypeOK
      <3> QED
        BY <2>1, <3>1, <1>8, <1>10
    <2>2. CASE q # p
      <3>1. place'[q] = place[q]
        BY <2>2 DEF Benchmark!AppendRest, Benchmark!Goes, BenchmarkInv, Benchmark!TypeOK
      <3>2. place[q] \notin Holding
        BY <1>1, <2>2 DEF BenchmarkInv, OneHolder, Holding
      <3>3. place[q] \notin {"complete", "reporting", "aggregating"}
        BY <1>16 DEF BenchmarkInv, KnowsTheRows
      <3> QED
        BY <3>1, <3>2, <3>3 DEF Holding
    <2> QED
      BY <2>1, <2>2
  <1>18. AggregatesAreWhole'
    BY <1>16 DEF BenchmarkInv, Benchmark!AppendRest, AggregatesAreWhole
  <1> QED
    BY <1>11, <1>12, <1>13, <1>14, <1>15, <1>17, <1>18 DEF BenchmarkInv

LEMMA FinishKeeps ==
  ASSUME BenchmarkInv, NEW p \in Processes, Benchmark!Finish(p)
  PROVE  BenchmarkInv'
  <1>1. Benchmark!TypeOK'
    BY DEF BenchmarkInv, Benchmark!Finish, Benchmark!Releases, Benchmark!Forgets, Benchmark!TypeOK
  <1>2. OneHolder'
    BY DEF BenchmarkInv, Benchmark!Finish, Benchmark!Releases, Benchmark!TypeOK, OneHolder, Holding
  <1>3. (OneManifest /\ OfTheManifest /\ Benchmark!RowsAreASchedule /\ AggregatesAreWhole)'
    BY DEF BenchmarkInv, Benchmark!Finish, OneManifest, OfTheManifest, Benchmark!RowsAreASchedule, AggregatesAreWhole, Benchmark!Whole
  <1>4. FilesAreOnes'
    BY DEF BenchmarkInv, Benchmark!Finish, Benchmark!TypeOK, FilesAreOnes, HasOpened
  <1>5. AllWhole
    BY DEF Benchmark!Finish, Benchmark!Readable, AllWhole
  <1>6. KnowsTheRows'
    BY <1>5 DEF BenchmarkInv, Benchmark!Finish, Benchmark!Forgets, Benchmark!TypeOK, KnowsTheRows, AllWhole, Benchmark!Whole
  <1> QED
    BY <1>1, <1>2, <1>3, <1>4, <1>6 DEF BenchmarkInv

\* A run without the lock reads rows to which nobody adds any more.
LEMMA SummarizeKeeps ==
  ASSUME BenchmarkInv, NEW p \in Processes, Benchmark!Summarize(p)
  PROVE  BenchmarkInv'
  <1>1. Benchmark!TypeOK'
    BY DEF BenchmarkInv, Benchmark!Summarize, Benchmark!Goes, Benchmark!TypeOK
  <1>2. OneHolder'
    BY DEF BenchmarkInv, Benchmark!Summarize, Benchmark!Goes, Benchmark!TypeOK, OneHolder, Holding
  <1>3. (OneManifest /\ OfTheManifest /\ Benchmark!RowsAreASchedule /\ AggregatesAreWhole)'
    BY DEF BenchmarkInv, Benchmark!Summarize, OneManifest, OfTheManifest, Benchmark!RowsAreASchedule, AggregatesAreWhole, Benchmark!Whole
  <1>4. FilesAreOnes'
    BY DEF BenchmarkInv, Benchmark!Summarize, Benchmark!Goes, Benchmark!TypeOK, FilesAreOnes, HasOpened
  <1>5. Benchmark!Whole
    BY DEF Benchmark!Summarize, Benchmark!Readable, Benchmark!Whole
  <1>6. KnowsTheRows'
    BY <1>5 DEF BenchmarkInv, Benchmark!Summarize, Benchmark!Goes, Benchmark!TypeOK, KnowsTheRows, AllWhole, Benchmark!Whole
  <1> QED
    BY <1>1, <1>2, <1>3, <1>4, <1>6 DEF BenchmarkInv

LEMMA PublishKeeps ==
  ASSUME BenchmarkInv, NEW p \in Processes, Benchmark!Publish(p)
  PROVE  BenchmarkInv'
  <1>1. Benchmark!TypeOK'
    <2>1. read[p] \in Seq(Benchmark!Rows) /\ read' \in [Processes -> Seq(Benchmark!Rows)]
      BY DEF BenchmarkInv, Benchmark!Publish, Benchmark!Forgets, Benchmark!TypeOK
    <2> QED
      BY <2>1 DEF BenchmarkInv, Benchmark!Publish, Benchmark!Goes, Benchmark!Releases, Benchmark!TypeOK
  <1>2. OneHolder'
    BY DEF BenchmarkInv, Benchmark!Publish, Benchmark!Goes, Benchmark!Releases, Benchmark!TypeOK, OneHolder, Holding
  <1>3. (OneManifest /\ OfTheManifest /\ Benchmark!RowsAreASchedule)'
    BY DEF BenchmarkInv, Benchmark!Publish, OneManifest, OfTheManifest, Benchmark!RowsAreASchedule
  <1>4. FilesAreOnes'
    BY DEF BenchmarkInv, Benchmark!Publish, Benchmark!Goes, Benchmark!TypeOK, FilesAreOnes, HasOpened
  <1>5. KnowsTheRows'
    BY DEF BenchmarkInv, Benchmark!Publish, Benchmark!Goes, Benchmark!Forgets, Benchmark!TypeOK, KnowsTheRows, AllWhole, Benchmark!Whole
  <1>6. AggregatesAreWhole'
    BY DEF BenchmarkInv, Benchmark!Publish, Benchmark!Goes, KnowsTheRows, AggregatesAreWhole, Benchmark!Whole
  <1> QED
    BY <1>1, <1>2, <1>3, <1>4, <1>5, <1>6 DEF BenchmarkInv

LEMMA StutterKeeps == BenchmarkInv /\ UNCHANGED benchmarkVars => BenchmarkInv'
  <1> SUFFICES ASSUME BenchmarkInv, UNCHANGED benchmarkVars PROVE BenchmarkInv'
    OBVIOUS
  <1>1. Benchmark!TypeOK'
    BY DEF BenchmarkInv, benchmarkVars, Benchmark!TypeOK
  <1>2. (OneHolder /\ OneManifest /\ OfTheManifest /\ FilesAreOnes)'
    BY DEF BenchmarkInv, benchmarkVars, OneHolder, OneManifest, OfTheManifest, FilesAreOnes
  <1>3. (Benchmark!RowsAreASchedule /\ AggregatesAreWhole)'
    BY DEF BenchmarkInv, benchmarkVars, Benchmark!RowsAreASchedule, AggregatesAreWhole, Benchmark!Whole
  <1>4. KnowsTheRows'
    BY DEF BenchmarkInv, benchmarkVars, KnowsTheRows, AllWhole, Benchmark!Whole
  <1> QED
    BY <1>1, <1>2, <1>3, <1>4 DEF BenchmarkInv

\* The invariant is kept by every step.
LEMMA BenchmarkNext == Trials \in Nat /\ BenchmarkInv /\ [Benchmark!Next]_benchmarkVars => BenchmarkInv'
  <1> SUFFICES ASSUME Trials \in Nat, BenchmarkInv, [Benchmark!Next]_benchmarkVars PROVE BenchmarkInv'
    OBVIOUS
  <1> QED
    BY RunKeeps, AggregateKeeps, LockKeeps, InitializeManifestKeeps, InitializeEnvironmentKeeps,
       InitializeProtocolKeeps, ResumeKeeps, AppendPartKeeps, AppendRestKeeps, FinishKeeps,
       SummarizeKeeps, PublishKeeps, StopKeeps, StutterKeeps DEF Benchmark!Next

\* What the invariant says to a reader of the run.
LEMMA BenchmarkInvIsEvidence == Trials \in Nat /\ BenchmarkInv => Benchmark!TypeOK /\ Benchmark!EvidenceHolds
  <1> SUFFICES ASSUME BenchmarkInv PROVE Benchmark!TypeOK /\ Benchmark!EvidenceHolds
    OBVIOUS
  <1>1. Benchmark!RowsAreASchedule
    BY DEF BenchmarkInv
  <1>2. Cardinality(runManifest) <= 1
    <2>1. CASE runManifest = {}
      BY <2>1, FS_EmptySet
    <2>2. CASE runManifest # {}
      <3>1. PICK m \in runManifest : TRUE
        BY <2>2
      <3>2. runManifest = {m}
        BY <3>1 DEF BenchmarkInv, OneManifest
      <3>3. Cardinality(runManifest) = 1
        BY <3>2, FS_Singleton, Zenon
      <3> QED
        BY <3>3
    <2> QED
      BY <2>1, <2>2
  <1>3. Benchmark!FilesBelongTogether
    <2>1. OfTheManifest
      BY DEF BenchmarkInv
    <2> QED
      BY <1>2, <2>1 DEF OfTheManifest, Benchmark!FilesBelongTogether, Cardinality, Benchmark!Cardinality
  <1>4. Benchmark!ReportsAreOfAllTrials
    BY DEF BenchmarkInv, KnowsTheRows, AggregatesAreWhole, Benchmark!ReportsAreOfAllTrials
  <1> QED
    BY <1>1, <1>3, <1>4 DEF BenchmarkInv, Benchmark!EvidenceHolds

\* The rows of a run are the first trials of its schedule, each once and of its identity,
\* its files belong together, and what was called complete or aggregated is whole, for any
\* number of processes, of trials, and whatever races or dies (RunRepository,
\* BenchmarkRunner.run, command._execute, command._aggregate).
THEOREM EvidenceIsKept == MCSpec => []BenchmarkEvidence
<1>1. MCInit => BenchmarkInv
  BY TrialsValid, BenchmarkInit DEF MCInit
<1>2. BenchmarkInv /\ [MCNext]_allVars => BenchmarkInv'
  BY TrialsValid, PartsMoveAlone, BenchmarkNext
<1>3. BenchmarkInv => BenchmarkEvidence
  BY TrialsValid, BenchmarkInvIsEvidence DEF BenchmarkEvidence
<1> QED BY <1>1, <1>2, <1>3, PTL DEF MCSpec, allVars

----------------------------------------------------------------------------
(* The plans an engine chooses from.                                        *)

\* A set of numbers that is not empty has a least one.
LEMMA LeastExists ==
  ASSUME NEW S, S \subseteq Nat, S # {}
  PROVE  \E i \in S : \A j \in S : i <= j
<1>1. PICK i \in S : \A j \in S : ~(<<j, i>> \in OpToRel(<, Nat))
  BY WFMin, NatLessThanWellFounded
<1>2. \A j \in S : ~(j < i)
  BY <1>1 DEF OpToRel
<1> QED BY <1>2

\* What a catalog's validators leave of a plan, whatever its depth is changed to.
PlanGiven(plan) ==
  /\ plan.vector \in BOOLEAN /\ plan.graph \in BOOLEAN /\ (plan.vector \/ plan.graph)
  /\ plan.vectorK \in 0 .. 50 /\ plan.graphK \in 0 .. 50
  /\ plan.vector <=> plan.vectorK # 0
  /\ plan.graph <=> plan.graphK # 0

LEMMA PlansGiven ==
  /\ \A p \in 0 .. 8 : PlanGiven(Catalog[p])
  /\ PlanGiven([Catalog[3] EXCEPT !.depth = 2])
  /\ \A p \in {0, 1} : ~Catalog[p].graph
<1>1. ASSUME NEW p \in 0 .. 8
      PROVE  PlanGiven(Catalog[p])
  <2>1. Catalog[p] \in PlanShapes /\ PlanValid(Catalog[p])
    BY CatalogValid
  <2>2. Catalog[p].vectorK <= 50 /\ Catalog[p].graphK <= 50
    BY CatalogShipped
  <2> QED BY <2>1, <2>2 DEF PlanShapes, PlanValid, PlanGiven
<1>2. PlanGiven([Catalog[3] EXCEPT !.depth = 2])
  <2>1. Catalog[3] \in PlanShapes
    BY CatalogValid
  <2>2. PlanGiven(Catalog[3])
    BY <1>1
  <2>3. /\ [Catalog[3] EXCEPT !.depth = 2].vector = Catalog[3].vector
        /\ [Catalog[3] EXCEPT !.depth = 2].graph = Catalog[3].graph
        /\ [Catalog[3] EXCEPT !.depth = 2].vectorK = Catalog[3].vectorK
        /\ [Catalog[3] EXCEPT !.depth = 2].graphK = Catalog[3].graphK
    BY <2>1 DEF PlanShapes
  <2> QED BY <2>2, <2>3 DEF PlanGiven
<1> QED BY <1>1, <1>2, CatalogShipped

\* A decision is within the bounds of its model, and its mode says which stores it asks.
SoundDecision(d) ==
  /\ Engine!DecisionValid(d)
  /\ d.effective \in {"vector", "graph", "fixed_hybrid"}
  /\ "graph" \in Engine!BranchesOf(d.effective) <=> d.plan.graph
  /\ d.effective = "fixed_hybrid" <=> Engine!BranchesOf(d.effective) = Engine!Kinds
  /\ Engine!BranchesOf(d.effective) \in {{"vector"}, {"graph"}, Engine!Kinds}
  /\ d.plan.graph \in BOOLEAN
  /\ DOMAIN d = {"mode", "effective", "id", "plan", "vectorK", "graphK", "left", "feasible", "fallback"}

LEMMA DecisionIsSound ==
  ASSUME NEW plan, PlanGiven(plan), NEW topK \in 1 .. 50,
         NEW mode, NEW id, NEW left, NEW feasible, NEW fallback
  PROVE  SoundDecision(Engine!Decision(mode, id, plan, topK, left, feasible, fallback))
<1> DEFINE d == Engine!Decision(mode, id, plan, topK, left, feasible, fallback)
<1>1. /\ d.plan = plan /\ d.effective = Engine!ModeOf(plan)
      /\ DOMAIN d = {"mode", "effective", "id", "plan", "vectorK", "graphK", "left", "feasible", "fallback"}
      /\ d.vectorK = IF plan.vector THEN Engine!Larger(topK, plan.vectorK) ELSE 0
      /\ d.graphK = IF plan.graph THEN Engine!Larger(topK, plan.graphK) ELSE 0
  BY DEF Engine!Decision
<1> HIDE DEF d
<1>2. /\ d.vectorK \in 0 .. 50 /\ d.graphK \in 0 .. 50
      /\ plan.vector <=> d.vectorK # 0
      /\ plan.graph <=> d.graphK # 0
  BY <1>1 DEF PlanGiven, Engine!Larger
<1>3. /\ d.effective = "fixed_hybrid" <=> plan.vector /\ plan.graph
      /\ d.effective = "vector" <=> plan.vector /\ ~plan.graph
      /\ d.effective = "graph" <=> ~plan.vector /\ plan.graph
  BY <1>1 DEF PlanGiven, Engine!ModeOf
<1>4. /\ d.effective = "vector" => Engine!BranchesOf(d.effective) = {"vector"}
      /\ d.effective = "graph" => Engine!BranchesOf(d.effective) = {"graph"}
      /\ d.effective = "fixed_hybrid" => Engine!BranchesOf(d.effective) = Engine!Kinds
  BY DEF Engine!BranchesOf
<1>5. Engine!DecisionValid(d)
  BY <1>1, <1>2 DEF Engine!DecisionValid
<1>6. /\ d.effective \in {"vector", "graph", "fixed_hybrid"} /\ plan.graph \in BOOLEAN
  BY <1>3 DEF PlanGiven
<1>7. /\ "graph" \in Engine!BranchesOf(d.effective) <=> plan.graph
      /\ d.effective = "fixed_hybrid" <=> Engine!BranchesOf(d.effective) = Engine!Kinds
      /\ Engine!BranchesOf(d.effective) \in {{"vector"}, {"graph"}, Engine!Kinds}
  <2>1. /\ "graph" \in Engine!Kinds /\ "graph" \notin {"vector"} /\ "graph" \in {"graph"}
        /\ Engine!Kinds # {"vector"} /\ Engine!Kinds # {"graph"}
    BY DEF Engine!Kinds
  <2> QED BY <1>3, <1>4, <1>6, <2>1
<1>8. SoundDecision(d)
  BY <1>1, <1>5, <1>6, <1>7 DEF SoundDecision
<1> QED BY <1>8 DEF d

----------------------------------------------------------------------------
(* The rule planner.                                                        *)

\* The plan is the first of its ladder that fits, or plan 0.
IsFirst(id, ladder, query, left, allowed) ==
  LET fits(i) == Engine!Feasible(ladder[i], query, left, allowed) IN
  \/ id = 0 /\ \A i \in DOMAIN ladder : ~fits(i)
  \/ \E i \in DOMAIN ladder : /\ id = ladder[i] /\ fits(i)
                              /\ \A j \in DOMAIN ladder : fits(j) => i <= j

LEMMA FirstOfLadder ==
  ASSUME NEW ladder, DOMAIN ladder \subseteq Nat, NEW query, NEW left, NEW allowed
  PROVE  IsFirst(Engine!FirstFeasible(ladder, query, left, allowed), ladder, query, left, allowed)
<1> DEFINE fits == {i \in DOMAIN ladder : Engine!Feasible(ladder[i], query, left, allowed)}
           id == Engine!FirstFeasible(ladder, query, left, allowed)
<1>1. id = IF fits = {} THEN 0 ELSE ladder[CHOOSE i \in fits : \A j \in fits : i <= j]
  BY DEF Engine!FirstFeasible
<1>2. fits \subseteq Nat
  OBVIOUS
<1>3. CASE fits = {}
  <2>1. id = 0 /\ \A i \in DOMAIN ladder : ~Engine!Feasible(ladder[i], query, left, allowed)
    BY <1>1, <1>3
  <2> QED BY <2>1 DEF IsFirst
<1>4. CASE fits # {}
  <2> DEFINE least == CHOOSE i \in fits : \A j \in fits : i <= j
  <2>1. \E i \in fits : \A j \in fits : i <= j
    <3> HIDE DEF fits
    <3> QED BY <1>2, <1>4, LeastExists
  <2>2. least \in fits /\ \A j \in fits : least <= j
    BY <2>1
  <2>3. id = ladder[least]
    BY <1>1, <1>4
  <2> HIDE DEF least, id
  <2>4. IsFirst(id, ladder, query, left, allowed)
    BY <2>2, <2>3 DEF IsFirst
  <2> QED BY <2>4 DEF id
<1> QED BY <1>3, <1>4

\* The ladders, each of the candidates, the lesser plan later.
Descends(ladder) ==
  /\ DOMAIN ladder \in {1 .. 1, 1 .. 2, 1 .. 4, 1 .. 5}
  /\ \A i \in DOMAIN ladder : ladder[i] \in Candidates
  /\ \A i, j \in DOMAIN ladder : i <= j => ladder[j] <= ladder[i]

LEMMA LaddersDescend ==
  /\ Descends(<<0>>) /\ Descends(Engine!SimpleOrder)
  /\ Descends(Engine!RelationOrder) /\ Descends(Engine!MultiHopOrder)
<1>1. Descends(<<0>>)
  BY DEF Descends, Candidates
<1>2. Descends(Engine!SimpleOrder)
  BY DEF Descends, Candidates, Engine!SimpleOrder
<1>3. Descends(Engine!RelationOrder)
  BY DEF Descends, Candidates, Engine!RelationOrder
<1>4. Descends(Engine!MultiHopOrder)
  BY DEF Descends, Candidates, Engine!MultiHopOrder
<1> QED BY <1>1, <1>2, <1>3, <1>4

\* The first that fits is a candidate of the ladder, and any but plan 0 fits.
LEMMA FirstIsOfLadder ==
  ASSUME NEW ladder, Descends(ladder), NEW query, NEW left, NEW allowed
  PROVE  LET id == Engine!FirstFeasible(ladder, query, left, allowed) IN
         /\ id \in Candidates /\ id \in {0} \cup {ladder[i] : i \in DOMAIN ladder}
         /\ id # 0 => Engine!Feasible(id, query, left, allowed)
<1> DEFINE id == Engine!FirstFeasible(ladder, query, left, allowed)
<1>1. IsFirst(id, ladder, query, left, allowed)
  BY FirstOfLadder DEF Descends
<1> HIDE DEF id
<1>2. /\ id \in Candidates /\ id \in {0} \cup {ladder[i] : i \in DOMAIN ladder}
      /\ id # 0 => Engine!Feasible(id, query, left, allowed)
  BY <1>1 DEF IsFirst, Descends, Candidates
<1> QED BY <1>2 DEF id

\* A decision of the rule planner that asks the graph had every reason to.
RuleGraph(d, query, runtime) ==
  d.plan.graph => /\ query.language /\ GraphTier /\ runtime /\ query.signals # {}
                  /\ d.feasible /\ d.left > LowBudget

LEMMA RuleDecisionSound ==
  ASSUME NEW query, query.topK \in 1 .. 50, NEW left \in Nat, NEW runtime
  PROVE  /\ SoundDecision(Engine!RuleDecision(query, left, runtime))
         /\ RuleGraph(Engine!RuleDecision(query, left, runtime), query, runtime)
<1> DEFINE allowed == GraphTier /\ runtime
           ladder == Engine!Ladder(query, left, allowed)
           id == Engine!FirstFeasible(ladder, query, left, allowed)
           feasible == Engine!Feasible(id, query, left, allowed)
           fallback == Engine!RuleFallback(query, left, allowed)
           d == Engine!Decision("rule", id, Catalog[id], query.topK, left, feasible, fallback)
<1>1. Engine!RuleDecision(query, left, runtime) = d
  BY DEF Engine!RuleDecision
<1>2. ladder \in {<<0>>, Engine!SimpleOrder, Engine!RelationOrder, Engine!MultiHopOrder}
  BY DEF Engine!Ladder
<1>3. Descends(ladder)
  BY <1>2, LaddersDescend
<1> HIDE DEF ladder
<1>4. /\ id \in Candidates /\ id \in {0} \cup {ladder[i] : i \in DOMAIN ladder}
      /\ id # 0 => feasible
  BY <1>3, FirstIsOfLadder
<1>5. d.plan = Catalog[id] /\ d.left = left /\ d.feasible = feasible
  BY DEF Engine!Decision
<1> HIDE DEF id, feasible, fallback
<1>6. PlanGiven(Catalog[id])
  BY <1>4, PlansGiven DEF Candidates
<1>7. SoundDecision(d)
  BY <1>6, DecisionIsSound
<1> HIDE DEF d
<1>8. RuleGraph(d, query, runtime)
  <2> SUFFICES ASSUME d.plan.graph
               PROVE  /\ query.language /\ allowed /\ query.signals # {}
                      /\ d.feasible /\ d.left > LowBudget
    BY DEF RuleGraph
  <2>1. id \notin {0, 1}
    BY <1>5, PlansGiven
  <2>2. d.feasible
    BY <1>4, <1>5, <2>1
  <2>3. ladder # <<0>> /\ ladder # Engine!SimpleOrder
    <3>1. ladder # <<0>>
      <4> SUFFICES ladder = <<0>> => FALSE
        OBVIOUS
      <4> QED BY <1>4, <2>1
    <3>2. ASSUME ladder = Engine!SimpleOrder PROVE FALSE
      BY <1>4, <2>1, <3>2 DEF Engine!SimpleOrder
    <3> QED BY <3>1, <3>2
  <2>4. query.language /\ ~(left <= LowBudget) /\ query.signals # {} /\ allowed
    BY <2>3 DEF ladder, Engine!Ladder
  <2> QED BY <1>5, <2>2, <2>4, ProfilesValid
<1> QED BY <1>1, <1>7, <1>8

----------------------------------------------------------------------------
(* What is chosen for a call that is not refused.                           *)

Admitted(c) == c \in Searches /\ Engine!RequestValid(c) /\ Engine!Refusal(c) = ""
Spoken(c) == c.language \/ Engine!Effective(c) \in {"vector", "rule"}

\* The reasons an engine has for a decision that asks the graph.
GraphReason(c, d) ==
  d.plan.graph =>
    /\ c.language /\ ~c.force
    /\ c.mode = "rule" => /\ GraphTier /\ ~c.open /\ c.signals # {}
                          /\ d.feasible /\ d.left > LowBudget

\* A call that is not refused is one for a profile, one that is forced to the vector
\* store, or one for its own mode.
LEMMA AdmittedCalls ==
  ASSUME NEW c, Admitted(c)
  PROVE  \/ /\ c.profile \in 0 .. 8 /\ ~c.force /\ c.mode = Engine!ModeOf(Catalog[c.profile])
            /\ Engine!Effective(c) = c.mode
         \/ c.profile = -1 /\ c.force /\ Engine!Effective(c) = "vector"
         \/ /\ c.profile = -1 /\ ~c.force /\ Engine!Effective(c) = c.mode
            /\ c.mode \in {"vector", "graph", "fixed_hybrid", "rule"}
<1>1. /\ c.engine \in {"dual", "vector", "graph"}
      /\ c.mode \in {"vector", "graph", "fixed_hybrid", "rule", "cost_aware"}
      /\ c.force \in BOOLEAN
      /\ c.engine # "dual" => c.depth = 0 /\ c.profile = -1 /\ ~c.force
  BY SearchesValid DEF Admitted, CallShapes
<1>2. CASE c.engine # "dual"
  <2>1. c.mode \in {"vector", "graph", "rule"}
    BY <1>1, <1>2 DEF Admitted, Engine!Refusal
  <2> QED BY <1>1, <1>2, <2>1 DEF Engine!Effective
<1>3. CASE c.engine = "dual"
  <2>1. Engine!BenchmarkRefusal(c) = "" /\ Engine!DualRefusal(c) = ""
    BY <1>3 DEF Admitted, Engine!Refusal
  <2>2. CASE c.profile = -1
    <3>1. c.mode = "cost_aware" => c.force
      BY <2>1, <2>2 DEF Engine!DualRefusal
    <3> QED BY <1>1, <2>2, <3>1 DEF Engine!Effective
  <2>3. CASE c.profile # -1
    <3>1. c.profile \in Engine!Enabled /\ c.mode = Engine!ModeOf(Catalog[c.profile])
      BY <2>1, <2>3 DEF Engine!BenchmarkRefusal
    <3>2. ~c.force
      BY <2>1, <2>3 DEF Engine!DualRefusal
    <3> QED BY <2>3, <3>1, <3>2 DEF Engine!Effective, Engine!Enabled
  <2> QED BY <2>2, <2>3
<1> QED BY <1>2, <1>3

LEMMA ChosenIsSound ==
  ASSUME NEW c, Admitted(c), NEW left \in Nat
  PROVE  /\ SoundDecision(Engine!Chosen(c, left))
         /\ Spoken(c) => GraphReason(c, Engine!Chosen(c, left))
<1> DEFINE d == Engine!Chosen(c, left)
<1>1. /\ c.topK \in 1 .. 50
      /\ c.planId # 0 => c.planId \in {4, 5, 6, 8}
  BY DEF Admitted, Engine!RequestValid
<1>2. \A p \in 0 .. 8 : Engine!ModeOf(Catalog[p]) \in {"vector", "graph", "fixed_hybrid"}
                        /\ (Engine!ModeOf(Catalog[p]) = "vector" => ~Catalog[p].graph)
  <2> TAKE p \in 0 .. 8
  <2> QED BY PlansGiven DEF PlanGiven, Engine!ModeOf
<1>3. CASE /\ c.profile \in 0 .. 8 /\ ~c.force /\ c.mode = Engine!ModeOf(Catalog[c.profile])
           /\ Engine!Effective(c) = c.mode
  <2>1. d = Engine!Decision(c.mode, c.profile, Catalog[c.profile], c.topK, left, TRUE, <<>>)
    <3>1. c.profile # -1
      BY <1>3
    <3> QED BY <3>1 DEF Engine!Chosen, Engine!ProfileDecision
  <2>2. d.plan = Catalog[c.profile]
    BY <2>1 DEF Engine!Decision
  <2>3. SoundDecision(d)
    BY <1>1, <1>3, <2>1, PlansGiven, DecisionIsSound
  <2>4. Spoken(c) => GraphReason(c, d)
    BY <1>2, <1>3, <2>2 DEF Spoken, GraphReason
  <2> QED BY <2>3, <2>4
<1>4. CASE Engine!Effective(c) = "vector" /\ c.profile = -1
  <2> DEFINE id == IF c.topK <= 10 THEN 0 ELSE 1
             fallback == IF c.force /\ c.mode # "vector" THEN <<"force_vector">> ELSE <<>>
  <2>1. d = Engine!Decision(c.mode, id, Catalog[id], c.topK, left, TRUE, fallback)
    BY <1>4 DEF Engine!Chosen, Engine!VectorDecision
  <2>2. id \in {0, 1}
    OBVIOUS
  <2> HIDE DEF id, fallback
  <2>3. d.plan = Catalog[id] /\ ~d.plan.graph
    BY <2>1, <2>2, PlansGiven DEF Engine!Decision
  <2>4. PlanGiven(Catalog[id])
    BY <2>2, PlansGiven
  <2> QED BY <1>1, <2>1, <2>3, <2>4, DecisionIsSound DEF GraphReason
<1>5. CASE /\ c.profile = -1 /\ ~c.force /\ Engine!Effective(c) = c.mode /\ c.mode = "graph"
  <2> DEFINE id == IF c.depth = 0 THEN (IF c.topK <= 20 THEN 2 ELSE 3) ELSE IF c.depth = 1 THEN 2 ELSE 3
             plan == IF c.depth = 2 THEN [Catalog[3] EXCEPT !.depth = 2] ELSE Catalog[id]
  <2>1. d = Engine!Decision("graph", id, plan, c.topK, left, TRUE, <<>>)
    BY <1>5 DEF Engine!Chosen, Engine!GraphDecision
  <2>2. id \in 0 .. 8
    OBVIOUS
  <2>3. PlanGiven(plan)
    <3> HIDE DEF id
    <3> QED BY <2>2, PlansGiven
  <2> HIDE DEF id, plan
  <2>4. SoundDecision(d)
    BY <1>1, <2>1, <2>3, DecisionIsSound
  <2>5. Spoken(c) => GraphReason(c, d)
    BY <1>5 DEF Spoken, GraphReason
  <2> QED BY <2>4, <2>5
<1>6. CASE /\ c.profile = -1 /\ ~c.force /\ Engine!Effective(c) = c.mode /\ c.mode = "fixed_hybrid"
  <2> DEFINE id == IF c.planId = 0 THEN 5 ELSE c.planId
  <2>1. d = Engine!Decision("fixed_hybrid", id, Catalog[id], c.topK, left, TRUE, <<>>)
    BY <1>6 DEF Engine!Chosen, Engine!FixedDecision
  <2>2. id \in 0 .. 8
    BY <1>1
  <2> HIDE DEF id
  <2>3. SoundDecision(d)
    BY <1>1, <2>1, <2>2, PlansGiven, DecisionIsSound
  <2>4. Spoken(c) => GraphReason(c, d)
    BY <1>6 DEF Spoken, GraphReason
  <2> QED BY <2>3, <2>4
<1>7. CASE /\ c.profile = -1 /\ ~c.force /\ Engine!Effective(c) = c.mode /\ c.mode = "rule"
  <2> DEFINE query == [language |-> c.language, signals |-> c.signals, topK |-> c.topK]
             runtime == c.engine = "dual" /\ ~c.open
  <2>1. d = Engine!RuleDecision(query, left, runtime)
    BY <1>7 DEF Engine!Chosen
  <2>2. query.topK = c.topK /\ query.language = c.language /\ query.signals = c.signals
    OBVIOUS
  <2> HIDE DEF query
  <2>3. SoundDecision(d) /\ RuleGraph(d, query, runtime)
    BY <1>1, <2>1, <2>2, RuleDecisionSound
  <2>4. GraphReason(c, d)
    BY <1>7, <2>2, <2>3 DEF GraphReason, RuleGraph
  <2> QED BY <2>3, <2>4
<1> QED BY <1>3, <1>4, <1>5, <1>6, <1>7, AdmittedCalls

----------------------------------------------------------------------------
(* A search through an engine.                                              *)

Route == <<"received", "analyzing", "planning", "executing", "fusing">>
Ends == {"complete", "partial"}
Happenings ==
  [state : {"received", "analyzing", "planning", "executing", "fusing", "reranking",
            "complete", "partial", "failed"}, at : Nat]

\* The states so far are the first of the route.
OnRoute(passed) == Len(passed) \in 1 .. 5 /\ \A i \in 1 .. Len(passed) : passed[i].state = Route[i]

CallOk == call \in Searches /\ Engine!RequestValid(call) /\ now \in Nat

EventsOk ==
  /\ events \in Seq(Happenings) /\ Len(events) >= 1
  /\ \A i \in 1 .. Len(events) : events[i].at <= now
  /\ \A i, j \in 1 .. Len(events) : i < j => events[i].at <= events[j].at

\* Neither answered nor failed.
Unanswered == outcome = ""

IsCode(code) == code # "" /\ code # "validation_error"

RouteOk == Unanswered => OnRoute(events) \/ Engine!State \in Ends

\* What a request has passed when it has come so far.
PhaseOk ==
  Unanswered =>
    /\ Engine!State # "received" => Engine!Refusal(call) = ""
    /\ Engine!State \notin {"received", "analyzing"} => Spoken(call)
    /\ Engine!State \in {"executing", "fusing"} => decision # <<>>
    /\ Engine!State \in {"received", "analyzing", "planning", "executing"} => branches = <<>>
    /\ Engine!State = "fusing" => branches # <<>> /\ Engine!Raised(branches) = ""

DecisionOk ==
  decision # <<>> =>
    Admitted(call) /\ Spoken(call) /\ \E left \in Nat : decision = Engine!Chosen(call, left)

\* What is known of a branch that has ended: it is a valid result, a code goes with a
\* failure, and chunks are those a branch may find.
Coded(r) ==
  \/ r.status = "succeeded" /\ r.code = ""
  \/ r.status \in {"timed_out", "cancelled"} /\ r.code = ""
  \/ r.status = "failed" /\ r.code \in Engine!Codes

SoundBranch(r) ==
  /\ Engine!BranchResultValid(r) /\ Coded(r)
  /\ r.status = "succeeded" => r.hits \in Shares
  /\ r.started \in Int

BranchesOk ==
  branches # <<>> =>
    /\ decision # <<>>
    /\ DOMAIN branches = Engine!BranchesOf(decision.effective)
    /\ \A b \in DOMAIN branches : SoundBranch(branches[b])

AnswerOk ==
  /\ answer # <<>> <=> Engine!State \in Ends
  /\ answer # <<>> => branches # <<>> /\ answer.status \in Ends

OutcomeOk == outcome # "validation_error"

EngineInv == /\ CallOk /\ EventsOk /\ RouteOk /\ PhaseOk
             /\ DecisionOk /\ BranchesOk /\ AnswerOk /\ OutcomeOk

\* What the route says of a state.
LEMMA RouteTells ==
  ASSUME OnRoute(events)
  PROVE  /\ Engine!State = Route[Len(events)]
         /\ Engine!State = "received" <=> Len(events) = 1
         /\ Engine!State = "analyzing" <=> Len(events) = 2
         /\ Engine!State = "planning" <=> Len(events) = 3
         /\ Engine!State = "executing" <=> Len(events) = 4
         /\ Engine!State = "fusing" <=> Len(events) = 5
         /\ Engine!State \notin Ends
<1>1. Len(events) \in 1 .. 5 /\ Engine!State = Route[Len(events)]
  BY DEF OnRoute, Engine!State
<1>2. /\ Route[1] = "received" /\ Route[2] = "analyzing" /\ Route[3] = "planning"
      /\ Route[4] = "executing" /\ Route[5] = "fusing"
  BY DEF Route
<1>3. \A i \in 1 .. 5 :
        /\ Route[i] = "received" <=> i = 1
        /\ Route[i] = "analyzing" <=> i = 2
        /\ Route[i] = "planning" <=> i = 3
        /\ Route[i] = "executing" <=> i = 4
        /\ Route[i] = "fusing" <=> i = 5
        /\ Route[i] \notin Ends
  <2> TAKE i \in 1 .. 5
  <2>1. i = 1 \/ i = 2 \/ i = 3 \/ i = 4 \/ i = 5
    OBVIOUS
  <2> QED BY <1>2, <2>1 DEF Ends
<1> HIDE DEF Route
<1> QED BY <1>1, <1>3

\* One more event, at a time that is not before any.
LEMMA Entered ==
  ASSUME EventsOk, now \in Nat, NEW t \in Nat, now <= t,
         NEW state, [state |-> state, at |-> t] \in Happenings,
         events' = Append(events, [state |-> state, at |-> t]), now' \in Nat, t <= now'
  PROVE  /\ EventsOk' /\ Engine!State' = state
         /\ OnRoute(events) /\ Len(events) < 5 /\ state = Route[Len(events) + 1] => OnRoute(events)'
<1> DEFINE e == [state |-> state, at |-> t]
<1>1. e.state = state /\ e.at = t
  OBVIOUS
<1> HIDE DEF e
<1>2. events' = Append(events, e) /\ e \in Happenings
  BY DEF e
<1>3. /\ events' \in Seq(Happenings) /\ Len(events') = Len(events) + 1
      /\ \A i \in 1 .. Len(events) : events'[i] = events[i]
      /\ events'[Len(events) + 1] = e
  BY <1>2, AppendProperties DEF EventsOk
<1>4. Len(events) \in Nat /\ \A i \in 1 .. Len(events) : events[i].at \in Nat
  <2>1. \A i \in 1 .. Len(events) : events[i] \in Happenings
    BY ElementOfSeq DEF EventsOk
  <2>2. \A h \in Happenings : h.at \in Nat
    BY DEF Happenings
  <2> QED BY <2>1, <2>2, LenProperties DEF EventsOk
<1>5. Engine!State' = state
  BY <1>1, <1>3 DEF Engine!State
<1>6. \A i \in 1 .. Len(events') : events'[i].at <= now'
  BY <1>1, <1>3, <1>4 DEF EventsOk
<1>7. ASSUME NEW i \in 1 .. Len(events'), NEW j \in 1 .. Len(events'), i < j
      PROVE  events'[i].at <= events'[j].at
  <2>1. i \in 1 .. Len(events) /\ events'[i] = events[i]
    BY <1>3, <1>4, <1>7
  <2>2. CASE j \in 1 .. Len(events)
    BY <1>3, <1>7, <2>1, <2>2 DEF EventsOk
  <2>3. CASE j = Len(events) + 1
    BY <1>1, <1>3, <1>4, <2>1, <2>3 DEF EventsOk
  <2> QED BY <1>3, <1>4, <2>2, <2>3
<1>8. ASSUME OnRoute(events), Len(events) < 5, state = Route[Len(events) + 1]
      PROVE  OnRoute(events)'
  BY <1>1, <1>3, <1>4, <1>8 DEF OnRoute
<1> QED BY <1>3, <1>4, <1>5, <1>6, <1>7, <1>8 DEF EventsOk

\* An error leaves the request where nothing more is asked of it.
LEMMA FailedHolds ==
  ASSUME EngineInv, Unanswered, OnRoute(events),
         NEW code, IsCode(code), now \in Nat, NEW t \in Nat, now <= t,
         Engine!Fails(code, t), now' = t, UNCHANGED <<call, decision, answer>>
  PROVE  /\ CallOk' /\ EventsOk' /\ RouteOk' /\ PhaseOk' /\ DecisionOk' /\ AnswerOk'
         /\ OutcomeOk'
<1>0. ~Unanswered' /\ OutcomeOk'
  BY DEF Engine!Fails, Unanswered, OutcomeOk, IsCode
<1>1. CallOk /\ EventsOk /\ DecisionOk /\ AnswerOk /\ now \in Nat
  BY DEF EngineInv, CallOk
<1>2. CallOk' /\ DecisionOk' /\ RouteOk' /\ PhaseOk'
  BY <1>0, <1>1 DEF CallOk, DecisionOk, RouteOk, PhaseOk
<1>3. Engine!State \notin Ends /\ answer' = answer /\ answer = <<>>
  BY <1>1, RouteTells DEF AnswerOk
<1>4. CASE events' = Append(events, [state |-> "failed", at |-> t])
  <2>1. [state |-> "failed", at |-> t] \in Happenings
    BY DEF Happenings
  <2>2. EventsOk' /\ Engine!State' = "failed"
    BY <1>1, <1>4, <2>1, Entered
  <2>3. AnswerOk'
    BY <1>3, <2>2 DEF AnswerOk, Ends
  <2> QED BY <1>0, <1>2, <2>2, <2>3
<1>5. CASE events' = events
  <2>1. Engine!State' = Engine!State
    BY <1>5 DEF Engine!State
  <2>2. AnswerOk'
    BY <1>3, <2>1 DEF AnswerOk
  <2>3. \A i \in 1 .. Len(events) : events[i].at \in Nat
    <3>1. \A i \in 1 .. Len(events) : events[i] \in Happenings
      BY <1>1, ElementOfSeq DEF EventsOk
    <3> QED BY <3>1 DEF Happenings
  <2>4. \A i \in 1 .. Len(events) : events[i].at <= t
    <3>1. \A i \in 1 .. Len(events) : events[i].at <= now
      BY <1>1 DEF EventsOk
    <3> QED BY <1>1, <2>3, <3>1
  <2>5. EventsOk'
    BY <1>1, <1>5, <2>4 DEF EventsOk
  <2> QED BY <1>0, <1>2, <2>2, <2>5
<1> QED BY <1>4, <1>5 DEF Engine!Fails

\* The next state of the route is entered.
LEMMA EnteredHolds ==
  ASSUME EngineInv, Unanswered, OnRoute(events), NEW n \in 1 .. 4, Len(events) = n,
         NEW state, state = Route[n + 1], now \in Nat, NEW t \in Nat, now <= t,
         Engine!Enters(state, t), now' = t, UNCHANGED <<call, answer, outcome>>
  PROVE  /\ CallOk' /\ EventsOk' /\ RouteOk' /\ AnswerOk' /\ Unanswered' /\ OutcomeOk'
         /\ Engine!State' = state
<1>1. CallOk /\ EventsOk /\ AnswerOk /\ now \in Nat
  BY DEF EngineInv, CallOk
<1>2. n + 1 \in 2 .. 5
  OBVIOUS
<1>3. state \in {"analyzing", "planning", "executing", "fusing"}
  <2>1. \A i \in 2 .. 5 : Route[i] \in {"analyzing", "planning", "executing", "fusing"}
    <3> TAKE i \in 2 .. 5
    <3>1. i = 2 \/ i = 3 \/ i = 4 \/ i = 5
      OBVIOUS
    <3> QED BY <3>1 DEF Route
  <2> QED BY <1>2, <2>1
<1>4. [state |-> state, at |-> t] \in Happenings
  BY <1>3 DEF Happenings
<1>5. EventsOk' /\ Engine!State' = state /\ OnRoute(events)'
  <2>1. events' = Append(events, [state |-> state, at |-> t])
    BY DEF Engine!Enters
  <2> QED BY <1>1, <1>4, <2>1, Entered
<1>6. answer' = <<>>
  BY <1>1, RouteTells DEF AnswerOk
<1>7. AnswerOk'
  BY <1>3, <1>5, <1>6 DEF AnswerOk, Ends
<1>8. Unanswered' /\ OutcomeOk'
  BY DEF Unanswered, OutcomeOk, EngineInv
<1> QED BY <1>1, <1>5, <1>7, <1>8 DEF CallOk, RouteOk

LEMMA CutoffIsATime == CallOk => Engine!Cutoff \in Int /\ Engine!Absolute(call.budget) \in Nat
<1> SUFFICES ASSUME CallOk PROVE Engine!Cutoff \in Int /\ Engine!Absolute(call.budget) \in Nat
  OBVIOUS
<1> DEFINE budget == call.budget
<1>1. budget \in 25 .. 5000
  BY DEF CallOk, Engine!RequestValid, Engine!Budgets
<1> HIDE DEF budget
<1>2. Engine!Absolute(budget) \in Nat /\ Engine!BranchCutoff(budget) \in Int
  BY <1>1 DEF Engine!BranchCutoff, Engine!Absolute, Engine!Reserve, Engine!Smaller, Engine!Larger
<1> QED BY <1>2 DEF Engine!Cutoff, budget

\* Where a request is that still runs.
LEMMA RunningIsOnRoute ==
  ASSUME EngineInv, NEW state \in {"received", "analyzing", "planning", "executing", "fusing"},
         Engine!Running(state)
  PROVE  /\ Unanswered /\ Engine!State = state /\ OnRoute(events)
         /\ Route[1] = "received" /\ Route[2] = "analyzing" /\ Route[3] = "planning"
         /\ Route[4] = "executing" /\ Route[5] = "fusing"
         /\ Len(events) \in 1 .. 5 /\ state = Route[Len(events)] /\ now \in Nat
<1>1. Unanswered /\ Engine!State = state /\ OnRoute(events)
  BY DEF Unanswered, Engine!Running, EngineInv, RouteOk, Ends
<1>2. /\ Route[1] = "received" /\ Route[2] = "analyzing" /\ Route[3] = "planning"
      /\ Route[4] = "executing" /\ Route[5] = "fusing"
  BY DEF Route
<1> HIDE DEF Route
<1> QED BY <1>1, <1>2, RouteTells DEF OnRoute, EngineInv, CallOk

LEMMA ReceiveHolds == EngineInv /\ Engine!Receive => EngineInv'
<1> SUFFICES ASSUME EngineInv, Engine!Receive PROVE EngineInv'
  OBVIOUS
<1>1. /\ Unanswered /\ Engine!State = "received" /\ OnRoute(events) /\ Len(events) = 1
      /\ Route[2] = "analyzing" /\ now \in Nat /\ now' = now
      /\ UNCHANGED <<call, decision, branches, answer>>
  BY RunningIsOnRoute, RouteTells DEF Engine!Receive
<1>2. DecisionOk' /\ BranchesOk'
  BY <1>1 DEF EngineInv, DecisionOk, BranchesOk
<1>3. CASE Engine!Refusal(call) # ""
  <2>1. IsCode(Engine!Refusal(call))
    BY <1>3, SearchesValid
      DEF IsCode, Engine!Refusal, Engine!BenchmarkRefusal, Engine!DualRefusal, EngineInv, CallOk, CallShapes
  <2>2. Engine!Fails(Engine!Refusal(call), now)
    BY <1>3 DEF Engine!Receive
  <2>3. /\ CallOk' /\ EventsOk' /\ RouteOk' /\ PhaseOk' /\ DecisionOk' /\ AnswerOk'
        /\ OutcomeOk'
    <3> DEFINE code == Engine!Refusal(call)
    <3>1. IsCode(code) /\ Engine!Fails(code, now) /\ now <= now
      BY <1>1, <2>1, <2>2
    <3> HIDE DEF code
    <3> QED BY <1>1, <3>1, FailedHolds
  <2> QED BY <1>2, <2>3 DEF EngineInv
<1>4. CASE Engine!Refusal(call) = ""
  <2>1. Engine!Enters("analyzing", now) /\ UNCHANGED outcome
    BY <1>4 DEF Engine!Receive
  <2>2. /\ CallOk' /\ EventsOk' /\ RouteOk' /\ AnswerOk' /\ Unanswered' /\ OutcomeOk'
        /\ Engine!State' = "analyzing"
    <3>1. "analyzing" = Route[1 + 1] /\ now <= now
      BY <1>1
    <3> QED BY <1>1, <2>1, <3>1, EnteredHolds
  <2>3. Engine!Refusal(call)' = "" /\ branches' = <<>>
    BY <1>1, <1>4 DEF EngineInv, PhaseOk
  <2>4. PhaseOk'
    BY <2>2, <2>3 DEF PhaseOk
  <2> QED BY <1>2, <2>2, <2>4 DEF EngineInv
<1> QED BY <1>3, <1>4

LEMMA AnalyzeHolds ==
  ASSUME NEW t \in {now, Engine!Cutoff}
  PROVE  EngineInv /\ Engine!Analyze(t) => EngineInv'
<1> SUFFICES ASSUME EngineInv, Engine!Analyze(t) PROVE EngineInv'
  OBVIOUS
<1> DEFINE unsupported == ~call.language /\ Engine!Effective(call) \notin {"vector", "rule"}
           code == IF Engine!Late(t) /\ call.engine # "graph" THEN "DEADLINE_EXCEEDED"
                   ELSE IF unsupported THEN "MODE_UNAVAILABLE" ELSE ""
<1>1. /\ Unanswered /\ Engine!State = "analyzing" /\ OnRoute(events) /\ Len(events) = 2
      /\ Route[3] = "planning" /\ now \in Nat /\ now' = t
      /\ UNCHANGED <<call, decision, branches, answer>>
  BY RunningIsOnRoute, RouteTells DEF Engine!Analyze
<1>2. t \in Nat /\ now <= t
  <2>1. Engine!Cutoff \in Int
    BY CutoffIsATime DEF EngineInv
  <2>2. t >= now
    BY DEF Engine!Analyze
  <2> QED BY <1>1, <2>1, <2>2
<1>3. DecisionOk' /\ BranchesOk'
  BY <1>1 DEF EngineInv, DecisionOk, BranchesOk
<1>4. CASE code # ""
  <2>1. IsCode(code)
    BY <1>4 DEF IsCode
  <2>2. Engine!Fails(code, t)
    BY <1>4 DEF Engine!Analyze
  <2> HIDE DEF code
  <2>3. /\ CallOk' /\ EventsOk' /\ RouteOk' /\ PhaseOk' /\ DecisionOk' /\ AnswerOk' /\ OutcomeOk'
    BY <1>1, <1>2, <2>1, <2>2, FailedHolds
  <2> QED BY <1>3, <2>3 DEF EngineInv
<1>5. CASE code = ""
  <2>1. Engine!Enters("planning", t) /\ UNCHANGED outcome
    BY <1>5 DEF Engine!Analyze
  <2>2. ~unsupported
    BY <1>5
  <2>3. /\ CallOk' /\ EventsOk' /\ RouteOk' /\ AnswerOk' /\ Unanswered' /\ OutcomeOk'
        /\ Engine!State' = "planning"
    <3>1. "planning" = Route[2 + 1]
      BY <1>1
    <3> HIDE DEF code
    <3> QED BY <1>1, <1>2, <2>1, <3>1, EnteredHolds
  <2>4. Spoken(call)' /\ Engine!Refusal(call)' = "" /\ branches' = <<>>
    BY <1>1, <2>2 DEF Spoken, EngineInv, PhaseOk
  <2>5. PhaseOk'
    BY <2>3, <2>4 DEF PhaseOk
  <2> QED BY <1>3, <2>3, <2>5 DEF EngineInv
<1> QED BY <1>4, <1>5

LEMMA PlanHolds ==
  ASSUME NEW t \in Engine!PlanTimes
  PROVE  EngineInv /\ Engine!Plan(t) => EngineInv'
<1> SUFFICES ASSUME EngineInv, Engine!Plan(t) PROVE EngineInv'
  OBVIOUS
<1>1. /\ Unanswered /\ Engine!State = "planning" /\ OnRoute(events) /\ Len(events) = 3
      /\ Route[4] = "executing" /\ now \in Nat /\ now' = t
      /\ UNCHANGED <<call, branches, answer>>
  BY RunningIsOnRoute, RouteTells DEF Engine!Plan
<1>2. Engine!Cutoff \in Int
  BY CutoffIsATime DEF EngineInv
<1>3. t \in Nat /\ now <= t
  <2>1. t \in Int
    BY <1>1, <1>2, SearchesValid DEF Engine!PlanTimes
  <2>2. t >= now
    BY DEF Engine!Plan
  <2> QED BY <1>1, <2>1, <2>2
<1>4. Engine!Refusal(call) = "" /\ Spoken(call) /\ CallOk /\ branches' = <<>>
  BY <1>1 DEF EngineInv, PhaseOk
<1>5. CASE Engine!Late(t)
  <2>1. Engine!Fails("DEADLINE_EXCEEDED", t) /\ UNCHANGED decision
    BY <1>5 DEF Engine!Plan
  <2>2. IsCode("DEADLINE_EXCEEDED")
    BY DEF IsCode
  <2>3. DecisionOk' /\ BranchesOk'
    BY <1>1, <2>1 DEF EngineInv, DecisionOk, BranchesOk
  <2>4. /\ CallOk' /\ EventsOk' /\ RouteOk' /\ PhaseOk' /\ DecisionOk' /\ AnswerOk' /\ OutcomeOk'
    BY <1>1, <1>3, <2>1, <2>2, FailedHolds
  <2> QED BY <2>3, <2>4 DEF EngineInv
<1>6. CASE ~Engine!Late(t)
  <2> DEFINE left == Engine!Left(Engine!Cutoff, t)
  <2>1. /\ decision' = Engine!Chosen(call, left)
        /\ Engine!Enters("executing", t) /\ UNCHANGED outcome
    BY <1>6 DEF Engine!Plan
  <2>2. left \in Nat
    BY <1>2, <1>3 DEF Engine!Left, Engine!Larger
  <2> HIDE DEF left
  <2>3. Admitted(call)
    BY <1>4 DEF Admitted, CallOk
  <2>4. SoundDecision(Engine!Chosen(call, left))
    BY <2>2, <2>3, ChosenIsSound
  <2>5. decision' # <<>>
    BY <2>1, <2>4 DEF SoundDecision
  <2>6. DecisionOk'
    BY <1>1, <1>4, <2>1, <2>2, <2>3 DEF DecisionOk, Spoken, Admitted
  <2>7. BranchesOk'
    BY <1>4 DEF BranchesOk
  <2>8. /\ CallOk' /\ EventsOk' /\ RouteOk' /\ AnswerOk' /\ Unanswered' /\ OutcomeOk'
        /\ Engine!State' = "executing"
    <3>1. "executing" = Route[3 + 1]
      BY <1>1
    <3> QED BY <1>1, <1>3, <2>1, <3>1, EnteredHolds
  <2>9. Spoken(call)' /\ Engine!Refusal(call)' = ""
    BY <1>1, <1>4 DEF Spoken
  <2>10. PhaseOk'
    BY <1>4, <2>5, <2>8, <2>9 DEF PhaseOk
  <2> QED BY <2>6, <2>7, <2>8, <2>10 DEF EngineInv
<1> QED BY <1>5, <1>6

\* The boundaries of a branch are both there or neither, in their order.
Timed(span) ==
  /\ span.started \in Int /\ span.ended \in Int /\ span.latency # Engine!NoTime
  /\ span.started = Engine!NoTime <=> span.ended = Engine!NoTime
  /\ span.started # Engine!NoTime =>
       span.started <= span.ended /\ span.latency = span.ended - span.started

LEMMA SpansAreTimed ==
  ASSUME NEW a \in Nat, NEW z \in Nat, a <= z
  PROVE  /\ \A span \in Engine!Spans(a, z) : Timed(span)
         /\ Timed([started |-> Engine!NoTime, ended |-> Engine!NoTime, latency |-> z - a])
<1>1. ASSUME NEW s \in Nat, NEW e \in Nat, s <= e
      PROVE  Timed(Engine!Span(s, e))
  BY <1>1 DEF Timed, Engine!Span, Engine!NoTime
<1>2. Timed([started |-> Engine!NoTime, ended |-> Engine!NoTime, latency |-> z - a])
  BY DEF Timed, Engine!NoTime
<1> QED BY <1>1, <1>2 DEF Engine!Spans

\* The exits of a branch that did not succeed.
Mishaps == {Engine!Expiry, Engine!ClientTimeout, Engine!CircuitOpen, Engine!Cancellation}
             \cup {Engine!Failure(code) : code \in Engine!Codes}

LEMMA SuccessIsSound ==
  ASSUME NEW hits \in Shares, NEW circuit, NEW span, Timed(span)
  PROVE  SoundBranch(Engine!Result(Engine!Success, hits, circuit, span))
<1> DEFINE r == Engine!Result(Engine!Success, hits, circuit, span)
<1>1. /\ r.status = "succeeded" /\ r.code = "" /\ r.origin = "" /\ r.timeout = "" /\ r.reason = ""
      /\ r.hits = hits /\ r.started = span.started /\ r.ended = span.ended /\ r.latency = span.latency
  BY DEF Engine!Result, Engine!Success, Engine!Exit
<1> HIDE DEF r
<1>2. Engine!BranchResultValid(r)
  BY <1>1 DEF Engine!BranchResultValid, Timed
<1>3. SoundBranch(r)
  BY <1>1, <1>2 DEF SoundBranch, Coded, Timed
<1> QED BY <1>3 DEF r

LEMMA MishapIsSound ==
  ASSUME NEW ending \in Mishaps, NEW circuit, NEW span, Timed(span)
  PROVE  SoundBranch(Engine!Result(ending, {}, circuit, span))
<1> DEFINE r == Engine!Result(ending, {}, circuit, span)
<1>1. /\ r.status = ending.status /\ r.code = ending.code /\ r.origin = ending.origin
      /\ r.timeout = ending.timeout /\ r.reason = ending.reason
      /\ r.hits = {} /\ r.started = span.started /\ r.ended = span.ended /\ r.latency = span.latency
  BY DEF Engine!Result
<1> HIDE DEF r
<1>2. \/ /\ ending.status \in {"timed_out", "cancelled"} /\ ending.code = ""
         /\ ending.timeout # "" => ending.status = "timed_out"
      \/ /\ ending.status = "failed" /\ ending.code \in Engine!Codes
         /\ ending.timeout = "" /\ ending.reason = ""
  <2>1. /\ Engine!Expiry.status = "timed_out" /\ Engine!Expiry.code = ""
        /\ Engine!ClientTimeout.status = "timed_out" /\ Engine!ClientTimeout.code = ""
        /\ Engine!Cancellation.status = "cancelled" /\ Engine!Cancellation.code = ""
        /\ Engine!Cancellation.timeout = ""
    BY DEF Engine!Expiry, Engine!ClientTimeout, Engine!Cancellation, Engine!Exit
  <2>2. CASE ending = Engine!CircuitOpen
    BY <2>2 DEF Engine!CircuitOpen, Engine!Exit, Engine!Codes
  <2>3. ASSUME NEW code \in Engine!Codes, ending = Engine!Failure(code)
        PROVE  ending.status = "failed" /\ ending.code = code /\ ending.timeout = "" /\ ending.reason = ""
    BY <2>3 DEF Engine!Failure, Engine!Exit
  <2> QED BY <2>1, <2>2, <2>3 DEF Mishaps
<1>3. "" \notin Engine!Codes
  BY DEF Engine!Codes
<1>4. Coded(r)
  BY <1>1, <1>2 DEF Coded
<1>5. Engine!BranchResultValid(r)
  BY <1>1, <1>2, <1>3 DEF Engine!BranchResultValid, Timed
<1>6. SoundBranch(r)
  BY <1>1, <1>2, <1>4, <1>5 DEF SoundBranch, Timed
<1> QED BY <1>6 DEF r

\* However a branch ends, in an engine of two stores or of one, its result is sound.
LEMMA ResultsAreSound ==
  ASSUME NEW a \in Nat, NEW z \in Nat, a <= z, NEW r \in Engine!Results(a, z)
  PROVE  SoundBranch(r)
<1>1. /\ Engine!Expiry \in Mishaps /\ Engine!ClientTimeout \in Mishaps /\ Engine!CircuitOpen \in Mishaps
      /\ Engine!Cancellation \in Mishaps /\ \A code \in Engine!Codes : Engine!Failure(code) \in Mishaps
  BY DEF Mishaps
<1>2. \A span \in Engine!Spans(a, z) : Timed(span)
  BY SpansAreTimed
<1>3. CASE call.engine = "dual"
  <2>1. r \in Engine!DualResults(a, z)
    BY <1>3 DEF Engine!Results
  <2>2. \/ \E hits \in Shares, c \in Observed, span \in Engine!Spans(a, z) :
             r = Engine!Result(Engine!Success, hits, c, span)
        \/ \E c \in Observed \cup {Engine!NoCircuit}, span \in Engine!Spans(a, z) :
             r = Engine!Result(Engine!Expiry, {}, c, span)
        \/ \E c \in Observed, span \in Engine!Spans(a, z) :
             r = Engine!Result(Engine!CircuitOpen, {}, [before |-> c.after, after |-> c.after], span)
        \/ \E ending \in {Engine!ClientTimeout, Engine!Cancellation}
                         \cup {Engine!Failure(code) : code \in Engine!Codes},
              c \in Observed, span \in Engine!Spans(a, z) :
             r = Engine!Result(ending, {}, c, span)
    BY <2>1 DEF Engine!DualResults
  <2>3. ASSUME NEW hits \in Shares, NEW c, NEW span \in Engine!Spans(a, z),
               r = Engine!Result(Engine!Success, hits, c, span)
        PROVE  SoundBranch(r)
    BY <1>2, <2>3, SuccessIsSound
  <2>4. ASSUME NEW ending \in Mishaps, NEW c, NEW span \in Engine!Spans(a, z),
               r = Engine!Result(ending, {}, c, span)
        PROVE  SoundBranch(r)
    BY <1>2, <2>4, MishapIsSound
  <2>5. {Engine!ClientTimeout, Engine!Cancellation}
           \cup {Engine!Failure(code) : code \in Engine!Codes} \subseteq Mishaps
    BY DEF Mishaps
  <2> QED BY <1>1, <2>2, <2>3, <2>4, <2>5
<1>4. CASE call.engine # "dual"
  <2> DEFINE span == [started |-> Engine!NoTime, ended |-> Engine!NoTime, latency |-> z - a]
  <2>1. Timed(span)
    BY SpansAreTimed
  <2>2. r \in Engine!SingleResults(a, z)
    BY <1>4 DEF Engine!Results
  <2>3. \/ \E hits \in Shares : r = Engine!Result(Engine!Success, hits, Engine!NoCircuit, span)
        \/ \E ending \in Mishaps : r = Engine!Result(ending, {}, Engine!NoCircuit, span)
    BY <1>1, <2>2 DEF Engine!SingleResults
  <2> HIDE DEF span
  <2> QED BY <2>1, <2>3, SuccessIsSound, MishapIsSound
<1> QED BY <1>3, <1>4

\* What is raised is the code of an error, and nothing is raised only if a branch has
\* succeeded.
LEMMA RaisedIsACode ==
  ASSUME NEW run, DOMAIN run # {}, DOMAIN run \subseteq Engine!Kinds,
         \A b \in DOMAIN run : SoundBranch(run[b])
  PROVE  /\ Engine!Raised(run) # "" => IsCode(Engine!Raised(run))
         /\ Engine!Raised(run) = "" => Engine!Succeeded(run) # {}
<1>1. \A b \in DOMAIN run : Coded(run[b])
  BY DEF SoundBranch
<1>2. \A code \in Engine!Codes \cup Engine!FatalCodes : IsCode(code)
  BY DEF Engine!Codes, Engine!FatalCodes, IsCode
<1>3. /\ IsCode("DEADLINE_EXCEEDED") /\ IsCode("MODE_UNAVAILABLE") /\ IsCode("DEPENDENCY_UNAVAILABLE")
      /\ IsCode("cancelled")
  BY DEF IsCode
<1>4. CASE call.engine = "dual"
  <2> DEFINE codes == {run[b].code : b \in DOMAIN run}
             fatal == CHOOSE code \in codes \cap Engine!FatalCodes : TRUE
  <2>1. Engine!Raised(run) =
          IF codes \cap Engine!FatalCodes # {} THEN fatal
          ELSE IF Engine!Succeeded(run) # {} THEN ""
          ELSE IF \E b \in DOMAIN run : run[b].status \in {"timed_out", "cancelled"} THEN "DEADLINE_EXCEEDED"
          ELSE IF codes = {"MODE_UNAVAILABLE"} THEN "MODE_UNAVAILABLE"
          ELSE "DEPENDENCY_UNAVAILABLE"
    BY <1>4 DEF Engine!Raised, Engine!Unusable
  <2>2. codes \cap Engine!FatalCodes # {} => fatal \in Engine!FatalCodes
    <3> HIDE DEF codes
    <3> QED OBVIOUS
  <2> HIDE DEF codes, fatal
  <2>3. codes \cap Engine!FatalCodes # {} => IsCode(fatal)
    BY <1>2, <2>2
  <2> QED BY <1>3, <2>1, <2>3, Zenon DEF IsCode
<1>5. CASE call.engine # "dual"
  <2> DEFINE b == CHOOSE b \in DOMAIN run : TRUE
  <2>1. b \in DOMAIN run
    OBVIOUS
  <2>2. Engine!Raised(run) = IF run[b].status = "timed_out" THEN "DEADLINE_EXCEEDED"
                             ELSE IF run[b].status = "cancelled" THEN "cancelled" ELSE run[b].code
    BY <1>5 DEF Engine!Raised
  <2> HIDE DEF b
  <2>3. CASE run[b].status \in {"timed_out", "cancelled"}
    BY <1>3, <2>2, <2>3 DEF IsCode
  <2>4. CASE run[b].status = "failed" /\ run[b].code \in Engine!Codes
    BY <1>2, <2>2, <2>4 DEF IsCode
  <2>5. CASE run[b].status = "succeeded" /\ run[b].code = ""
    BY <2>1, <2>2, <2>5 DEF Engine!Succeeded
  <2> QED BY <1>1, <2>1, <2>3, <2>4, <2>5 DEF Coded
<1> QED BY <1>4, <1>5

LEMMA ExecuteHolds ==
  ASSUME NEW run, NEW t \in {now, Engine!Cutoff},
         DOMAIN run = Engine!BranchesOf(decision.effective),
         \A b \in DOMAIN run : run[b] \in Engine!Results(now, t)
  PROVE  EngineInv /\ Engine!Execute(run, t) => EngineInv'
<1> SUFFICES ASSUME EngineInv, Engine!Execute(run, t) PROVE EngineInv'
  OBVIOUS
<1> DEFINE raised == Engine!Raised(run)
<1>1. /\ Unanswered /\ Engine!State = "executing" /\ OnRoute(events) /\ Len(events) = 4
      /\ Route[5] = "fusing" /\ now \in Nat /\ now' = t /\ branches' = run
      /\ UNCHANGED <<call, decision, answer>>
  BY RunningIsOnRoute, RouteTells DEF Engine!Execute
<1>2. t \in Nat /\ now <= t
  <2>1. Engine!Cutoff \in Int
    BY CutoffIsATime DEF EngineInv
  <2>2. t >= now
    BY DEF Engine!Execute
  <2> QED BY <1>1, <2>1, <2>2
<1>3. decision # <<>> /\ Engine!Refusal(call) = "" /\ Spoken(call)
  BY <1>1 DEF EngineInv, PhaseOk
<1>4. SoundDecision(decision)
  BY <1>3, ChosenIsSound DEF EngineInv, DecisionOk
<1>5. DOMAIN run # {} /\ DOMAIN run \subseteq Engine!Kinds
  BY <1>4 DEF SoundDecision, Engine!Kinds
<1>10. \A b \in DOMAIN run : SoundBranch(run[b])
  BY <1>1, <1>2, ResultsAreSound
<1>6. DecisionOk' /\ BranchesOk'
  BY <1>1, <1>3, <1>10 DEF EngineInv, DecisionOk, BranchesOk, Admitted, Spoken
<1>7. raised # "" => IsCode(raised)
  BY <1>5, <1>10, RaisedIsACode
<1>8. CASE raised # ""
  <2>1. Engine!Fails(raised, t)
    BY <1>8 DEF Engine!Execute
  <2> HIDE DEF raised
  <2>2. IsCode(raised)
    BY <1>7, <1>8
  <2>3. /\ CallOk' /\ EventsOk' /\ RouteOk' /\ PhaseOk' /\ DecisionOk' /\ AnswerOk' /\ OutcomeOk'
    BY <1>1, <1>2, <2>1, <2>2, FailedHolds
  <2> QED BY <1>6, <2>3 DEF EngineInv
<1>9. CASE raised = ""
  <2>1. Engine!Enters("fusing", t) /\ UNCHANGED outcome
    BY <1>9 DEF Engine!Execute
  <2>2. /\ CallOk' /\ EventsOk' /\ RouteOk' /\ AnswerOk' /\ Unanswered' /\ OutcomeOk'
        /\ Engine!State' = "fusing"
    <3>1. "fusing" = Route[4 + 1]
      BY <1>1
    <3> HIDE DEF raised
    <3> QED BY <1>1, <1>2, <2>1, <3>1, EnteredHolds
  <2>3. Spoken(call)' /\ Engine!Refusal(call)' = "" /\ decision' # <<>>
    BY <1>1, <1>3 DEF Spoken
  <2>4. branches' # <<>>
    BY <1>1, <1>5
  <2>5. Engine!Raised(branches)' = ""
    BY <1>1, <1>9 DEF Engine!Raised
  <2>6. PhaseOk'
    BY <2>2, <2>3, <2>4, <2>5 DEF PhaseOk
  <2> QED BY <1>6, <2>2, <2>6 DEF EngineInv
<1> QED BY <1>8, <1>9

----------------------------------------------------------------------------
(* The answer that is put together from the branches.                       *)

\* What is known when the branches have been fused.
Fused ==
  /\ SoundDecision(decision) /\ CallOk
  /\ DOMAIN branches = Engine!BranchesOf(decision.effective)
  /\ \A b \in DOMAIN branches : SoundBranch(branches[b])
  /\ Engine!Succeeded(branches) # {}

LEMMA SameCount == \A S : Engine!Cardinality(S) = Cardinality(S)
BY DEF Engine!Cardinality, Cardinality

\* The results of the branches, and how many hits each counts for.
LEMMA Hits ==
  ASSUME Fused
  PROVE  /\ Engine!Succeeded(branches) \subseteq DOMAIN branches
         /\ DOMAIN branches \in {{"vector"}, {"graph"}, Engine!Kinds}
         /\ \A b \in DOMAIN branches : Engine!BranchResultValid(branches[b])
         /\ \A b \in Engine!Succeeded(branches) : IsFiniteSet(branches[b].hits)
         /\ \A b \in Engine!Kinds :
              /\ Engine!HitCount(b) \in Nat
              /\ b \in Engine!Succeeded(branches) =>
                   Engine!HitCount(b) = Cardinality(branches[b].hits) /\ branches[b].status = "succeeded"
              /\ b \notin Engine!Succeeded(branches) => Engine!HitCount(b) = 0
              /\ b \in DOMAIN branches /\ b \notin Engine!Succeeded(branches) =>
                   branches[b].status # "succeeded" /\ branches[b].status \in {"timed_out", "failed", "cancelled"}
<1>1. Engine!Succeeded(branches) = {b \in DOMAIN branches : branches[b].status = "succeeded"}
  BY DEF Engine!Succeeded
<1>2. ASSUME NEW b \in DOMAIN branches
      PROVE  /\ Engine!BranchResultValid(branches[b])
             /\ branches[b].status = "succeeded" => branches[b].hits \in Shares
             /\ branches[b].status # "succeeded" => branches[b].status \in {"timed_out", "failed", "cancelled"}
  BY DEF Fused, SoundBranch, Coded
<1>3. \A b \in Engine!Succeeded(branches) : IsFiniteSet(branches[b].hits)
  BY <1>1, <1>2, SearchesValid
<1>4. DOMAIN branches \in {{"vector"}, {"graph"}, Engine!Kinds}
  BY DEF Fused, SoundDecision
<1>5. ASSUME NEW b \in Engine!Kinds
      PROVE  /\ Engine!HitCount(b) \in Nat
             /\ b \in Engine!Succeeded(branches) =>
                  Engine!HitCount(b) = Cardinality(branches[b].hits) /\ branches[b].status = "succeeded"
             /\ b \notin Engine!Succeeded(branches) => Engine!HitCount(b) = 0
             /\ b \in DOMAIN branches /\ b \notin Engine!Succeeded(branches) =>
                  branches[b].status # "succeeded" /\ branches[b].status \in {"timed_out", "failed", "cancelled"}
  <2>1. CASE b \in Engine!Succeeded(branches)
    <3>1. Cardinality(branches[b].hits) \in Nat
      BY <1>3, <2>1, FS_CardinalityType
    <3>2. Engine!HitCount(b) = Cardinality(branches[b].hits)
      BY <2>1, SameCount DEF Engine!HitCount
    <3> QED BY <1>1, <2>1, <3>1, <3>2
  <2>2. CASE b \notin Engine!Succeeded(branches)
    BY <1>1, <1>2, <2>2 DEF Engine!HitCount
  <2> QED BY <2>1, <2>2
<1> QED BY <1>1, <1>2, <1>3, <1>4, <1>5

\* The candidates are those of the branches that succeeded, each counted once.
LEMMA CandidatesAreCounted ==
  ASSUME Fused, DOMAIN branches = Engine!Kinds
  PROVE  LET v == Engine!HitCount("vector")
             g == Engine!HitCount("graph")
             both == IF Engine!Kinds = Engine!Succeeded(branches)
                     THEN Engine!Cardinality(branches["vector"].hits \cap branches["graph"].hits) ELSE 0
             all == Engine!Cardinality(Engine!Candidate) IN
         both \in Nat /\ both <= v /\ both <= g /\ all \in Nat /\ all <= v + g - both
<1> DEFINE V == branches["vector"].hits
           G == branches["graph"].hits
           done == Engine!Succeeded(branches)
           v == Engine!HitCount("vector")
           g == Engine!HitCount("graph")
           both == IF Engine!Kinds = done THEN Engine!Cardinality(V \cap G) ELSE 0
           all == Engine!Cardinality(Engine!Candidate)
<1>1. /\ done \subseteq Engine!Kinds /\ done # {} /\ v \in Nat /\ g \in Nat
      /\ "vector" \in done => v = Cardinality(V) /\ IsFiniteSet(V)
      /\ "graph" \in done => g = Cardinality(G) /\ IsFiniteSet(G)
      /\ "vector" \notin done => v = 0
      /\ "graph" \notin done => g = 0
  BY Hits DEF Fused, Engine!Kinds
<1>2. /\ Engine!Candidate = UNION {branches[b].hits : b \in done}
      /\ Engine!Kinds = {"vector", "graph"}
  BY DEF Engine!Candidate, Engine!Kinds
<1>3. all = Cardinality(Engine!Candidate) /\ Engine!Cardinality(V \cap G) = Cardinality(V \cap G)
  BY SameCount
<1> HIDE DEF v, g, done
<1>4. CASE done = Engine!Kinds
  <2>1. Engine!Candidate = V \cup G
    BY <1>2, <1>4
  <2>2. IsFiniteSet(V) /\ IsFiniteSet(G) /\ v = Cardinality(V) /\ g = Cardinality(G)
    BY <1>1, <1>2, <1>4
  <2>3. both = Cardinality(V \cap G)
    BY <1>3, <1>4
  <2> HIDE DEF V, G, both, all
  <2>4. /\ Cardinality(V \cap G) <= Cardinality(V) /\ Cardinality(V \cap G) <= Cardinality(G)
        /\ IsFiniteSet(V \cap G)
    BY <2>2, FS_Intersection
  <2>5. /\ IsFiniteSet(V \cup G)
        /\ Cardinality(V \cup G) = Cardinality(V) + Cardinality(G) - Cardinality(V \cap G)
    BY <2>2, FS_Union
  <2>6. Cardinality(V \cap G) \in Nat /\ Cardinality(V \cup G) \in Nat
    BY <2>4, <2>5, FS_CardinalityType
  <2>7. both \in Nat /\ both <= v /\ both <= g /\ all \in Nat /\ all <= v + g - both
    BY <1>1, <1>3, <2>1, <2>2, <2>3, <2>4, <2>5, <2>6
  <2> QED BY <2>7 DEF V, G, both, all, v, g, done
<1>5. CASE done = {"vector"}
  <2>1. Engine!Candidate = V /\ v = Cardinality(V) /\ g = 0
    BY <1>1, <1>2, <1>5
  <2>2. both = 0
    BY <1>2, <1>5
  <2> HIDE DEF V, G, both, all
  <2>3. both \in Nat /\ both <= v /\ both <= g /\ all \in Nat /\ all <= v + g - both
    BY <1>1, <1>3, <2>1, <2>2
  <2> QED BY <2>3 DEF V, G, both, all, v, g, done
<1>6. CASE done = {"graph"}
  <2>1. Engine!Candidate = G /\ g = Cardinality(G) /\ v = 0
    BY <1>1, <1>2, <1>6
  <2>2. both = 0
    BY <1>2, <1>6
  <2> HIDE DEF V, G, both, all
  <2>3. both \in Nat /\ both <= v /\ both <= g /\ all \in Nat /\ all <= v + g - both
    BY <1>1, <1>3, <2>1, <2>2
  <2> QED BY <2>3 DEF V, G, both, all, v, g, done
<1> QED BY <1>1, <1>2, <1>4, <1>5, <1>6

LEMMA FusionIsValid ==
  ASSUME Fused, decision.effective = "fixed_hybrid",
         NEW a, a.decision.effective = "fixed_hybrid", a.count = Engine!ResultCount,
         NEW i \in DOMAIN Engine!FusionTrace
  PROVE  /\ Engine!FusionTraceValid(Engine!FusionTrace[i])
         /\ Engine!FusionAgrees(Engine!FusionTrace[i], a)
<1> DEFINE done == Engine!Succeeded(branches)
           both == IF Engine!Kinds = done
                   THEN Engine!Cardinality(branches["vector"].hits \cap branches["graph"].hits) ELSE 0
           all == Engine!Cardinality(Engine!Candidate)
           f == [inputs |-> [b \in Engine!Kinds |-> Engine!HitCount(b)], output |-> Engine!ResultCount,
                 duplicates |-> both, missing |-> Engine!Kinds \ done]
<1>1. Engine!FusionTrace = <<f>>
  BY DEF Engine!FusionTrace
<1>2. Engine!FusionTrace[i] = f
  BY <1>1
<1>3. /\ f.inputs = [b \in Engine!Kinds |-> Engine!HitCount(b)] /\ f.output = Engine!ResultCount
      /\ f.duplicates = both /\ f.missing = Engine!Kinds \ done
  OBVIOUS
<1> HIDE DEF f
<1>4. "vector" \in Engine!Kinds /\ "graph" \in Engine!Kinds /\ DOMAIN branches = Engine!Kinds
  BY DEF Fused, SoundDecision, Engine!Kinds
<1>5. \A b \in Engine!Kinds : f.inputs[b] = Engine!HitCount(b)
  BY <1>3
<1>6. Engine!FusionTraceValid(f)
  <2> DEFINE v == Engine!HitCount("vector")
             g == Engine!HitCount("graph")
  <2>1. both \in Nat /\ both <= v /\ both <= g /\ all \in Nat /\ all <= v + g - both
    BY <1>4, CandidatesAreCounted
  <2>2. v \in Nat /\ g \in Nat /\ f.inputs["vector"] = v /\ f.inputs["graph"] = g
    BY <1>4, <1>5, Hits
  <2>3. f.output = Engine!Smaller(call.topK, all) /\ call.topK \in Nat
    BY <1>3 DEF Engine!ResultCount, Fused, CallOk, Engine!RequestValid
  <2> HIDE DEF v, g, both, all
  <2>4. f.output <= all
    BY <2>1, <2>3 DEF Engine!Smaller
  <2>5. f.output \in Nat
    BY <2>1, <2>3 DEF Engine!Smaller
  <2>6. f.duplicates <= Engine!Smaller(f.inputs["vector"], f.inputs["graph"])
    BY <1>3, <2>1, <2>2 DEF Engine!Smaller, both
  <2>7. f.output <= f.inputs["vector"] + f.inputs["graph"] - f.duplicates
    BY <1>3, <2>1, <2>2, <2>4, <2>5 DEF both
  <2> QED BY <2>6, <2>7 DEF Engine!FusionTraceValid
<1>7. Engine!FusionAgrees(f, a)
  <2>1. ASSUME NEW b \in Engine!Kinds
        PROVE  IF b \in f.missing
               THEN f.inputs[b] = 0 /\ (b \in DOMAIN branches => branches[b].status # "succeeded")
               ELSE /\ b \in DOMAIN branches /\ branches[b].status = "succeeded"
                    /\ Engine!Cardinality(branches[b].hits) = f.inputs[b]
    BY <1>3, <1>4, <1>5, Hits, SameCount
  <2> QED BY <1>3, <2>1 DEF Engine!FusionAgrees
<1> QED BY <1>2, <1>6, <1>7

\* Six things after five.
LEMMA Sixth ==
  ASSUME NEW S, NEW s \in Seq(S), NEW x \in S
  PROVE  Len(s) = 5 => /\ Append(s, x) \in Seq(S) /\ Len(Append(s, x)) = 6
                       /\ \A i \in 1 .. 5 : Append(s, x)[i] = s[i]
                       /\ Append(s, x)[6] = x
<1>1. /\ Append(s, x) \in Seq(S) /\ Len(Append(s, x)) = Len(s) + 1
      /\ \A i \in 1 .. Len(s) : Append(s, x)[i] = s[i]
      /\ Append(s, x)[Len(s) + 1] = x
  BY AppendProperties
<1> QED BY <1>1

\* The states of the trace of a request that is answered.
LEMMA TraceIsARoute ==
  ASSUME EventsOk, OnRoute(events), Len(events) = 5, now \in Nat,
         NEW fused \in Nat, now <= fused, NEW terminal \in {"complete", "partial"}
  PROVE  LET e == Append(events, [state |-> terminal, at |-> fused]) IN
         /\ [i \in DOMAIN e |-> e[i].state]
              = <<"received", "analyzing", "planning", "executing", "fusing", terminal>>
         /\ \A i, j \in DOMAIN e : i < j => e[i].at <= e[j].at
         /\ e[Len(e)].at = fused
<1> DEFINE h == [state |-> terminal, at |-> fused]
           e == Append(events, h)
<1>1. h \in Happenings /\ h.state = terminal /\ h.at = fused
  BY DEF Happenings
<1> HIDE DEF h
<1>2. /\ e \in Seq(Happenings) /\ Len(e) = 6
      /\ \A i \in 1 .. 5 : e[i] = events[i]
      /\ e[6] = h
  <2>1. events \in Seq(Happenings)
    BY DEF EventsOk
  <2> QED BY <1>1, <2>1, Sixth
<1>3. DOMAIN e = 1 .. 6
  BY <1>2
<1> HIDE DEF e
<1>4. \A i \in 1 .. 5 : e[i].state = Route[i] /\ e[i].at <= fused
  <2>1. \A i \in 1 .. 5 : e[i].state = Route[i] /\ e[i].at <= now
    BY <1>2 DEF OnRoute, EventsOk
  <2>2. \A i \in 1 .. 5 : e[i].at \in Nat
    <3>1. \A i \in 1 .. 5 : e[i] \in Happenings
      BY <1>2, ElementOfSeq
    <3> QED BY <3>1 DEF Happenings
  <2> QED BY <2>1, <2>2
<1>5. [i \in DOMAIN e |-> e[i].state]
        = <<"received", "analyzing", "planning", "executing", "fusing", terminal>>
  <2>1. /\ e[1].state = "received" /\ e[2].state = "analyzing" /\ e[3].state = "planning"
        /\ e[4].state = "executing" /\ e[5].state = "fusing" /\ e[6].state = terminal
    BY <1>1, <1>2, <1>4 DEF Route
  <2> DEFINE s == [i \in 1 .. 6 |-> e[i].state]
             t == <<"received", "analyzing", "planning", "executing", "fusing", terminal>>
             S == {"received", "analyzing", "planning", "executing", "fusing", "complete", "partial"}
  <2>2. /\ s[1] = "received" /\ s[2] = "analyzing" /\ s[3] = "planning"
        /\ s[4] = "executing" /\ s[5] = "fusing" /\ s[6] = terminal
    BY <2>1
  <2>3. \A i \in 1 .. 6 : s[i] = t[i]
    <3> TAKE i \in 1 .. 6
    <3>1. i = 1 \/ i = 2 \/ i = 3 \/ i = 4 \/ i = 5 \/ i = 6
      OBVIOUS
    <3> HIDE DEF s
    <3> QED BY <2>2, <3>1
  <2>4. t \in [1 .. 6 -> S]
    OBVIOUS
  <2>5. s \in [1 .. 6 -> S]
    BY <2>3, <2>4
  <2>6. s = t
    <3> HIDE DEF s, t
    <3> QED BY <2>3, <2>4, <2>5
  <2> QED BY <1>3, <2>6
<1>6. ASSUME NEW i \in 1 .. 6, NEW j \in 1 .. 6, i < j
      PROVE  e[i].at <= e[j].at
  <2>1. i \in 1 .. 5
    BY <1>6
  <2>2. CASE j \in 1 .. 5
    BY <1>2, <1>6, <2>1, <2>2 DEF EventsOk
  <2>3. CASE j = 6
    BY <1>1, <1>2, <1>4, <2>1, <2>3
  <2> QED BY <2>2, <2>3
<1>7. e[Len(e)].at = fused
  BY <1>1, <1>2
<1> QED BY <1>3, <1>5, <1>6, <1>7 DEF e, h

LEMMA TwoAreConcatenated ==
  ASSUME NEW x, NEW y
  PROVE  <<x>> \o <<y>> = <<x, y>>
<1> DEFINE S == {x, y}
           s == <<x>> \o <<y>>
<1>1. <<x>> \in Seq(S) /\ <<y>> \in Seq(S) /\ Len(<<x>>) = 1 /\ Len(<<y>>) = 1
  OBVIOUS
<1>2. /\ s \in Seq(S) /\ Len(s) = 2
      /\ \A i \in 1 .. 2 : s[i] = IF i <= 1 THEN <<x>>[i] ELSE <<y>>[i - 1]
  <2> HIDE DEF S
  <2> QED BY <1>1, ConcatProperties
<1>3. s[1] = x /\ s[2] = y
  <2> HIDE DEF s
  <2> QED BY <1>2
<1>4. <<x, y>> \in Seq(S) /\ Len(<<x, y>>) = 2 /\ <<x, y>>[1] = x /\ <<x, y>>[2] = y
  OBVIOUS
<1> HIDE DEF s, S
<1>5. ASSUME NEW t \in Seq(S), Len(t) = Len(s), \A i \in 1 .. Len(s) : s[i] = t[i]
      PROVE  s = t
  BY <1>2, <1>5, SeqEqual
<1>6. s = <<x, y>>
  BY <1>2, <1>3, <1>4, <1>5
<1> QED BY <1>6 DEF s

\* The kill switches a trace names.
LEMMA SwitchesAreNamed ==
  ASSUME NEW force \in BOOLEAN, NEW noCost \in BOOLEAN
  PROVE  (IF force THEN <<"force_vector_only">> ELSE <<>>)
           \o (IF noCost THEN <<"disable_cost_aware">> ELSE <<>>)
         \in {<<>>, <<"force_vector_only">>, <<"disable_cost_aware">>,
              <<"force_vector_only", "disable_cost_aware">>}
<1>1. /\ <<>> \o <<>> = <<>> /\ <<>> \o <<"disable_cost_aware">> = <<"disable_cost_aware">>
      /\ <<"force_vector_only">> \o <<>> = <<"force_vector_only">>
  BY ConcatEmptySeq
<1>2. <<"force_vector_only">> \o <<"disable_cost_aware">> = <<"force_vector_only", "disable_cost_aware">>
  BY TwoAreConcatenated
<1>3. CASE force /\ noCost
  BY <1>2, <1>3
<1>4. CASE force /\ ~noCost
  BY <1>1, <1>4
<1>5. CASE ~force /\ noCost
  BY <1>1, <1>5
<1>6. CASE ~force /\ ~noCost
  BY <1>1, <1>6
<1> QED BY <1>3, <1>4, <1>5, <1>6

\* One branch ran or two.
LEMMA BranchesAreCounted ==
  ASSUME Fused
  PROVE  Engine!Cardinality(DOMAIN branches) \in 1 .. 2
<1>1. Cardinality({"vector"}) = 1 /\ IsFiniteSet({"vector"}) /\ Cardinality({"graph"}) = 1
  BY FS_Singleton
<1>2. Cardinality({"vector"} \cup {"graph"}) = 2
  <2>1. "graph" \notin {"vector"}
    OBVIOUS
  <2> QED BY <1>1, <2>1, FS_AddElement
<1>3. DOMAIN branches \in {{"vector"}, {"graph"}, {"vector"} \cup {"graph"}}
  BY Hits DEF Engine!Kinds
<1> QED BY <1>1, <1>2, <1>3, SameCount

\* However many candidates there are, their number is one.
LEMMA CandidatesAreFinite ==
  ASSUME Fused
  PROVE  Engine!Cardinality(Engine!Candidate) \in Nat
<1> DEFINE done == Engine!Succeeded(branches)
<1>1. /\ done \in {{"vector"}, {"graph"}, {"vector", "graph"}}
      /\ \A b \in done : IsFiniteSet(branches[b].hits)
      /\ Engine!Candidate = UNION {branches[b].hits : b \in done}
  BY Hits DEF Fused, Engine!Kinds, Engine!Candidate
<1> HIDE DEF done
<1>2. IsFiniteSet(Engine!Candidate)
  <2>1. CASE done = {"vector"}
    BY <1>1, <2>1
  <2>2. CASE done = {"graph"}
    BY <1>1, <2>2
  <2>3. CASE done = {"vector", "graph"}
    <3>1. Engine!Candidate = branches["vector"].hits \cup branches["graph"].hits
      BY <1>1, <2>3
    <3>2. IsFiniteSet(branches["vector"].hits) /\ IsFiniteSet(branches["graph"].hits)
      BY <1>1, <2>3
    <3> QED BY <3>1, <3>2, FS_Union
  <2> QED BY <1>1, <2>1, <2>2, <2>3
<1> QED BY <1>2, FS_CardinalityType, SameCount

\* Of one time or two there is a latest and an earliest, and none are further apart.
LEMMA OuterTimes ==
  ASSUME NEW x \in Int, NEW y \in Int
  PROVE  LET times == {x, y} IN
         /\ Engine!Latest(times) \in times /\ Engine!Earliest(times) \in times
         /\ Engine!Spread(Engine!Latest(times) - Engine!Earliest(times), times)
<1> DEFINE times == {x, y}
<1>1. \E s \in times : \A r \in times : s >= r
  BY x >= y \/ y >= x
<1>2. \E s \in times : \A r \in times : s <= r
  BY x <= y \/ y <= x
<1>3. /\ Engine!Latest(times) \in times /\ \A r \in times : Engine!Latest(times) >= r
      /\ Engine!Earliest(times) \in times /\ \A r \in times : Engine!Earliest(times) <= r
  <2> HIDE DEF times
  <2> QED BY <1>1, <1>2 DEF Engine!Latest, Engine!Earliest
<1>4. times \subseteq Int /\ times # {}
  OBVIOUS
<1> HIDE DEF times
<1>5. Engine!Spread(Engine!Latest(times) - Engine!Earliest(times), times)
  <2> DEFINE last == Engine!Latest(times)
             first == Engine!Earliest(times)
  <2>1. last \in times /\ first \in times /\ last \in Int /\ first \in Int
    BY <1>3, <1>4
  <2>2. \A r \in times : r \in Int /\ r <= last /\ first <= r
    BY <1>3, <1>4, <2>1
  <2> HIDE DEF last, first
  <2>3. \A r, t \in times : r - t <= last - first
    BY <2>1, <2>2
  <2> QED BY <1>4, <2>1, <2>3 DEF Engine!Spread, last, first
<1> QED BY <1>3, <1>5 DEF times

\* The skew of a trace is the one its branches show.
LEMMA SkewIsTheirs ==
  ASSUME Fused
  PROVE  Engine!Spread(Engine!Skew(branches),
                       {t \in {branches[b].started : b \in DOMAIN branches} : t # Engine!NoTime})
<1> DEFINE times == Engine!Starts(branches)
<1>1. {t \in {branches[b].started : b \in DOMAIN branches} : t # Engine!NoTime} = times
  BY DEF Engine!Starts
<1>2. \A b \in DOMAIN branches : branches[b].started \in Int
  BY DEF Fused, SoundBranch
<1>3. CASE times = {}
  <2>1. Engine!Skew(branches) = 0
    BY <1>3 DEF Engine!Skew
  <2> QED BY <1>1, <1>3, <2>1 DEF Engine!Spread
<1>4. CASE times # {}
  <2>1. \E x, y \in Int : times = {x, y}
    <3>1. DOMAIN branches \in {{"vector"}, {"graph"}, {"vector", "graph"}}
      BY Hits DEF Engine!Kinds
    <3>2. \E p, q \in DOMAIN branches : DOMAIN branches = {p, q}
      BY <3>1
    <3>3. PICK p \in DOMAIN branches, q \in DOMAIN branches : DOMAIN branches = {p, q}
      BY <3>2
    <3>4. times = {branches[p].started, branches[q].started} \ {Engine!NoTime}
      BY <3>3 DEF Engine!Starts
    <3> HIDE DEF times
    <3>5. \E x \in times : TRUE
      BY <1>4
    <3>6. /\ branches[p].started \in Int /\ branches[q].started \in Int
      BY <1>2
    <3>7. \/ times = {branches[p].started, branches[q].started}
          \/ times = {branches[p].started, branches[p].started}
          \/ times = {branches[q].started, branches[q].started}
      BY <1>4, <3>4
    <3> QED BY <3>6, <3>7
  <2>2. PICK x \in Int, y \in Int : times = {x, y}
    BY <2>1
  <2>3. Engine!Skew(branches) = Engine!Latest(times) - Engine!Earliest(times)
    BY <1>4 DEF Engine!Skew
  <2> HIDE DEF times
  <2>4. Engine!Spread(Engine!Latest(times) - Engine!Earliest(times), times)
    BY <2>2, OuterTimes
  <2> QED BY <1>1, <2>3, <2>4
<1> QED BY <1>3, <1>4

LEMMA SchedulerIsValid ==
  ASSUME Fused, EventsOk, OnRoute(events), Engine!State = "fusing",
         NEW fused \in Nat, now <= fused, NEW total \in Nat, fused <= total,
         NEW terminal \in {"complete", "partial"},
         terminal = "partial" <=> Engine!Fallback # <<>>,
         NEW a, a.partial <=> terminal = "partial", a.total = total,
         a.partial => a.decision.fallback = Engine!Fallback,
         NEW i \in DOMAIN Engine!SchedulerTrace(terminal, fused, total)
  PROVE  /\ Engine!SchedulerTraceValid(Engine!SchedulerTrace(terminal, fused, total)[i])
         /\ Engine!SchedulerAgrees(Engine!SchedulerTrace(terminal, fused, total)[i], a)
<1> DEFINE e == Append(events, [state |-> terminal, at |-> fused])
           switches == (IF call.force THEN <<"force_vector_only">> ELSE <<>>)
                         \o (IF call.noCost THEN <<"disable_cost_aware">> ELSE <<>>)
           over == Engine!Larger(0, total - Engine!Absolute(call.budget))
           tasks == Engine!Cardinality(DOMAIN branches)
           skew == Engine!Skew(branches)
           circuits == [b \in Engine!Kinds |-> Engine!CircuitAfter(b)]
           s == [events |-> e, terminal |-> terminal, tasks |-> tasks, skew |-> skew,
                 overshoot |-> over, switches |-> switches, circuits |-> circuits,
                 fallback |-> Engine!Fallback]
<1>1. call.engine = "dual" => Engine!SchedulerTrace(terminal, fused, total) = <<s>>
  BY DEF Engine!SchedulerTrace
<1>2. call.engine # "dual" => Engine!SchedulerTrace(terminal, fused, total) = <<>>
  BY DEF Engine!SchedulerTrace
<1>3. Engine!SchedulerTrace(terminal, fused, total)[i] = s
  <2> HIDE DEF s
  <2> QED BY <1>1, <1>2
<1>4. /\ s.events = e /\ s.terminal = terminal /\ s.tasks = tasks /\ s.overshoot = over
      /\ s.switches = switches /\ s.fallback = Engine!Fallback
      /\ s.skew = skew /\ s.circuits = circuits
  OBVIOUS
<1>5. Len(events) = 5 /\ now \in Nat
  BY RouteTells DEF Fused, CallOk
<1>6. /\ [k \in DOMAIN e |-> e[k].state]
           = <<"received", "analyzing", "planning", "executing", "fusing", terminal>>
      /\ \A k, m \in DOMAIN e : k < m => e[k].at <= e[m].at
      /\ e[Len(e)].at = fused
  BY <1>5, TraceIsARoute
<1>7. switches \in {<<>>, <<"force_vector_only">>, <<"disable_cost_aware">>,
                    <<"force_vector_only", "disable_cost_aware">>}
  <2>1. call.force \in BOOLEAN /\ call.noCost \in BOOLEAN
    BY SearchesValid DEF Fused, CallOk, CallShapes
  <2> QED BY <2>1, SwitchesAreNamed
<1>8. tasks \in 1 .. 2
  BY BranchesAreCounted
<1> HIDE DEF e, switches, over, tasks, skew, circuits, s
<1>9. Engine!SchedulerTraceValid(s)
  <2>1. [k \in DOMAIN s.events |-> s.events[k].state] \in
          {<<"received", "analyzing", "planning", "executing", "fusing", s.terminal>>,
           <<"received", "analyzing", "planning", "executing", "fusing", "reranking", s.terminal>>}
    BY <1>4, <1>6
  <2> QED BY <1>4, <1>6, <1>7, <1>8, <2>1 DEF Engine!SchedulerTraceValid
<1>10. Engine!SchedulerAgrees(s, a)
  <2>1. s.terminal = IF a.partial THEN "partial" ELSE "complete"
    BY <1>4
  <2>2. s.events[Len(s.events)].at <= a.total
    BY <1>4, <1>5, <1>6
  <2>3. s.overshoot = Engine!Larger(0, a.total - Engine!Absolute(call.budget))
    BY <1>4 DEF over
  <2>4. s.tasks = Engine!Cardinality(DOMAIN branches)
    BY <1>4 DEF tasks
  <2>5. Engine!Spread(s.skew, {t \in {branches[b].started : b \in DOMAIN branches} : t # Engine!NoTime})
    BY <1>4, SkewIsTheirs DEF skew
  <2>6. \A b \in Engine!Kinds :
          IF b \in DOMAIN branches THEN s.circuits[b] = branches[b].circuit.after ELSE s.circuits[b] = ""
    BY <1>4 DEF circuits, Engine!CircuitAfter
  <2> QED BY <1>4, <2>1, <2>2, <2>3, <2>4, <2>5, <2>6 DEF Engine!SchedulerAgrees
<1> QED BY <1>3, <1>9, <1>10

\* Whatever the branches brought, their answer passes every validator.
LEMMA AnswerIsValid ==
  ASSUME Fused, EventsOk, OnRoute(events), Engine!State = "fusing",
         NEW fused \in Nat, now <= fused, NEW total \in Nat, fused <= total
  PROVE  /\ Engine!ResponseValid(Engine!Answer(fused, total))
         /\ Engine!Answer(fused, total).status \in Ends /\ Engine!Answer(fused, total) # <<>>
<1> DEFINE fallback == Engine!Fallback
           partial == fallback # <<>>
           terminal == IF partial THEN "partial" ELSE "complete"
           d == IF partial THEN [decision EXCEPT !.fallback = fallback] ELSE decision
           done == Engine!Succeeded(branches)
           a == Engine!Answer(fused, total)
<1>1. /\ a.status = terminal /\ a.partial = partial /\ a.count = Engine!ResultCount /\ a.decision = d
      /\ a.latency = [b \in Engine!Kinds |-> Engine!LatencyOf(b)]
      /\ a.graphTrace = ("graph" \in done) /\ a.reserve = Engine!Reserve(call.budget)
      /\ a.fusionLatency = IF Engine!FusionTrace # <<>> THEN fused - now ELSE 0
      /\ a.fusion = Engine!FusionTrace /\ a.scheduler = Engine!SchedulerTrace(terminal, fused, total)
      /\ a.total = total /\ a.violated = (total > Engine!Absolute(call.budget))
      /\ "status" \in DOMAIN a
  BY DEF Engine!Answer
<1>2. a # <<>> /\ a.status \in Ends /\ terminal \in {"complete", "partial"}
  BY <1>1 DEF Ends
<1> HIDE DEF a
<1>3. /\ partial => decision.effective = "fixed_hybrid" /\ done # Engine!Kinds
      /\ ~partial => decision.effective # "fixed_hybrid" \/ done = Engine!Kinds
  <2> DEFINE b == IF "vector" \in done THEN "graph" ELSE "vector"
             pair == <<b, IF branches[b].code # "" THEN branches[b].code ELSE branches[b].status>>
  <2>1. fallback = IF decision.effective # "fixed_hybrid" \/ done = Engine!Kinds THEN <<>> ELSE pair
    BY DEF Engine!Fallback
  <2>2. pair # <<>>
    OBVIOUS
  <2> HIDE DEF pair, fallback, done
  <2> QED BY <2>1, <2>2
<1> HIDE DEF fallback
<1>4. /\ d.effective = decision.effective /\ d.plan = decision.plan
      /\ d.vectorK = decision.vectorK /\ d.graphK = decision.graphK
      /\ partial => d.fallback = fallback
  <2>1. DOMAIN decision = {"mode", "effective", "id", "plan", "vectorK", "graphK", "left", "feasible", "fallback"}
    BY DEF Fused, SoundDecision
  <2> QED BY <2>1
<1> HIDE DEF d
<1>5. Engine!DecisionValid(a.decision)
  <2>1. Engine!DecisionValid(decision)
    BY DEF Fused, SoundDecision
  <2> QED BY <1>1, <1>4, <2>1 DEF Engine!DecisionValid
<1>6. /\ done # {} /\ done \subseteq DOMAIN branches
      /\ DOMAIN branches \in {{"vector"}, {"graph"}, Engine!Kinds}
      /\ decision.effective = "fixed_hybrid" <=> DOMAIN branches = Engine!Kinds
      /\ \A b \in DOMAIN branches : Engine!BranchResultValid(branches[b])
      /\ \A b \in DOMAIN branches \ done : branches[b].status \in {"timed_out", "failed", "cancelled"}
  BY Hits DEF Fused, SoundDecision
<1>7. /\ terminal = "complete" => done = DOMAIN branches
      /\ terminal = "partial" =>
           done # {} /\ \E b \in DOMAIN branches : branches[b].status \in {"timed_out", "failed", "cancelled"}
  <2>1. decision.effective # "fixed_hybrid" => DOMAIN branches \in {{"vector"}, {"graph"}}
    BY <1>6
  <2>2. decision.effective # "fixed_hybrid" => done = DOMAIN branches
    BY <1>6, <2>1
  <2> QED BY <1>3, <1>6, <2>2
<1>8. Engine!TraceValid(a)
  <2>1. a.count <= call.topK
    <3>1. call.topK \in Nat /\ a.count = Engine!Smaller(call.topK, Engine!Cardinality(Engine!Candidate))
      <4>1. call.topK \in Nat
        BY DEF Fused, CallOk, Engine!RequestValid
      <4> QED BY <1>1, <4>1 DEF Engine!ResultCount
    <3>2. Engine!Cardinality(Engine!Candidate) \in Nat
      BY CandidatesAreFinite
    <3> QED BY <3>1, <3>2 DEF Engine!Smaller
  <2>2. Engine!Cardinality(DOMAIN branches) \in 1 .. 2
    BY BranchesAreCounted
  <2>3. ASSUME NEW i \in DOMAIN a.fusion
        PROVE  Engine!FusionTraceValid(a.fusion[i]) /\ Engine!FusionAgrees(a.fusion[i], a)
    <3>1. i \in DOMAIN Engine!FusionTrace
      BY <1>1, <2>3
    <3>2. decision.effective # "fixed_hybrid" => Engine!FusionTrace = <<>>
      BY DEF Engine!FusionTrace
    <3>3. decision.effective = "fixed_hybrid"
      BY <3>1, <3>2
    <3>4. a.decision.effective = "fixed_hybrid"
      BY <1>1, <1>4, <3>3
    <3> QED BY <1>1, <3>1, <3>3, <3>4, FusionIsValid
  <2>4. ASSUME NEW i \in DOMAIN a.scheduler
        PROVE  Engine!SchedulerTraceValid(a.scheduler[i]) /\ Engine!SchedulerAgrees(a.scheduler[i], a)
    <3>1. terminal = "partial" <=> Engine!Fallback # <<>>
      BY DEF fallback
    <3>2. a.partial <=> terminal = "partial"
      BY <1>1
    <3>3. a.partial => a.decision.fallback = Engine!Fallback
      BY <1>1, <1>4 DEF fallback
    <3>4. i \in DOMAIN Engine!SchedulerTrace(terminal, fused, total)
      BY <1>1, <2>4
    <3> HIDE DEF terminal
    <3> QED BY <1>1, <1>2, <3>1, <3>2, <3>3, <3>4, SchedulerIsValid
  <2>5. "graph" \in done => a.graphTrace
    BY <1>1
  <2>6. a.graphTrace => "graph" \in DOMAIN branches
    BY <1>1, <1>6
  <2>7. a.violated <=> a.total > Engine!Absolute(call.budget)
    BY <1>1
  <2>8. a.reserve = Engine!Smaller(400, Engine!Larger(100, call.budget))
    BY <1>1 DEF Engine!Reserve
  <2>9. \A b \in Engine!Kinds :
          IF b \in DOMAIN branches THEN a.latency[b] = branches[b].latency ELSE a.latency[b] = Engine!NoTime
    BY <1>1 DEF Engine!LatencyOf
  <2>10. a.fusion = <<>> => a.fusionLatency = 0
    BY <1>1
  <2> QED BY <2>1, <2>2, <2>3, <2>4, <2>5, <2>6, <2>7, <2>8, <2>9, <2>10 DEF Engine!TraceValid
<1>9. a.status = "partial" <=> a.partial
  BY <1>1
<1>10. Engine!ResponseValid(a)
  BY <1>1, <1>5, <1>6, <1>7, <1>8, <1>9 DEF Engine!ResponseValid
<1> QED BY <1>2, <1>10 DEF a

LEMMA BuildHolds ==
  ASSUME NEW fused \in Engine!End, NEW total \in Engine!End
  PROVE  EngineInv /\ Engine!Build(fused, total) => EngineInv'
<1> SUFFICES ASSUME EngineInv, Engine!Build(fused, total) PROVE EngineInv'
  OBVIOUS
<1> DEFINE a == Engine!Answer(fused, total)
<1>1. /\ Unanswered /\ Engine!State = "fusing" /\ OnRoute(events)
      /\ now \in Nat /\ now' = total /\ UNCHANGED <<call, decision, branches>>
  BY RunningIsOnRoute DEF Engine!Build
<1>2. fused \in Nat /\ now <= fused /\ total \in Nat /\ fused <= total /\ now <= total
  <2>1. Engine!Absolute(call.budget) \in Nat
    BY CutoffIsATime DEF EngineInv
  <2>2. fused \in Nat /\ total \in Nat
    BY <1>1, <2>1 DEF Engine!End
  <2>3. fused >= now /\ total >= fused
    BY DEF Engine!Build
  <2> QED BY <1>1, <2>2, <2>3
<1>3. /\ branches # <<>> /\ decision # <<>> /\ Engine!Raised(branches) = ""
      /\ Engine!Refusal(call) = "" /\ Spoken(call)
  BY <1>1 DEF EngineInv, PhaseOk, BranchesOk
<1>4. Fused
  <2>1. SoundDecision(decision)
    BY <1>3, ChosenIsSound DEF EngineInv, DecisionOk
  <2>2. /\ DOMAIN branches = Engine!BranchesOf(decision.effective)
        /\ \A b \in DOMAIN branches : SoundBranch(branches[b])
    BY <1>3 DEF EngineInv, BranchesOk
  <2>3. DOMAIN branches # {} /\ DOMAIN branches \subseteq Engine!Kinds
    BY <2>1, <2>2 DEF SoundDecision, Engine!Kinds
  <2>4. Engine!Succeeded(branches) # {}
    BY <1>3, <2>2, <2>3, RaisedIsACode
  <2> QED BY <2>1, <2>2, <2>4 DEF Fused, EngineInv
<1>5. EventsOk
  BY DEF EngineInv
<1>6. Engine!ResponseValid(a) /\ a.status \in Ends /\ a # <<>>
  BY <1>1, <1>2, <1>4, <1>5, AnswerIsValid
<1>7. /\ answer' = a /\ outcome' = ""
      /\ events' = Append(events, [state |-> a.status, at |-> fused])
  BY <1>6 DEF Engine!Build, Engine!Enters
<1> HIDE DEF a
<1>8. EventsOk' /\ Engine!State' = a.status
  <2>1. [state |-> a.status, at |-> fused] \in Happenings
    BY <1>2, <1>6 DEF Happenings, Ends
  <2>2. now' \in Nat /\ fused <= now' /\ fused \in Nat /\ now <= fused /\ now \in Nat
    BY <1>1, <1>2
  <2> DEFINE state == a.status
  <2>3. /\ [state |-> state, at |-> fused] \in Happenings
        /\ events' = Append(events, [state |-> state, at |-> fused])
    BY <1>7, <2>1
  <2> HIDE DEF state
  <2>4. EventsOk' /\ Engine!State' = state
    BY <1>5, <2>2, <2>3, Entered
  <2> QED BY <2>4 DEF state
<1>9. CallOk' /\ RouteOk' /\ AnswerOk' /\ OutcomeOk'
  <2>1. CallOk'
    BY <1>1, <1>2 DEF EngineInv, CallOk
  <2>2. RouteOk' /\ AnswerOk'
    BY <1>1, <1>3, <1>6, <1>7, <1>8 DEF RouteOk, AnswerOk
  <2>3. OutcomeOk'
    BY <1>7 DEF OutcomeOk
  <2> QED BY <2>1, <2>2, <2>3
<1>10. PhaseOk'
  <2>1. Engine!Refusal(call)' = "" /\ Spoken(call)'
    BY <1>1, <1>3 DEF Spoken
  <2> QED BY <1>6, <1>8, <2>1 DEF PhaseOk, Ends
<1>11. DecisionOk' /\ BranchesOk'
  BY <1>1 DEF EngineInv, DecisionOk, BranchesOk, Admitted, Spoken
<1> QED BY <1>8, <1>9, <1>10, <1>11 DEF EngineInv

LEMMA ReturnHolds ==
  ASSUME NEW t \in Engine!End
  PROVE  EngineInv /\ Engine!Return(t) => EngineInv'
<1> SUFFICES ASSUME EngineInv, Engine!Return(t) PROVE EngineInv'
  OBVIOUS
<1>1. /\ Engine!State \in Ends /\ now' = t /\ t >= now
      /\ UNCHANGED <<call, events, decision, branches, answer>>
      /\ outcome' = "DEADLINE_EXCEEDED" \/ outcome' = answer.status
  BY DEF Engine!Return, Ends
<1>2. t \in Nat /\ now \in Nat
  <2>1. Engine!Absolute(call.budget) \in Nat /\ now \in Nat
    BY CutoffIsATime DEF EngineInv, CallOk
  <2> QED BY <2>1 DEF Engine!End
<1>3. answer.status \in Ends
  BY <1>1 DEF EngineInv, AnswerOk
<1>4. OutcomeOk' /\ ~Unanswered'
  BY <1>1, <1>3 DEF OutcomeOk, Unanswered, Ends
<1>5. Engine!State' = Engine!State
  BY <1>1 DEF Engine!State
<1>6. CallOk' /\ RouteOk' /\ PhaseOk' /\ AnswerOk'
  BY <1>1, <1>2, <1>4, <1>5 DEF EngineInv, CallOk, RouteOk, PhaseOk, AnswerOk
<1>7. DecisionOk' /\ BranchesOk'
  BY <1>1 DEF EngineInv, DecisionOk, BranchesOk, Admitted, Spoken
<1>8. EventsOk'
  <2>1. \A i \in 1 .. Len(events) : events[i].at \in Nat
    <3>1. \A i \in 1 .. Len(events) : events[i] \in Happenings
      BY ElementOfSeq DEF EngineInv, EventsOk
    <3> QED BY <3>1 DEF Happenings
  <2>2. \A i \in 1 .. Len(events) : events[i].at <= now
    BY DEF EngineInv, EventsOk
  <2>3. \A i \in 1 .. Len(events) : events[i].at <= t
    BY <1>1, <1>2, <2>1, <2>2
  <2> QED BY <1>1, <2>3 DEF EngineInv, EventsOk
<1> QED BY <1>4, <1>6, <1>7, <1>8 DEF EngineInv

LEMMA EngineInit == Engine!Init => EngineInv
<1> SUFFICES ASSUME Engine!Init PROVE EngineInv
  OBVIOUS
<1> DEFINE first == [state |-> "received", at |-> 0]
<1>1. /\ call \in Searches /\ Engine!RequestValid(call) /\ now = 0 /\ events = <<first>>
      /\ decision = <<>> /\ branches = <<>> /\ answer = <<>>
  BY DEF Engine!Init
<1>2. first \in Happenings /\ first.state = "received" /\ first.at = 0
  BY DEF Happenings
<1> HIDE DEF first
<1>3. events \in Seq(Happenings) /\ Len(events) = 1 /\ events[1] = first
  BY <1>1, <1>2
<1>4. Engine!State = "received"
  BY <1>2, <1>3 DEF Engine!State
<1>5. EventsOk
  BY <1>1, <1>2, <1>3 DEF EventsOk
<1>6. OnRoute(events)
  BY <1>2, <1>3 DEF OnRoute, Route
<1>7. OutcomeOk
  BY DEF Engine!Init, OutcomeOk
<1>8. CallOk /\ RouteOk /\ DecisionOk /\ BranchesOk
  BY <1>1, <1>6 DEF CallOk, RouteOk, DecisionOk, BranchesOk
<1>9. PhaseOk /\ AnswerOk
  BY <1>1, <1>4 DEF PhaseOk, AnswerOk, Ends
<1> QED BY <1>5, <1>7, <1>8, <1>9 DEF EngineInv

LEMMA EngineNext == EngineInv /\ [Engine!Next]_engineVars => EngineInv'
<1>1. ASSUME EngineInv, UNCHANGED engineVars
      PROVE  EngineInv'
  <2>1. UNCHANGED <<call, now, events, decision, branches, answer, outcome>>
    BY <1>1 DEF engineVars
  <2>2. Engine!State' = Engine!State
    BY <2>1 DEF Engine!State
  <2>3. CallOk' /\ EventsOk' /\ RouteOk' /\ OutcomeOk' /\ AnswerOk'
    BY <1>1, <2>1, <2>2 DEF EngineInv, CallOk, EventsOk, RouteOk, OutcomeOk, AnswerOk, Unanswered
  <2>4. PhaseOk'
    BY <1>1, <2>1, <2>2 DEF EngineInv, PhaseOk, Unanswered, Spoken, Engine!Raised
  <2>5. DecisionOk' /\ BranchesOk'
    BY <1>1, <2>1 DEF EngineInv, DecisionOk, BranchesOk, Admitted, Spoken
  <2> QED BY <2>3, <2>4, <2>5 DEF EngineInv
<1>2. ASSUME EngineInv, Engine!Next
      PROVE  EngineInv'
  <2>1. CASE Engine!Receive
    BY <1>2, <2>1, ReceiveHolds
  <2>2. CASE \E t \in {now, Engine!Cutoff} : Engine!Analyze(t)
    BY <1>2, <2>2, AnalyzeHolds
  <2>3. CASE \E t \in Engine!PlanTimes : Engine!Plan(t)
    BY <1>2, <2>3, PlanHolds
  <2>4. ASSUME NEW t \in {now, Engine!Cutoff},
               NEW run \in [Engine!BranchesOf(decision.effective) -> Engine!Results(now, t)],
               Engine!Execute(run, t)
        PROVE  EngineInv'
    <3>1. /\ DOMAIN run = Engine!BranchesOf(decision.effective)
          /\ \A b \in DOMAIN run : run[b] \in Engine!Results(now, t)
      OBVIOUS
    <3> QED BY <1>2, <2>4, <3>1, ExecuteHolds
  <2>5. CASE \E fused, total \in Engine!End : Engine!Build(fused, total)
    BY <1>2, <2>5, BuildHolds
  <2>6. CASE \E t \in Engine!End : Engine!Return(t)
    BY <1>2, <2>6, ReturnHolds
  <2>7. CASE Engine!Done
    BY <1>1, <1>2, <2>7 DEF Engine!Done, Engine!vars, engineVars
  <2> QED BY <1>2, <2>1, <2>2, <2>3, <2>4, <2>5, <2>6, <2>7 DEF Engine!Next
<1> QED BY <1>1, <1>2

LEMMA SearchInvariance == MCSpec => [](part = "search" => EngineInv)
<1>1. MCInit => (part = "search" => EngineInv)
  BY EngineInit DEF MCInit
<1>2. (part = "search" => EngineInv) /\ [MCNext]_allVars => (part = "search" => EngineInv)'
  BY EngineNext, PartsMoveAlone
<1> QED BY <1>1, <1>2, PTL DEF MCSpec, allVars

\* Whatever a search is asked for, however its branches end, also cancelled, and however
\* late it becomes: an answer that is put together passes those validators of the models
\* it is made of that relate its counts, statuses, times and circuits, and no search that
\* found something ends in their ValidationError (engine._execute_request, core/models.py).
THEOREM AnswersPassValidators == MCSpec => []SearchAnswersAreValid
<1>1. (part = "search" => EngineInv) => SearchAnswersAreValid
  <2> SUFFICES ASSUME EngineInv PROVE Engine!Types /\ Engine!AnswersAreValid
    BY DEF SearchAnswersAreValid
  <2>1. \A i \in DOMAIN events : events[i].at \in 0 .. now
    <3>1. DOMAIN events = 1 .. Len(events) /\ \A i \in 1 .. Len(events) : events[i] \in Happenings
      BY ElementOfSeq, LenProperties DEF EngineInv, EventsOk
    <3>2. \A h \in Happenings : h.at \in Nat
      BY DEF Happenings
    <3>3. \A i \in 1 .. Len(events) : events[i].at <= now
      BY DEF EngineInv, EventsOk
    <3> QED BY <3>1, <3>2, <3>3 DEF EngineInv, CallOk
  <2>2. DOMAIN branches \subseteq Engine!Kinds
    <3>1. CASE branches = <<>>
      BY <3>1
    <3>2. CASE branches # <<>>
      <4>1. SoundDecision(decision)
        BY <3>2, ChosenIsSound DEF EngineInv, BranchesOk, DecisionOk
      <4> QED BY <3>2, <4>1 DEF EngineInv, BranchesOk, SoundDecision, Engine!Kinds
    <3> QED BY <3>1, <3>2
  <2>3. answer # <<>> => decision # <<>> /\ branches # <<>>
    BY DEF EngineInv, AnswerOk, BranchesOk
  <2> QED BY <2>1, <2>2, <2>3 DEF EngineInv, CallOk, OutcomeOk, Engine!Types, Engine!AnswersAreValid
<1> QED BY <1>1, SearchInvariance, PTL

\* The graph is searched only for a supported language and never when the vector store is
\* forced, and by the rule planner only for a query that has a signal, with enough time,
\* a graph tier and a circuit that was not open (engine._execute_request, RulePlanner).
THEOREM GraphNeedsReason == MCSpec => []SearchGraphAllowed
<1>1. (part = "search" => EngineInv) => SearchGraphAllowed
  <2> SUFFICES ASSUME EngineInv, "graph" \in DOMAIN branches
               PROVE  /\ call.language /\ ~call.force
                      /\ call.mode = "rule" => /\ GraphTier /\ ~call.open /\ call.signals # {}
                                               /\ decision.feasible /\ decision.left > LowBudget
    BY DEF SearchGraphAllowed, Engine!GraphOnlyWhenAllowed
  <2>1. branches # <<>>
    OBVIOUS
  <2>2. /\ Admitted(call) /\ Spoken(call) /\ \E left \in Nat : decision = Engine!Chosen(call, left)
        /\ DOMAIN branches = Engine!BranchesOf(decision.effective)
    BY <2>1 DEF EngineInv, BranchesOk, DecisionOk
  <2>3. SoundDecision(decision) /\ GraphReason(call, decision)
    BY <2>2, ChosenIsSound
  <2> QED BY <2>2, <2>3 DEF SoundDecision, GraphReason
<1> QED BY <1>1, SearchInvariance, PTL


----------------------------------------------------------------------------
(* More time.                                                               *)

\* What fits in less time fits in more.
LEMMA FitsInMore ==
  ASSUME NEW p \in Candidates, NEW query, query.topK \in Nat, NEW allowed,
         NEW s \in Nat, NEW t \in Nat, s <= t, Engine!Feasible(p, query, s, allowed)
  PROVE  Engine!Feasible(p, query, t, allowed)
<1>1. Catalog[p].vectorK \in Nat /\ Catalog[p].graphK \in Nat
  <2>1. p \in 0 .. 8
    BY DEF Candidates
  <2> QED BY <2>1, CatalogValid DEF PlanShapes
<1>2. Engine!Predicted(p, query) \in Int
  BY <1>1, ProfilesValid DEF Engine!Predicted, Engine!Larger
<1>3. Engine!Predicted(p, query) <= t
  BY <1>2 DEF Engine!Feasible
<1> QED BY <1>3 DEF Engine!Feasible

\* From one ladder, more time takes a plan that is no lesser.
LEMMA FirstInMore ==
  ASSUME NEW ladder, Descends(ladder), NEW query, query.topK \in Nat, NEW allowed,
         NEW s \in Nat, NEW t \in Nat, s <= t
  PROVE  Engine!FirstFeasible(ladder, query, s, allowed)
           <= Engine!FirstFeasible(ladder, query, t, allowed)
<1> DEFINE a == Engine!FirstFeasible(ladder, query, s, allowed)
           b == Engine!FirstFeasible(ladder, query, t, allowed)
<1>1. IsFirst(a, ladder, query, s, allowed) /\ IsFirst(b, ladder, query, t, allowed)
  BY FirstOfLadder DEF Descends
<1>2. a \in Candidates /\ b \in Candidates
  BY FirstIsOfLadder
<1> SUFFICES a <= b
  OBVIOUS
<1> HIDE DEF a, b
<1>3. CASE a = 0
  BY <1>2, <1>3 DEF Candidates
<1>4. CASE a # 0
  <2>1. PICK i \in DOMAIN ladder : a = ladder[i] /\ Engine!Feasible(ladder[i], query, s, allowed)
    BY <1>1, <1>4 DEF IsFirst
  <2>2. Engine!Feasible(ladder[i], query, t, allowed)
    BY <2>1, FitsInMore DEF Descends
  <2>3. PICK j \in DOMAIN ladder : b = ladder[j] /\ j <= i
    BY <1>1, <2>2 DEF IsFirst
  <2> QED BY <2>1, <2>3 DEF Descends
<1> QED BY <1>3, <1>4

\* RulePlanner.select with more time left.
LEMMA RuleUsesTime ==
  ASSUME NEW query, query.topK \in Nat, NEW runtime,
         NEW s \in Nat, NEW t \in Nat, s <= t
  PROVE  Engine!RuleDecision(query, s, runtime).id <= Engine!RuleDecision(query, t, runtime).id
<1> DEFINE allowed == GraphTier /\ runtime
           id(left) == Engine!FirstFeasible(Engine!Ladder(query, left, allowed), query, left, allowed)
<1>1. \A left : Engine!RuleDecision(query, left, runtime).id = id(left)
  BY DEF Engine!RuleDecision, Engine!Decision
<1>2. \A left : Descends(Engine!Ladder(query, left, allowed))
  BY LaddersDescend DEF Engine!Ladder
<1>3. id(s) <= id(t)
  <2> HIDE DEF allowed
  <2>1. CASE ~query.language \/ s <= LowBudget
    <3>1. Engine!Ladder(query, s, allowed) = <<0>>
      BY <2>1 DEF Engine!Ladder
    <3>2. id(s) \in {0} \cup {<<0>>[i] : i \in DOMAIN <<0>>}
      BY <1>2, <3>1, FirstIsOfLadder
    <3>3. id(s) = 0
      <4>1. \A i \in DOMAIN <<0>> : <<0>>[i] = 0
        OBVIOUS
      <4> QED BY <3>2, <4>1
    <3>4. id(t) \in Candidates
      BY <1>2, FirstIsOfLadder
    <3> HIDE DEF id
    <3> QED BY <3>3, <3>4 DEF Candidates
  <2>2. CASE query.language /\ s > LowBudget
    <3>1. ~(s <= LowBudget) /\ ~(t <= LowBudget)
      BY <2>2, ProfilesValid
    <3>2. Engine!Ladder(query, s, allowed) = Engine!Ladder(query, t, allowed)
      BY <2>2, <3>1 DEF Engine!Ladder
    <3> DEFINE ladder == Engine!Ladder(query, t, allowed)
    <3>3. Descends(ladder)
      BY <1>2
    <3>4. id(s) = Engine!FirstFeasible(ladder, query, s, allowed)
          /\ id(t) = Engine!FirstFeasible(ladder, query, t, allowed)
      BY <3>2
    <3> HIDE DEF ladder, id
    <3>5. Engine!FirstFeasible(ladder, query, s, allowed)
            <= Engine!FirstFeasible(ladder, query, t, allowed)
      BY <3>3, FirstInMore
    <3> QED BY <3>4, <3>5
  <2>3. (query.language /\ s > LowBudget) \/ ~query.language \/ s <= LowBudget
    BY ProfilesValid
  <2> QED BY <2>1, <2>2, <2>3
<1> QED BY <1>1, <1>3

LEMMA SearchesUseTime == EngineInv => Engine!MoreTimeNoWorse
<1> SUFFICES ASSUME EngineInv, NEW s \in Margins, NEW t \in Margins, NEW runtime \in BOOLEAN, s <= t
             PROVE  LET query == [language |-> call.language, signals |-> call.signals, topK |-> call.topK] IN
                    Engine!RuleDecision(query, s, runtime).id <= Engine!RuleDecision(query, t, runtime).id
  BY DEF Engine!MoreTimeNoWorse
<1> DEFINE query == [language |-> call.language, signals |-> call.signals, topK |-> call.topK]
<1>1. call.topK \in Nat /\ s \in Nat /\ t \in Nat
  BY SearchesValid DEF EngineInv, CallOk, CallShapes
<1>2. query.topK \in Nat
  BY <1>1
<1> HIDE DEF query
<1>3. Engine!RuleDecision(query, s, runtime).id <= Engine!RuleDecision(query, t, runtime).id
  BY <1>1, <1>2, RuleUsesTime
<1> QED BY <1>3 DEF query

----------------------------------------------------------------------------
(* The optimizer.                                                           *)

\* Of some plans, one has the least number.
LEMMA LeastOf ==
  ASSUME NEW S, S # {}, NEW f \in [S -> Nat]
  PROVE  \E p \in S : \A q \in S : f[p] <= f[q]
<1> DEFINE image == {f[p] : p \in S}
<1>1. image \subseteq Nat /\ image # {}
  OBVIOUS
<1>2. PICK n \in image : \A m \in image : n <= m
  <2> HIDE DEF image
  <2> QED BY <1>1, LeastExists
<1> QED BY <1>2

\* The keys by which plans are compared, one after the other.
Keyed(p, q, forecasts) ==
  LET a == forecasts[p] b == forecasts[q] IN
  \/ 100 - a.quality < 100 - b.quality
  \/ a.quality = b.quality /\ a.latency < b.latency
  \/ a.quality = b.quality /\ a.latency = b.latency /\ Catalog[p].depth < Catalog[q].depth
  \/ a.quality = b.quality /\ a.latency = b.latency /\ Catalog[p].depth = Catalog[q].depth /\ p < q

LEMMA PreferredIsKeyed ==
  ASSUME NEW forecasts, NEW p, NEW q, forecasts[p].quality \in Int, forecasts[q].quality \in Int
  PROVE  Optimizer!Preferred(p, q, forecasts) <=> Keyed(p, q, forecasts)
<1> DEFINE k(x) == <<100 - forecasts[x].quality, forecasts[x].latency, Catalog[x].depth, x>>
<1>1. Optimizer!Preferred(p, q, forecasts)
        <=> \E n \in 1 .. 4 : k(p)[n] < k(q)[n] /\ \A m \in 1 .. n - 1 : k(p)[m] = k(q)[m]
  BY DEF Optimizer!Preferred
<1>2. \A x : /\ k(x)[1] = 100 - forecasts[x].quality /\ k(x)[2] = forecasts[x].latency
             /\ k(x)[3] = Catalog[x].depth /\ k(x)[4] = x
  OBVIOUS
<1>3. k(p)[1] = k(q)[1] <=> forecasts[p].quality = forecasts[q].quality
  BY <1>2
<1> HIDE DEF k
<1>4. (\E n \in 1 .. 4 : k(p)[n] < k(q)[n] /\ \A m \in 1 .. n - 1 : k(p)[m] = k(q)[m])
        <=> \/ k(p)[1] < k(q)[1]
            \/ k(p)[1] = k(q)[1] /\ k(p)[2] < k(q)[2]
            \/ k(p)[1] = k(q)[1] /\ k(p)[2] = k(q)[2] /\ k(p)[3] < k(q)[3]
            \/ /\ k(p)[1] = k(q)[1] /\ k(p)[2] = k(q)[2] /\ k(p)[3] = k(q)[3]
               /\ k(p)[4] < k(q)[4]
  <2>1. /\ 1 .. 1 - 1 = {} /\ 1 .. 2 - 1 = {1} /\ 1 .. 3 - 1 = {1, 2} /\ 1 .. 4 - 1 = {1, 2, 3}
        /\ 1 .. 4 = {1, 2, 3, 4}
    OBVIOUS
  <2> QED BY <2>1
<1> QED BY <1>1, <1>2, <1>3, <1>4 DEF Keyed

\* Of some plans with sound predictions one is preferred to every other.
Sound(forecasts, p) == forecasts[p].quality \in 0 .. 100 /\ forecasts[p].latency \in Nat

LEMMA BestExists ==
  ASSUME NEW forecasts, NEW S, S \subseteq 0 .. 8, S # {}, \A p \in S : Sound(forecasts, p)
  PROVE  \E p \in S : \A q \in S \ {p} : Optimizer!Preferred(p, q, forecasts)
<1> DEFINE Q == [p \in S |-> 100 - forecasts[p].quality]
           L == [p \in S |-> forecasts[p].latency]
           D == [p \in S |-> Catalog[p].depth]
<1>1. Q \in [S -> Nat] /\ L \in [S -> Nat] /\ D \in [S -> Nat]
  <2>1. \A p \in S : /\ 100 - forecasts[p].quality \in Nat /\ forecasts[p].latency \in Nat
                     /\ Catalog[p].depth \in Nat
    <3> TAKE p \in S
    <3>1. 100 - forecasts[p].quality \in Nat /\ forecasts[p].latency \in Nat
      BY DEF Sound
    <3>2. p \in 0 .. 8
      OBVIOUS
    <3>3. Catalog[p].depth \in Nat
      BY <3>2, CatalogValid DEF PlanShapes
    <3> QED BY <3>1, <3>3
  <2> QED BY <2>1
<1>2. \A p, q \in S : /\ Q[p] < Q[q] <=> 100 - forecasts[p].quality < 100 - forecasts[q].quality
                      /\ Q[p] = Q[q] <=> forecasts[p].quality = forecasts[q].quality
                      /\ L[p] = forecasts[p].latency /\ D[p] = Catalog[p].depth
  <2> TAKE p, q \in S
  <2>1. Q[p] = 100 - forecasts[p].quality /\ Q[q] = 100 - forecasts[q].quality
    OBVIOUS
  <2>2. forecasts[p].quality \in Int /\ forecasts[q].quality \in Int
    BY DEF Sound
  <2>3. L[p] = forecasts[p].latency /\ D[p] = Catalog[p].depth
    OBVIOUS
  <2> HIDE DEF Q, L, D
  <2> QED BY <2>1, <2>2, <2>3
<1> HIDE DEF Q, L, D
<1>3. PICK a \in S : \A q \in S : Q[a] <= Q[q]
  BY <1>1, LeastOf
<1> DEFINE T == {p \in S : Q[p] = Q[a]}
<1>4. PICK b \in T : \A q \in T : L[b] <= L[q]
  <2> DEFINE f == [p \in T |-> L[p]]
  <2>1. T # {} /\ f \in [T -> Nat]
    BY <1>1
  <2>2. \E p \in T : \A q \in T : f[p] <= f[q]
    <3> HIDE DEF T, f
    <3> QED BY <2>1, LeastOf
  <2> QED BY <2>2
<1> DEFINE U == {p \in T : L[p] = L[b]}
<1>5. PICK c \in U : \A q \in U : D[c] <= D[q]
  <2> DEFINE f == [p \in U |-> D[p]]
  <2>1. U # {} /\ f \in [U -> Nat]
    BY <1>1
  <2>2. \E p \in U : \A q \in U : f[p] <= f[q]
    <3> HIDE DEF U, f
    <3> QED BY <2>1, LeastOf
  <2> QED BY <2>2
<1> DEFINE W == {p \in U : D[p] = D[c]}
<1>6. PICK d \in W : \A q \in W : d <= q
  <2>1. W # {} /\ W \subseteq Nat
    <3>1. W # {}
      OBVIOUS
    <3>2. W \subseteq S /\ S \subseteq Nat
      OBVIOUS
    <3> QED BY <3>1, <3>2
  <2> HIDE DEF W
  <2> QED BY <2>1, LeastExists
<1>7. d \in S /\ Q[d] = Q[a] /\ L[d] = L[b] /\ D[d] = D[c] /\ d \in Nat
  BY <1>6
<1>8. \A q \in S : forecasts[q].quality \in Int
  <2> TAKE q \in S
  <2>1. forecasts[q].quality \in 0 .. 100
    BY DEF Sound
  <2> QED BY <2>1
<1>9. \A q \in S : Keyed(d, q, forecasts) => Optimizer!Preferred(d, q, forecasts)
  <2> TAKE q \in S
  <2>1. forecasts[d].quality \in Int /\ forecasts[q].quality \in Int
    BY <1>7, <1>8
  <2>2. Optimizer!Preferred(d, q, forecasts) <=> Keyed(d, q, forecasts)
    BY <2>1, PreferredIsKeyed
  <2> QED BY <2>2
<1>10. ASSUME NEW q \in S \ {d}
       PROVE  Optimizer!Preferred(d, q, forecasts)
  <2>0. /\ q \in S /\ q # d /\ q \in Nat /\ Q[q] \in Nat /\ L[q] \in Nat /\ D[q] \in Nat
        /\ Q[d] \in Nat /\ L[d] \in Nat /\ D[d] \in Nat
    BY <1>1, <1>7
  <2>1. CASE Q[q] # Q[a]
    <3>1. Q[d] < Q[q]
      BY <1>3, <1>7, <2>0, <2>1
    <3>2. Keyed(d, q, forecasts)
      BY <1>2, <1>7, <2>0, <3>1 DEF Keyed
    <3> QED BY <1>9, <2>0, <3>2
  <2>2. CASE q \in T /\ L[q] # L[b]
    <3>1. Q[d] = Q[q] /\ L[d] < L[q]
      BY <1>4, <1>7, <2>0, <2>2
    <3>2. Keyed(d, q, forecasts)
      BY <1>2, <1>7, <2>0, <3>1 DEF Keyed
    <3> QED BY <1>9, <2>0, <3>2
  <2>3. CASE q \in U /\ D[q] # D[c]
    <3>1. Q[d] = Q[q] /\ L[d] = L[q] /\ D[d] < D[q]
      BY <1>5, <1>7, <2>0, <2>3
    <3>2. Keyed(d, q, forecasts)
      BY <1>2, <1>7, <2>0, <3>1 DEF Keyed
    <3> QED BY <1>9, <2>0, <3>2
  <2>4. CASE q \in W
    <3>1. Q[d] = Q[q] /\ L[d] = L[q] /\ D[d] = D[q] /\ d < q
      BY <1>6, <1>7, <2>0, <2>4
    <3>2. Keyed(d, q, forecasts)
      BY <1>2, <1>7, <2>0, <3>1 DEF Keyed
    <3> QED BY <1>9, <2>0, <3>2
  <2> QED BY <2>0, <2>1, <2>2, <2>3, <2>4
<1> QED BY <1>7, <1>10

\* What the optimizer may choose, and what it chooses.
Choices(forecasts, language, left) ==
  {p \in Optimizer!Enabled : Optimizer!Eligible(p, forecasts, language, left, Optimizer!Reserve(25))}

LEMMA OptimizerChooses ==
  ASSUME NEW forecasts \in Predictions, NEW language, NEW left \in Int
  PROVE  LET d == Optimizer!OptimizerDecision(forecasts, language, left, Optimizer!Reserve(25))
             eligible == Choices(forecasts, language, left) IN
         /\ eligible \subseteq 0 .. 8 /\ \A p \in eligible : Sound(forecasts, p)
         /\ d.feasible <=> eligible # {}
         /\ d.left = left /\ d.plan = Catalog[d.id]
         /\ eligible = {} => d.id = 0
         /\ eligible # {} => /\ d.id \in eligible
                             /\ \A q \in eligible \ {d.id} : Optimizer!Preferred(d.id, q, forecasts)
<1> DEFINE eligible == Choices(forecasts, language, left)
           best == CHOOSE p \in eligible : \A q \in eligible \ {p} : Optimizer!Preferred(p, q, forecasts)
           id == IF eligible = {} THEN 0 ELSE best
           fallback == IF eligible = {} THEN <<"no_feasible_candidate">> ELSE <<>>
           d == Optimizer!Decision("cost_aware", id, Catalog[id], 0, left, eligible # {}, fallback)
<1>1. Optimizer!OptimizerDecision(forecasts, language, left, Optimizer!Reserve(25)) = d
  BY DEF Optimizer!OptimizerDecision, Choices
<1>2. d.id = id /\ d.plan = Catalog[id] /\ d.left = left /\ d.feasible = (eligible # {})
  BY DEF Optimizer!Decision
<1> HIDE DEF d
<1>3. eligible \subseteq 0 .. 8 /\ \A p \in eligible : Sound(forecasts, p)
  <2> SUFFICES ASSUME NEW p \in eligible PROVE p \in 0 .. 8 /\ Sound(forecasts, p)
    OBVIOUS
  <2>1. p \in 0 .. 8 /\ p \in Enabled
    BY DEF Choices, Optimizer!Enabled, Enabled
  <2>2. forecasts[p].latency \in Int
    BY <2>1, PredictionsValid
  <2>3. forecasts[p].quality \in 0 .. 100 /\ forecasts[p].latency >= 0
    BY DEF Choices, Optimizer!Eligible
  <2> QED BY <2>1, <2>2, <2>3 DEF Sound
<1> HIDE DEF eligible
<1>4. eligible # {} => /\ best \in eligible
                       /\ \A q \in eligible \ {best} : Optimizer!Preferred(best, q, forecasts)
  <2> SUFFICES ASSUME eligible # {}
               PROVE  \E p \in eligible : \A q \in eligible \ {p} : Optimizer!Preferred(p, q, forecasts)
    OBVIOUS
  <2> QED BY <1>3, BestExists
<1> HIDE DEF best
<1>5. /\ d.feasible <=> eligible # {}
      /\ eligible = {} => d.id = 0
      /\ eligible # {} => /\ d.id \in eligible
                          /\ \A q \in eligible \ {d.id} : Optimizer!Preferred(d.id, q, forecasts)
  BY <1>2, <1>4
<1>6. d.left = left /\ d.plan = Catalog[d.id]
  BY <1>2
<1> QED BY <1>1, <1>3, <1>5, <1>6 DEF eligible

\* The plan that was chosen is one for the language, and with more time left there is
\* one of no lower quality.
LEMMA MoreTimeKeepsBest ==
  ASSUME NEW forecasts \in Predictions, NEW language, NEW s \in Int, NEW t \in Int
  PROVE  LET a == Optimizer!OptimizerDecision(forecasts, language, s, Optimizer!Reserve(25))
             b == Optimizer!OptimizerDecision(forecasts, language, t, Optimizer!Reserve(25)) IN
         /\ a.plan.graph => language
         /\ a.feasible /\ s <= t =>
              b.feasible /\ forecasts[a.id].quality <= forecasts[b.id].quality
<1> DEFINE a == Optimizer!OptimizerDecision(forecasts, language, s, Optimizer!Reserve(25))
           b == Optimizer!OptimizerDecision(forecasts, language, t, Optimizer!Reserve(25))
           S == Choices(forecasts, language, s)
           T == Choices(forecasts, language, t)
<1> SUFFICES /\ a.plan.graph => language
             /\ a.feasible /\ s <= t =>
                  b.feasible /\ forecasts[a.id].quality <= forecasts[b.id].quality
  OBVIOUS
<1>1. /\ \A p \in S : Sound(forecasts, p)
      /\ a.feasible <=> S # {}
      /\ a.plan = Catalog[a.id]
      /\ S = {} => a.id = 0
      /\ S # {} => a.id \in S
  BY OptimizerChooses
<1>2. /\ \A p \in T : Sound(forecasts, p)
      /\ b.feasible <=> T # {}
      /\ T # {} => /\ b.id \in T
                   /\ \A q \in T \ {b.id} : Optimizer!Preferred(b.id, q, forecasts)
  BY OptimizerChooses
<1> HIDE DEF a, b
<1>3. a.plan.graph => language
  <2>1. CASE S = {}
    BY <1>1, <2>1, CatalogShipped
  <2>2. CASE S # {}
    BY <1>1, <2>2 DEF Choices, Optimizer!Eligible
  <2> QED BY <2>1, <2>2
<1>4. ASSUME a.feasible, s <= t
      PROVE  b.feasible /\ forecasts[a.id].quality <= forecasts[b.id].quality
  <2>1. a.id \in S
    BY <1>1, <1>4
  <2>2. a.id \in T
    <3>1. /\ a.id \in Optimizer!Enabled
          /\ Optimizer!Eligible(a.id, forecasts, language, s, Optimizer!Reserve(25))
      BY <2>1 DEF Choices
    <3>2. Optimizer!Reserve(25) \in Int
      BY DEF Optimizer!Reserve, Optimizer!Smaller, Optimizer!Larger
    <3>3. forecasts[a.id].latency \in Int
      BY <1>1, <2>1 DEF Sound
    <3>4. Optimizer!Eligible(a.id, forecasts, language, t, Optimizer!Reserve(25))
      BY <1>4, <3>1, <3>2, <3>3 DEF Optimizer!Eligible
    <3> QED BY <3>1, <3>4 DEF Choices
  <2>3. T # {} /\ b.id \in T
    BY <1>2, <2>2
  <2> HIDE DEF S, T
  <2>4. forecasts[a.id].quality \in 0 .. 100 /\ forecasts[b.id].quality \in 0 .. 100
    BY <1>2, <2>2, <2>3 DEF Sound
  <2>5. CASE a.id = b.id
    BY <1>2, <2>3, <2>4, <2>5
  <2>6. CASE a.id # b.id
    <3>1. Optimizer!Preferred(b.id, a.id, forecasts)
      BY <1>2, <2>2, <2>3, <2>6
    <3>2. Keyed(b.id, a.id, forecasts)
      BY <2>4, <3>1, PreferredIsKeyed
    <3>3. \/ 100 - forecasts[b.id].quality < 100 - forecasts[a.id].quality
          \/ forecasts[b.id].quality = forecasts[a.id].quality
      BY <3>2 DEF Keyed
    <3>4. forecasts[a.id].quality <= forecasts[b.id].quality
      <4>1. \A x, y \in 0 .. 100 : 100 - x < 100 - y \/ x = y => y <= x
        OBVIOUS
      <4> QED BY <2>4, <3>3, <4>1
    <3> QED BY <1>2, <2>3, <3>4
  <2> QED BY <2>5, <2>6
<1> QED BY <1>3, <1>4

OptimizerInv ==
  /\ forecast \in Predictions
  /\ choice # <<>> =>
       \E left \in Moments :
         choice = Optimizer!OptimizerDecision(forecast, supported, left, Optimizer!Reserve(25))

LEMMA OptimizerInit == Optimizer!Init => OptimizerInv
BY DEF Optimizer!Init, OptimizerInv

LEMMA OptimizerNext == OptimizerInv /\ [Optimizer!Next]_optimizerVars => OptimizerInv'
<1> SUFFICES ASSUME OptimizerInv, [Optimizer!Next]_optimizerVars PROVE OptimizerInv'
  OBVIOUS
<1>1. CASE UNCHANGED optimizerVars
  BY <1>1 DEF OptimizerInv, optimizerVars
<1>2. ASSUME NEW left \in Moments, Optimizer!Select(left)
      PROVE  OptimizerInv'
  BY <1>2 DEF OptimizerInv, Optimizer!Select
<1> QED BY <1>1, <1>2 DEF Optimizer!Next

LEMMA OptimizerUsesTime == OptimizerInv => Optimizer!MoreTimeKeepsQuality
<1> SUFFICES ASSUME OptimizerInv, choice # <<>>
             PROVE  /\ choice.plan.graph => supported
                    /\ \A left \in Moments :
                         LET then == Optimizer!OptimizerDecision(forecast, supported, left, Optimizer!Reserve(25)) IN
                         choice.feasible /\ choice.left <= left =>
                           then.feasible /\ forecast[choice.id].quality <= forecast[then.id].quality
  BY DEF Optimizer!MoreTimeKeepsQuality
<1>1. PICK s \in Moments : choice = Optimizer!OptimizerDecision(forecast, supported, s, Optimizer!Reserve(25))
  BY DEF OptimizerInv
<1>2. s \in Int /\ forecast \in Predictions
  BY PredictionsValid DEF OptimizerInv
<1> DEFINE D(left) == Optimizer!OptimizerDecision(forecast, supported, left, Optimizer!Reserve(25))
<1>3. D(s).left = s
  BY <1>2, OptimizerChooses
<1>4. \A left \in Int :
        /\ D(s).plan.graph => supported
        /\ D(s).feasible /\ s <= left =>
             D(left).feasible /\ forecast[D(s).id].quality <= forecast[D(left).id].quality
  BY <1>2, MoreTimeKeepsBest
<1>5. choice = D(s)
  BY <1>1
<1> HIDE DEF D
<1>6. choice.plan.graph => supported
  BY <1>2, <1>4, <1>5
<1>7. ASSUME NEW left \in Moments, choice.feasible, choice.left <= left
      PROVE  D(left).feasible /\ forecast[choice.id].quality <= forecast[D(left).id].quality
  <2>1. left \in Int /\ s <= left
    BY <1>3, <1>5, <1>7, PredictionsValid
  <2> QED BY <1>4, <1>5, <1>7, <2>1
<1> QED BY <1>6, <1>7 DEF D

\* More time never gets a lesser plan, for any query, catalog and models that the
\* configuration admits: from the ladders of RulePlanner.select a plan that is no lower,
\* and from OfflineCostAwareOptimizer.select one of no lower predicted quality.
THEOREM TimeIsUsed == MCSpec => []PlansUseTime
<1>1. MCInit => (part = "optimizer" => OptimizerInv)
  BY OptimizerInit DEF MCInit
<1>2. (part = "optimizer" => OptimizerInv) /\ [MCNext]_allVars => (part = "optimizer" => OptimizerInv)'
  BY OptimizerNext, PartsMoveAlone
<1>3. (part = "search" => EngineInv) /\ (part = "optimizer" => OptimizerInv) => PlansUseTime
  BY SearchesUseTime, OptimizerUsesTime DEF PlansUseTime
<1> QED BY <1>1, <1>2, <1>3, SearchInvariance, PTL DEF MCSpec, allVars
=============================================================================
