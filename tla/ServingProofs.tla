---------------------------- MODULE ServingProofs ----------------------------
(***************************************************************************)
(* The safety of what serves beside the scheduler: the vector searches and *)
(* their operations, the counters and the traces of the service, the       *)
(* fusion of two branches, the search of the graph, and the making of an   *)
(* engine, for any limits, requests, hits and corpora.  Each part of a     *)
(* behaviour of MCServing moves by itself; its invariants are proved by    *)
(* themselves.                                                             *)
(***************************************************************************)
EXTENDS MCServing, FiniteSetTheorems, SequenceTheorems, NaturalsInduction, WellFoundedInduction, TLAPS

allVars == <<part, vars, serviceVars, graphVars, mergingVars, buildVars>>

\* A step is one of the part that moves, and none of any other.
LEMMA PartsMoveAlone ==
  [MCNext]_allVars =>
    /\ part' = part
    /\ part = "vector" => [Next]_vars
    /\ [Service!Next]_serviceVars
    /\ part = "graph" => [Graph!Next]_graphVars
    /\ part = "fusion" => [Merging!Next]_mergingVars
    /\ part = "build" => [Builder!Next]_buildVars
BY DEF MCNext, allVars

----------------------------------------------------------------------------
(* The making of an engine.                                                 *)

\* The steps of each profile by their numbers.
StepAt(p, n, step) ==
  /\ p = "stage3" =>
       \/ (n = 1 /\ step = "read vector") \/ (n = 2 /\ step = "models")
       \/ (n = 3 /\ step = "open qdrant") \/ (n = 4 /\ step = "verify qdrant")
       \/ (n = 5 /\ step = "engine")
  /\ p = "stage4" =>
       \/ (n = 1 /\ step = "read pointer") \/ (n = 2 /\ step = "read vector")
       \/ (n = 3 /\ step = "match") \/ (n = 4 /\ step = "read vector")
       \/ (n = 5 /\ step = "models") \/ (n = 6 /\ step = "open qdrant")
       \/ (n = 7 /\ step = "verify qdrant") \/ (n = 8 /\ step = "engine")
  /\ p = "stage5" =>
       \/ (n = 1 /\ step = "read pointer") \/ (n = 2 /\ step = "read graph")
       \/ (n = 3 /\ step = "match") \/ (n = 4 /\ step = "models")
       \/ (n = 5 /\ step = "open neo4j") \/ (n = 6 /\ step = "verify neo4j")
       \/ (n = 7 /\ step = "engine")
  /\ p = "stage6" =>
       \/ (n = 1 /\ step = "read pointer") \/ (n = 2 /\ step = "read vector")
       \/ (n = 3 /\ step = "read graph") \/ (n = 4 /\ step = "models")
       \/ (n = 5 /\ step = "match") \/ (n = 6 /\ step = "open qdrant")
       \/ (n = 7 /\ step = "open neo4j") \/ (n = 8 /\ step = "verify qdrant")
       \/ (n = 9 /\ step = "verify neo4j") \/ (n = 10 /\ step = "engine")

\* The places of a tuple of each length.
LEMMA FiveSteps ==
  \A s, n, a, b, c, d, e :
    s = <<a, b, c, d, e>> /\ n \in DOMAIN s =>
      n \in 1 .. 10 /\ (n = 1 \/ n = 2 \/ n = 3 \/ n = 4 \/ n = 5)
OBVIOUS

LEMMA SevenSteps ==
  \A s, n, a, b, c, d, e, f, g :
    s = <<a, b, c, d, e, f, g>> /\ n \in DOMAIN s =>
      n \in 1 .. 10 /\ (n = 1 \/ n = 2 \/ n = 3 \/ n = 4 \/ n = 5 \/ n = 6 \/ n = 7)
OBVIOUS

LEMMA EightSteps ==
  \A s, n, a, b, c, d, e, f, g, h :
    s = <<a, b, c, d, e, f, g, h>> /\ n \in DOMAIN s =>
      n \in 1 .. 10 /\ (n = 1 \/ n = 2 \/ n = 3 \/ n = 4 \/ n = 5 \/ n = 6 \/ n = 7 \/ n = 8)
OBVIOUS

LEMMA TenSteps ==
  \A s, n, a, b, c, d, e, f, g, h, i, j :
    s = <<a, b, c, d, e, f, g, h, i, j>> /\ n \in DOMAIN s =>
      n \in 1 .. 10 /\ (n = 1 \/ n = 2 \/ n = 3 \/ n = 4 \/ n = 5 \/ n = 6 \/ n = 7 \/ n = 8 \/ n = 9 \/ n = 10)
OBVIOUS

\* The step a profile has at a place (Steps) is that of the table.
LEMMA StepsOfProfiles ==
  ASSUME NEW p \in Builder!Stages, NEW n \in DOMAIN Builder!Steps(p)
  PROVE  n \in 1 .. 10 /\ StepAt(p, n, Builder!Steps(p)[n])
<1> DEFINE s == Builder!Steps(p)
<1>1. CASE p = "stage3"
  <2>1. s = <<"read vector", "models", "open qdrant", "verify qdrant", "engine">>
    BY <1>1 DEF Builder!Steps
  <2> HIDE DEF s
  <2>2. n \in DOMAIN s
    BY DEF s
  <2>3. n \in 1 .. 10 /\ (n = 1 \/ n = 2 \/ n = 3 \/ n = 4 \/ n = 5)
    BY <2>1, <2>2, FiveSteps, Zenon
  <2>4. /\ s[1] = "read vector" /\ s[2] = "models" /\ s[3] = "open qdrant"
        /\ s[4] = "verify qdrant" /\ s[5] = "engine"
    BY <2>1
  <2> QED BY <1>1, <2>3, <2>4, Zenon DEF StepAt, s
<1>2. CASE p = "stage4"
  <2>1. s = <<"read pointer", "read vector", "match", "read vector", "models",
              "open qdrant", "verify qdrant", "engine">>
    BY <1>2 DEF Builder!Steps
  <2> HIDE DEF s
  <2>2. n \in DOMAIN s
    BY DEF s
  <2>3. n \in 1 .. 10 /\ (n = 1 \/ n = 2 \/ n = 3 \/ n = 4 \/ n = 5 \/ n = 6 \/ n = 7 \/ n = 8)
    BY <2>1, <2>2, EightSteps, Zenon
  <2>4. /\ s[1] = "read pointer" /\ s[2] = "read vector" /\ s[3] = "match"
        /\ s[4] = "read vector" /\ s[5] = "models" /\ s[6] = "open qdrant"
        /\ s[7] = "verify qdrant" /\ s[8] = "engine"
    BY <2>1
  <2> QED BY <1>2, <2>3, <2>4, Zenon DEF StepAt, s
<1>3. CASE p = "stage5"
  <2>1. s = <<"read pointer", "read graph", "match", "models", "open neo4j",
              "verify neo4j", "engine">>
    BY <1>3 DEF Builder!Steps
  <2> HIDE DEF s
  <2>2. n \in DOMAIN s
    BY DEF s
  <2>3. n \in 1 .. 10 /\ (n = 1 \/ n = 2 \/ n = 3 \/ n = 4 \/ n = 5 \/ n = 6 \/ n = 7)
    BY <2>1, <2>2, SevenSteps, Zenon
  <2>4. /\ s[1] = "read pointer" /\ s[2] = "read graph" /\ s[3] = "match"
        /\ s[4] = "models" /\ s[5] = "open neo4j" /\ s[6] = "verify neo4j"
        /\ s[7] = "engine"
    BY <2>1
  <2> QED BY <1>3, <2>3, <2>4, Zenon DEF StepAt, s
<1>4. CASE p = "stage6"
  <2>1. s = <<"read pointer", "read vector", "read graph", "models", "match",
              "open qdrant", "open neo4j", "verify qdrant", "verify neo4j", "engine">>
    BY <1>4 DEF Builder!Steps
  <2> HIDE DEF s
  <2>2. n \in DOMAIN s
    BY DEF s
  <2>3. n \in 1 .. 10 /\ (n = 1 \/ n = 2 \/ n = 3 \/ n = 4 \/ n = 5 \/ n = 6 \/ n = 7 \/ n = 8 \/ n = 9 \/ n = 10)
    BY <2>1, <2>2, TenSteps, Zenon
  <2>4. /\ s[1] = "read pointer" /\ s[2] = "read vector" /\ s[3] = "read graph"
        /\ s[4] = "models" /\ s[5] = "match" /\ s[6] = "open qdrant"
        /\ s[7] = "open neo4j" /\ s[8] = "verify qdrant" /\ s[9] = "verify neo4j"
        /\ s[10] = "engine"
    BY <2>1
  <2> QED BY <1>4, <2>3, <2>4, Zenon DEF StepAt, s
<1> QED BY <1>1, <1>2, <1>3, <1>4 DEF Builder!Stages

\* What a builder does next is the step of its profile.
LEMMA AtTheStep ==
  ASSUME NEW step, Builder!AtStep(step), profile \in Builder!Stages
  PROVE  outcome = "" /\ at \in 1 .. 10 /\ StepAt(profile, at, step)
BY StepsOfProfiles DEF Builder!AtStep

\* Nothing is a step of no profile.
LEMMA NoSteps == ASSUME NEW s, s = <<>> PROVE DOMAIN s = {}
OBVIOUS

\* Before a profile is chosen there is nothing to take.
LEMMA NoProfileNoStep == profile = "" => \A step : ~Builder!AtStep(step)
<1> DEFINE s == Builder!Steps("")
<1>1. s = <<>>
  BY DEF Builder!Steps
<1> HIDE DEF s
<1>2. DOMAIN s = {}
  BY <1>1, NoSteps
<1> QED BY <1>2 DEF Builder!AtStep, s

\* The empty names of the profile and the outcome.
Unchosen == profile = ""
Building == outcome = ""

\* The profile and the place of the builder, and the history of the pointer.
BuildTypes ==
  /\ profile \in Builder!Stages \/ (Unchosen /\ at = 0)
  /\ at \in 0 .. 11
  /\ pointer \in named /\ rewritten \in BOOLEAN

\* What has been read and compared by a step is of one corpus, and of one the pointer named.
ReadSoFar ==
  /\ profile \in {"stage4", "stage5", "stage6"} /\ at >= 2 => active \in named
  /\ profile = "stage4" /\ at >= 3 /\ ~rewritten => vector = vectorFile
  /\ profile = "stage4" /\ at >= 4 /\ ~rewritten => vector = active
  /\ profile = "stage5" /\ at >= 4 => graph = active
  /\ profile = "stage6" /\ at >= 6 => vector = active /\ graph = active

\* An engine is there at the last step.
ServingIsLast ==
  outcome = "serving" =>
    \/ (profile = "stage3" /\ at = 5) \/ (profile = "stage4" /\ at = 8)
    \/ (profile = "stage5" /\ at = 7) \/ (profile = "stage6" /\ at = 10)

\* The clients a builder has opened by a step.
OpenBy(p, n) ==
  {c \in Builder!Clients :
     \/ /\ c = "qdrant"
        /\ (p = "stage3" /\ n >= 4) \/ (p \in {"stage4", "stage6"} /\ n >= 7)
     \/ /\ c = "neo4j"
        /\ (p = "stage5" /\ n >= 6) \/ (p = "stage6" /\ n >= 8)}

\* The client the single-store builders have no handler for yet.
Neglected ==
  ((profile = "stage3" /\ at = 3) \/ (profile = "stage4" /\ at = 6)) /\ open = {"qdrant"}

\* While a handler closes, what it has still to close is what is open.
Closing ==
  \/ /\ raised = {}
     /\ \/ closing = <<"qdrant">> /\ open = {"qdrant"}
        \/ closing = <<"neo4j">> /\ open = {"neo4j"}
        \/ closing = <<"qdrant", "neo4j">> /\ open = {"qdrant", "neo4j"}
        \/ closing = <<>> /\ (open = {} \/ Neglected)
  \/ raised # {} /\ closing = <<>> /\ (raised = {"neo4j"} => open = {"neo4j"})

OpenSoFar ==
  /\ Building => open = OpenBy(profile, at)
  /\ outcome # "failed" => closing = <<>> /\ raised = {}
  /\ outcome = "failed" => Closing

BuildInv == BuildTypes /\ ReadSoFar /\ ServingIsLast /\ OpenSoFar

\* A process that begins has read and opened nothing.
LEMMA BuildInit == Builder!Init => BuildInv
<1> SUFFICES ASSUME Builder!Init PROVE BuildInv
  OBVIOUS
<1>1. /\ Unchosen /\ Building /\ at = 0 /\ closing = <<>> /\ raised = {} /\ open = {}
      /\ pointer \in named /\ rewritten \in BOOLEAN
  BY DEF Builder!Init, Unchosen, Building
<1>2. profile \notin Builder!Stages /\ profile \notin {"stage3", "stage4", "stage5", "stage6"}
  BY <1>1 DEF Builder!Stages, Unchosen
<1>3. outcome \notin {"serving", "failed"}
  BY <1>1 DEF Building
<1>4. OpenBy(profile, at) = {}
  BY <1>2 DEF OpenBy
<1> QED BY <1>1, <1>2, <1>3, <1>4 DEF BuildInv, BuildTypes, ReadSoFar, ServingIsLast, OpenSoFar

\* Where a builder is when it takes a step.
LEMMA Here ==
  ASSUME NEW step, BuildInv, Builder!AtStep(step)
  PROVE  /\ Building /\ profile \in Builder!Stages /\ StepAt(profile, at, step) /\ at \in 1 .. 10
         /\ open = OpenBy(profile, at) /\ closing = <<>> /\ raised = {}
<1>1. profile \in Builder!Stages
  BY NoProfileNoStep DEF BuildInv, BuildTypes, Unchosen
<1>2. Building /\ at \in 1 .. 10 /\ StepAt(profile, at, step)
  BY <1>1, AtTheStep DEF Building
<1>3. outcome # "failed"
  BY <1>2 DEF Building
<1> QED BY <1>1, <1>2, <1>3 DEF BuildInv, OpenSoFar

\* The clients that are open before a step of each profile.
LEMMA OpenBefore ==
  ASSUME NEW n \in 1 .. 11
  PROVE  /\ n \in 1 .. 3 => OpenBy("stage3", n) = {}
         /\ n \in 4 .. 11 => OpenBy("stage3", n) = {"qdrant"}
         /\ n \in 1 .. 6 => OpenBy("stage4", n) = {}
         /\ n \in 7 .. 11 => OpenBy("stage4", n) = {"qdrant"}
         /\ n \in 1 .. 5 => OpenBy("stage5", n) = {}
         /\ n \in 6 .. 11 => OpenBy("stage5", n) = {"neo4j"}
         /\ n \in 1 .. 6 => OpenBy("stage6", n) = {}
         /\ n \in 7 .. 7 => OpenBy("stage6", n) = {"qdrant"}
         /\ n \in 8 .. 11 => OpenBy("stage6", n) = {"qdrant", "neo4j"}
BY DEF OpenBy, Builder!Clients

\* The clients that are open around each step.
Reading == {"read pointer", "read vector", "read graph", "models", "match"}
Verifying == {"verify qdrant", "verify neo4j", "engine"}

OpenAtStep(p, n, step) ==
  /\ step \in Reading => OpenBy(p, n) = {} /\ OpenBy(p, n + 1) = {}
  /\ step = "open qdrant" => OpenBy(p, n) = {} /\ OpenBy(p, n + 1) = {"qdrant"}
  /\ step = "open neo4j" =>
       \/ p = "stage5" /\ OpenBy(p, n) = {} /\ OpenBy(p, n + 1) = {"neo4j"}
       \/ p = "stage6" /\ OpenBy(p, n) = {"qdrant"} /\ OpenBy(p, n + 1) = {"qdrant", "neo4j"}
  /\ step \in Verifying =>
       /\ OpenBy(p, n + 1) = OpenBy(p, n)
       /\ OpenBy(p, n) = (CASE p = "stage5" -> {"neo4j"}
                            [] p = "stage6" -> {"qdrant", "neo4j"}
                            [] OTHER -> {"qdrant"})

\* Reading opens nothing; a client is open after its own step, and during the verification.
LEMMA OpenAround ==
  ASSUME NEW p \in Builder!Stages, NEW n \in 1 .. 10, NEW step, StepAt(p, n, step)
  PROVE  OpenAtStep(p, n, step)
<1>1. n \in 1 .. 11 /\ n + 1 \in 1 .. 11
  OBVIOUS
<1>2. CASE p = "stage3"
  <2>1. /\ step \in Reading => n \in {1, 2}
        /\ step \in Verifying => n \in {4, 5}
        /\ step = "open qdrant" => n = 3
        /\ step = "open neo4j" => FALSE
    BY <1>2 DEF StepAt, Reading, Verifying
  <2>2. /\ n \in {1, 2} => n \in 1 .. 3 /\ n + 1 \in 1 .. 3
        /\ n \in {4, 5} => n \in 4 .. 11 /\ n + 1 \in 4 .. 11
        /\ n = 3 => n \in 1 .. 3 /\ n + 1 \in 4 .. 11
    BY <1>1
  <2> QED BY <1>2, <1>1, <2>1, <2>2, OpenBefore, Zenon DEF OpenAtStep
<1>3. CASE p = "stage4"
  <2>1. /\ step \in Reading => n \in {1, 2, 3, 4, 5}
        /\ step \in Verifying => n \in {7, 8}
        /\ step = "open qdrant" => n = 6
        /\ step = "open neo4j" => FALSE
    BY <1>3 DEF StepAt, Reading, Verifying
  <2>2. /\ n \in {1, 2, 3, 4, 5} => n \in 1 .. 6 /\ n + 1 \in 1 .. 6
        /\ n \in {7, 8} => n \in 7 .. 11 /\ n + 1 \in 7 .. 11
        /\ n = 6 => n \in 1 .. 6 /\ n + 1 \in 7 .. 11
    BY <1>1
  <2> QED BY <1>3, <1>1, <2>1, <2>2, OpenBefore, Zenon DEF OpenAtStep
<1>4. CASE p = "stage5"
  <2>1. /\ step \in Reading => n \in {1, 2, 3, 4}
        /\ step \in Verifying => n \in {6, 7}
        /\ step = "open qdrant" => FALSE
        /\ step = "open neo4j" => n = 5
    BY <1>4 DEF StepAt, Reading, Verifying
  <2>2. /\ n \in {1, 2, 3, 4} => n \in 1 .. 5 /\ n + 1 \in 1 .. 5
        /\ n \in {6, 7} => n \in 6 .. 11 /\ n + 1 \in 6 .. 11
        /\ n = 5 => n \in 1 .. 5 /\ n + 1 \in 6 .. 11
    BY <1>1
  <2> QED BY <1>4, <1>1, <2>1, <2>2, OpenBefore, Zenon DEF OpenAtStep
<1>5. CASE p = "stage6"
  <2>1. /\ step \in Reading => n \in {1, 2, 3, 4, 5}
        /\ step \in Verifying => n \in {8, 9, 10}
        /\ step = "open qdrant" => n = 6
        /\ step = "open neo4j" => n = 7
    BY <1>5 DEF StepAt, Reading, Verifying
  <2>2. /\ n \in {1, 2, 3, 4, 5} => n \in 1 .. 6 /\ n + 1 \in 1 .. 6
        /\ n \in {8, 9, 10} => n \in 8 .. 11 /\ n + 1 \in 8 .. 11
        /\ n = 6 => n \in 1 .. 6 /\ n + 1 \in 7 .. 7
        /\ n = 7 => n \in 7 .. 7 /\ n + 1 \in 8 .. 11
    BY <1>1
  <2> QED BY <1>5, <1>1, <2>1, <2>2, OpenBefore, Zenon DEF OpenAtStep
<1> QED BY <1>2, <1>3, <1>4, <1>5 DEF Builder!Stages

\* A step that goes on, and one that fails.
LEMMA GoesOn ==
  ASSUME NEW step, BuildInv, Builder!AtStep(step), Builder!Proceed, raised' = raised, profile' = profile,
         open' = OpenBy(profile, at + 1)
  PROVE  OpenSoFar' /\ ServingIsLast' /\ at' \in 0 .. 11 /\ at' = at + 1
<1>1. Building /\ at \in 1 .. 10 /\ closing = <<>> /\ raised = {}
  BY Here
<1>2. outcome' # "serving" /\ outcome' # "failed" /\ at' = at + 1 /\ closing' = <<>>
  BY <1>1 DEF Building, Builder!Proceed
<1>3. at' \in 0 .. 11
  BY <1>1, <1>2
<1> QED BY <1>1, <1>2, <1>3 DEF OpenSoFar, ServingIsLast

\* A step that raises leaves a handler to close what is open.
LEMMA Stops ==
  ASSUME NEW handler, Builder!Fail(handler), Closing'
  PROVE  OpenSoFar' /\ ServingIsLast' /\ at' = at
<1>1. outcome' = "failed" /\ at' = at
  BY DEF Builder!Fail
<1>2. ~Building'
  BY <1>1 DEF Building
<1> QED BY <1>1, <1>2 DEF OpenSoFar, ServingIsLast

\* A step that opens no client keeps what the builder has, but for what it reads.
LEMMA ReadingKeeps ==
  ASSUME NEW step \in Reading, BuildInv, Builder!AtStep(step),
         UNCHANGED <<Builder!corpusVars, profile, open, raised>>,
         Builder!Proceed \/ Builder!Fail(<<>>)
  PROVE  BuildTypes' /\ ServingIsLast' /\ OpenSoFar'
<1>1. /\ profile \in Builder!Stages /\ StepAt(profile, at, step) /\ at \in 1 .. 10
      /\ open = OpenBy(profile, at) /\ closing = <<>> /\ raised = {} /\ OpenAtStep(profile, at, step)
  BY Here, OpenAround
<1>2. /\ profile' = profile /\ pointer' = pointer /\ named' = named /\ rewritten' = rewritten
      /\ open' = open /\ raised' = raised
  BY DEF Builder!corpusVars
<1>3. open' = {} /\ open' = OpenBy(profile, at + 1)
  BY <1>1, <1>2 DEF OpenAtStep
<1>4. CASE Builder!Proceed
  <2>1. OpenSoFar' /\ ServingIsLast' /\ at' \in 0 .. 11
    BY <1>2, <1>3, <1>4, GoesOn
  <2> QED BY <1>1, <1>2, <2>1 DEF BuildInv, BuildTypes
<1>5. CASE Builder!Fail(<<>>)
  <2>1. closing' = <<>> /\ Closing'
    BY <1>1, <1>2, <1>3, <1>5 DEF Builder!Fail, Closing
  <2>2. OpenSoFar' /\ ServingIsLast' /\ at' = at
    BY <1>5, <2>1, Stops
  <2> QED BY <1>1, <1>2, <2>2 DEF BuildInv, BuildTypes, Unchosen
<1> QED BY <1>4, <1>5

\* The pointer is read: what it names now it has named.
LEMMA PointerIsRead == BuildInv /\ Builder!ReadPointer => BuildInv'
<1> SUFFICES ASSUME BuildInv, Builder!ReadPointer PROVE BuildInv'
  OBVIOUS
<1>1. "read pointer" \in Reading /\ Builder!AtStep("read pointer")
  BY DEF Builder!ReadPointer, Reading
<1>2. /\ UNCHANGED <<Builder!corpusVars, profile, open, raised>>
      /\ Builder!Proceed \/ Builder!Fail(<<>>)
      /\ active' = pointer /\ named' = named
  BY DEF Builder!ReadPointer, Builder!corpusVars
<1>3. BuildTypes' /\ ServingIsLast' /\ OpenSoFar'
  BY <1>1, <1>2, ReadingKeeps
<1>4. at = 1
  <2>1. profile \in Builder!Stages /\ StepAt(profile, at, "read pointer")
    BY <1>1, Here
  <2> QED BY <2>1 DEF StepAt, Builder!Stages
<1>5. at' = 1 \/ at' = 2
  BY <1>2, <1>4 DEF Builder!Proceed, Builder!Fail
<1>6. active' \in named'
  BY <1>2 DEF BuildInv, BuildTypes
<1>7. ReadSoFar'
  BY <1>5, <1>6 DEF ReadSoFar
<1> QED BY <1>3, <1>7 DEF BuildInv

\* The vector manifest is read, once or, by stage 4, twice.
LEMMA VectorIsRead == BuildInv /\ Builder!ReadVector => BuildInv'
<1> SUFFICES ASSUME BuildInv, Builder!ReadVector PROVE BuildInv'
  OBVIOUS
<1>1. "read vector" \in Reading /\ Builder!AtStep("read vector")
  BY DEF Builder!ReadVector, Reading
<1>2. /\ UNCHANGED <<Builder!corpusVars, profile, open, raised>>
      /\ Builder!Proceed \/ Builder!Fail(<<>>)
      /\ vector' = vectorFile /\ vectorFile' = vectorFile /\ active' = active /\ graph' = graph
      /\ named' = named /\ rewritten' = rewritten /\ profile' = profile
  BY DEF Builder!ReadVector, Builder!corpusVars
<1>3. BuildTypes' /\ ServingIsLast' /\ OpenSoFar'
  BY <1>1, <1>2, ReadingKeeps
<1>4. \/ profile = "stage3" /\ at = 1
      \/ profile = "stage4" /\ (at = 2 \/ at = 4)
      \/ profile = "stage6" /\ at = 2
  <2>1. profile \in Builder!Stages /\ StepAt(profile, at, "read vector")
    BY <1>1, Here
  <2> QED BY <2>1 DEF StepAt, Builder!Stages
<1>5. at' = at \/ at' = at + 1
  BY <1>2 DEF Builder!Proceed, Builder!Fail
<1>6. CASE profile = "stage3"
  <2>1. profile' = "stage3"
    BY <1>2, <1>6
  <2> QED BY <1>3, <2>1 DEF ReadSoFar, BuildInv
<1>7. CASE profile = "stage4"
  <2>1. at = 2 \/ at = 4
    BY <1>4, <1>7
  <2>2. active \in named
    BY <1>7, <2>1 DEF BuildInv, ReadSoFar
  <2>3. CASE at = 2
    <3>1. at' = 2 \/ at' = 3
      BY <1>5, <2>3
    <3>2. profile' = "stage4" /\ active' \in named' /\ vector' = vectorFile'
      BY <1>2, <1>7, <2>2
    <3>3. ReadSoFar'
      BY <3>1, <3>2 DEF ReadSoFar
    <3> QED BY <1>3, <3>3 DEF BuildInv
  <2>4. CASE at = 4
    <3>1. at' = 4 \/ at' = 5
      BY <1>5, <2>4
    <3>2. ~rewritten => vectorFile = active
      BY <1>7, <2>4 DEF BuildInv, ReadSoFar
    <3>3. /\ profile' = "stage4" /\ active' \in named' /\ vector' = vectorFile'
          /\ ~rewritten' => vector' = active'
      BY <1>2, <1>7, <2>2, <3>2
    <3>4. ReadSoFar'
      BY <3>3 DEF ReadSoFar
    <3> QED BY <1>3, <3>4 DEF BuildInv
  <2> QED BY <2>1, <2>3, <2>4
<1>8. CASE profile = "stage6"
  <2>1. at = 2
    BY <1>4, <1>8
  <2>2. at' = 2 \/ at' = 3
    BY <1>5, <2>1
  <2>3. active \in named
    BY <1>8, <2>1 DEF BuildInv, ReadSoFar
  <2>4. profile' = "stage6" /\ active' \in named'
    BY <1>2, <1>8, <2>3
  <2>5. ReadSoFar'
    BY <2>2, <2>4 DEF ReadSoFar
  <2> QED BY <1>3, <2>5 DEF BuildInv
<1> QED BY <1>3, <1>4, <1>6, <1>7, <1>8 DEF BuildInv

\* The graph manifest is read, before it is compared.
LEMMA GraphIsRead == BuildInv /\ Builder!ReadGraph => BuildInv'
<1> SUFFICES ASSUME BuildInv, Builder!ReadGraph PROVE BuildInv'
  OBVIOUS
<1>1. "read graph" \in Reading /\ Builder!AtStep("read graph")
  BY DEF Builder!ReadGraph, Reading
<1>2. /\ UNCHANGED <<Builder!corpusVars, profile, open, raised>>
      /\ Builder!Proceed \/ Builder!Fail(<<>>)
      /\ active' = active /\ named' = named /\ profile' = profile
  BY DEF Builder!ReadGraph, Builder!corpusVars
<1>3. BuildTypes' /\ ServingIsLast' /\ OpenSoFar'
  BY <1>1, <1>2, ReadingKeeps
<1>4. \/ profile = "stage5" /\ at = 2
      \/ profile = "stage6" /\ at = 3
  <2>1. profile \in Builder!Stages /\ StepAt(profile, at, "read graph")
    BY <1>1, Here
  <2> QED BY <2>1 DEF StepAt, Builder!Stages
<1>5. at' \in {2, 3, 4} /\ (profile = "stage5" => at' \in {2, 3})
  BY <1>2, <1>4 DEF Builder!Proceed, Builder!Fail
<1>6. active \in named
  BY <1>4 DEF BuildInv, ReadSoFar
<1>7. ReadSoFar'
  BY <1>2, <1>4, <1>5, <1>6 DEF ReadSoFar
<1> QED BY <1>3, <1>7 DEF BuildInv

\* After the comparison the manifests are of the active corpus.
LEMMA CorporaAreMatched == BuildInv /\ Builder!Match => BuildInv'
<1> SUFFICES ASSUME BuildInv, Builder!Match PROVE BuildInv'
  OBVIOUS
<1>1. "match" \in Reading /\ Builder!AtStep("match")
  BY DEF Builder!Match, Reading
<1>2. /\ UNCHANGED <<Builder!corpusVars, profile, open, raised>>
      /\ Builder!Proceed \/ Builder!Fail(<<>>)
      /\ active' = active /\ vector' = vector /\ graph' = graph /\ vectorFile' = vectorFile
      /\ named' = named /\ rewritten' = rewritten /\ profile' = profile
  BY DEF Builder!Match, Builder!corpusVars, Builder!readVars
<1>3. BuildTypes' /\ ServingIsLast' /\ OpenSoFar'
  BY <1>1, <1>2, ReadingKeeps
<1>4. \/ profile \in {"stage4", "stage5"} /\ at = 3
      \/ profile = "stage6" /\ at = 5
  <2>1. profile \in Builder!Stages /\ StepAt(profile, at, "match")
    BY <1>1, Here
  <2> QED BY <2>1 DEF StepAt, Builder!Stages
<1>5. CASE Builder!Matches /\ Builder!Proceed
  <2>1. /\ profile \in {"stage4", "stage6"} => vector = active
        /\ profile \in {"stage5", "stage6"} => graph = active
    BY <1>5 DEF Builder!Matches
  <2>2. \/ profile \in {"stage4", "stage5"} /\ at' = 4
        \/ profile = "stage6" /\ at' = 6
    <3>1. (at = 3 => at' = 4) /\ (at = 5 => at' = 6)
      BY <1>5 DEF Builder!Proceed
    <3> QED BY <1>4, <3>1
  <2>3. active \in named /\ (profile = "stage4" /\ ~rewritten => vector = vectorFile)
    BY <1>4 DEF BuildInv, ReadSoFar
  <2>4. ReadSoFar'
    BY <1>2, <2>1, <2>2, <2>3 DEF ReadSoFar
  <2> QED BY <1>3, <2>4 DEF BuildInv
<1>6. CASE Builder!Fail(<<>>)
  <2>1. at' = at
    BY <1>6 DEF Builder!Fail
  <2>2. ReadSoFar'
    BY <1>2, <2>1 DEF ReadSoFar, BuildInv
  <2> QED BY <1>3, <2>2 DEF BuildInv
<1> QED BY <1>5, <1>6 DEF Builder!Match

\* The places around a step.
LEMMA NextPlace ==
  ASSUME NEW n \in 1 .. 10, NEW m, m = n \/ m = n + 1
  PROVE  /\ m \in 0 .. 11
         /\ n \in {4, 5, 6, 7, 8} => n >= 2 /\ n >= 3 /\ n >= 4
         /\ n = 4 => n >= 2 /\ ~(m >= 6)
         /\ n \in {6, 7, 8, 9, 10} => n >= 2 /\ n >= 6
OBVIOUS

\* After the corpora have been compared, a step that reads nothing keeps what is known of them.
LEMMA NothingReadKeeps ==
  ASSUME NEW step \in {"models", "open qdrant", "open neo4j", "verify qdrant", "verify neo4j", "engine"},
         BuildInv, Builder!AtStep(step),
         UNCHANGED <<Builder!corpusVars, Builder!readVars, profile>>, at' = at \/ at' = at + 1
  PROVE  ReadSoFar'
<1>1. /\ active' = active /\ vector' = vector /\ graph' = graph /\ vectorFile' = vectorFile
      /\ named' = named /\ rewritten' = rewritten /\ profile' = profile
  BY DEF Builder!corpusVars, Builder!readVars
<1>2. profile \in Builder!Stages /\ StepAt(profile, at, step) /\ at \in 1 .. 10
  BY Here
<1>3. CASE at' = at
  BY <1>1, <1>3 DEF BuildInv, ReadSoFar
<1>4. CASE at' = at + 1
  <2>1. \/ profile = "stage3"
        \/ profile \in {"stage4", "stage5"} /\ at \in {4, 5, 6, 7, 8}
        \/ profile = "stage6" /\ at \in {4, 6, 7, 8, 9, 10}
    BY <1>2 DEF StepAt, Builder!Stages
  <2>2. /\ at \in {4, 5, 6, 7, 8} => at >= 2 /\ at >= 3 /\ at >= 4
        /\ at = 4 => at >= 2 /\ ~(at' >= 6)
        /\ at \in {6, 7, 8, 9, 10} => at >= 2 /\ at >= 6
    BY <1>2, <1>4, NextPlace
  <2> QED BY <1>1, <2>1, <2>2 DEF BuildInv, ReadSoFar
<1> QED BY <1>3, <1>4

\* The models are loaded, or do not fit the manifests.
LEMMA ModelsAreLoaded == ASSUME NEW fits, BuildInv, Builder!LoadModels(fits) PROVE BuildInv'
<1>1. "models" \in Reading /\ Builder!AtStep("models")
  BY DEF Builder!LoadModels, Reading
<1>2. /\ UNCHANGED <<Builder!corpusVars, Builder!readVars, profile, open, raised>>
      /\ Builder!Proceed \/ Builder!Fail(<<>>)
  BY DEF Builder!LoadModels, Builder!corpusVars, Builder!readVars
<1>3. BuildTypes' /\ ServingIsLast' /\ OpenSoFar'
  BY <1>1, <1>2, ReadingKeeps
<1>4. at' = at \/ at' = at + 1
  BY <1>2 DEF Builder!Proceed, Builder!Fail
<1>5. ReadSoFar'
  BY <1>1, <1>2, <1>4, NothingReadKeeps
<1> QED BY <1>3, <1>5 DEF BuildInv

\* A step that reads no corpus goes on, or fails with a handler for what is open.
LEMMA LaterStepKeeps ==
  ASSUME NEW step \in {"open qdrant", "open neo4j", "verify qdrant", "verify neo4j", "engine"},
         NEW handler, BuildInv, Builder!AtStep(step),
         UNCHANGED <<Builder!corpusVars, Builder!readVars, profile, raised>>,
         \/ Builder!Proceed /\ open' = OpenBy(profile, at + 1)
         \/ Builder!Fail(handler) /\ Closing'
  PROVE  BuildInv'
<1>1. profile \in Builder!Stages /\ at \in 1 .. 10
  BY Here
<1>2. /\ profile' = profile /\ pointer' = pointer /\ named' = named /\ rewritten' = rewritten
      /\ raised' = raised
  BY DEF Builder!corpusVars
<1>3. OpenSoFar' /\ ServingIsLast' /\ at' \in 0 .. 11 /\ (at' = at \/ at' = at + 1)
  <2>1. CASE Builder!Proceed /\ open' = OpenBy(profile, at + 1)
    BY <1>2, <2>1, GoesOn
  <2>2. CASE Builder!Fail(handler) /\ Closing'
    <3>1. OpenSoFar' /\ ServingIsLast' /\ at' = at
      BY <2>2, Stops
    <3>2. at' \in 0 .. 11
      BY <1>1, <3>1, NextPlace
    <3> QED BY <3>1, <3>2
  <2> QED BY <2>1, <2>2
<1>4. ReadSoFar'
  BY <1>3, NothingReadKeeps
<1>5. BuildTypes'
  BY <1>1, <1>2, <1>3 DEF BuildInv, BuildTypes
<1> QED BY <1>3, <1>4, <1>5 DEF BuildInv

\* The Qdrant client is there even when its manager is not configured well.
LEMMA QdrantIsOpened == ASSUME NEW valid, BuildInv, Builder!OpenQdrant(valid) PROVE BuildInv'
<1>1. Builder!AtStep("open qdrant")
  BY DEF Builder!OpenQdrant
<1>2. /\ UNCHANGED <<Builder!corpusVars, Builder!readVars, profile, raised>>
      /\ Builder!Proceed \/ Builder!Fail(Builder!OpenHandler)
      /\ open' = open \cup {"qdrant"} /\ raised' = raised
  BY DEF Builder!OpenQdrant
<1>3. profile \in Builder!Stages /\ StepAt(profile, at, "open qdrant") /\ at \in 1 .. 10
  BY <1>1, Here
<1>4. OpenAtStep(profile, at, "open qdrant") /\ open = OpenBy(profile, at) /\ raised = {}
  BY <1>1, <1>3, Here, OpenAround
<1>5. open' = {"qdrant"} /\ open' = OpenBy(profile, at + 1)
  BY <1>2, <1>4 DEF OpenAtStep
<1>6. ASSUME Builder!Fail(Builder!OpenHandler) PROVE Closing'
  <2>1. closing' = Builder!OpenHandler /\ at' = at /\ profile' = profile
    BY <1>2, <1>6 DEF Builder!Fail
  <2>2. \/ profile = "stage3" /\ at = 3
        \/ profile = "stage4" /\ at = 6
        \/ profile = "stage6"
    BY <1>3 DEF StepAt, Builder!Stages
  <2> QED BY <1>2, <1>4, <1>5, <2>1, <2>2 DEF Closing, Neglected, Builder!OpenHandler
<1> QED BY <1>1, <1>2, <1>5, <1>6, LaterStepKeeps

\* The Neo4j client is opened; a failure closes the Qdrant client of the dual builder.
LEMMA Neo4jIsOpened == ASSUME NEW valid, BuildInv, Builder!OpenNeo4j(valid) PROVE BuildInv'
<1>1. Builder!AtStep("open neo4j")
  BY DEF Builder!OpenNeo4j
<1>2. /\ UNCHANGED <<Builder!corpusVars, Builder!readVars, profile, raised>>
      /\ \/ Builder!Proceed /\ open' = open \cup {"neo4j"}
         \/ Builder!Fail(Builder!OpenHandler) /\ open' = open
      /\ raised' = raised
  BY DEF Builder!OpenNeo4j
<1>3. profile \in Builder!Stages /\ StepAt(profile, at, "open neo4j") /\ at \in 1 .. 10
  BY <1>1, Here
<1>4. OpenAtStep(profile, at, "open neo4j") /\ open = OpenBy(profile, at) /\ raised = {}
  BY <1>1, <1>3, Here, OpenAround
<1>5. ASSUME Builder!Proceed, open' = open \cup {"neo4j"} PROVE open' = OpenBy(profile, at + 1)
  BY <1>4, <1>5 DEF OpenAtStep
<1>6. ASSUME Builder!Fail(Builder!OpenHandler), open' = open PROVE Closing'
  <2>1. closing' = Builder!OpenHandler /\ raised' = {}
    BY <1>2, <1>4, <1>6 DEF Builder!Fail
  <2>2. \/ profile = "stage5" /\ open' = {}
        \/ profile = "stage6" /\ open' = {"qdrant"}
    BY <1>4, <1>6 DEF OpenAtStep
  <2> QED BY <2>1, <2>2 DEF Closing, Builder!OpenHandler
<1> QED BY <1>1, <1>2, <1>5, <1>6, LaterStepKeeps

\* The handler around what comes after the clients closes all that are open.
LEMMA HandlerClosesAll ==
  ASSUME NEW step \in Verifying, BuildInv, Builder!AtStep(step), Builder!Fail(Builder!BuiltHandler),
         open' = open, raised' = raised
  PROVE  Closing'
<1>1. profile \in Builder!Stages /\ StepAt(profile, at, step) /\ at \in 1 .. 10
  BY Here
<1>2. OpenAtStep(profile, at, step) /\ open = OpenBy(profile, at) /\ raised = {}
  BY <1>1, Here, OpenAround
<1>3. closing' = Builder!BuiltHandler
  BY DEF Builder!Fail
<1> QED BY <1>2, <1>3 DEF OpenAtStep, Closing, Builder!BuiltHandler

\* A verification goes on, or leaves all that is open to its handler.
LEMMA VerifiedKeeps ==
  ASSUME NEW step \in Verifying, BuildInv, Builder!AtStep(step),
         Builder!Proceed \/ Builder!Fail(Builder!BuiltHandler),
         UNCHANGED <<Builder!corpusVars, Builder!readVars, profile, open, raised>>
  PROVE  BuildInv'
<1>1. profile \in Builder!Stages /\ StepAt(profile, at, step) /\ at \in 1 .. 10
  BY Here
<1>2. OpenAtStep(profile, at, step) /\ open = OpenBy(profile, at)
  BY <1>1, Here, OpenAround
<1>3. open' = OpenBy(profile, at + 1)
  BY <1>2 DEF OpenAtStep
<1>4. step \in {"open qdrant", "open neo4j", "verify qdrant", "verify neo4j", "engine"}
  BY DEF Verifying
<1>5. CASE Builder!Proceed
  BY <1>3, <1>4, <1>5, LaterStepKeeps
<1>6. CASE Builder!Fail(Builder!BuiltHandler)
  BY <1>4, <1>6, HandlerClosesAll, LaterStepKeeps
<1> QED BY <1>5, <1>6

\* The Qdrant collection is verified (VerifyQdrant).
LEMMA QdrantIsVerified == ASSUME NEW answers, BuildInv, Builder!VerifyQdrant(answers) PROVE BuildInv'
<1>1. "verify qdrant" \in Verifying /\ Builder!AtStep("verify qdrant")
  BY DEF Builder!VerifyQdrant, Verifying
<1> QED BY <1>1, VerifiedKeeps DEF Builder!VerifyQdrant

\* The Neo4j graph is verified (VerifyNeo4j).
LEMMA Neo4jIsVerified == ASSUME NEW answers, BuildInv, Builder!VerifyNeo4j(answers) PROVE BuildInv'
<1>1. "verify neo4j" \in Verifying /\ Builder!AtStep("verify neo4j")
  BY DEF Builder!VerifyNeo4j, Verifying
<1> QED BY <1>1, VerifiedKeeps DEF Builder!VerifyNeo4j

\* An engine is made at the last step of its profile.
LEMMA EngineIsMade == ASSUME NEW valid, BuildInv, Builder!MakeEngine(valid) PROVE BuildInv'
<1>1. "engine" \in Verifying /\ Builder!AtStep("engine")
  BY DEF Builder!MakeEngine, Verifying
<1>2. /\ UNCHANGED <<Builder!corpusVars, Builder!readVars, profile, open, raised>>
      /\ Builder!Fail(Builder!BuiltHandler) \/ (outcome' = "serving" /\ at' = at /\ closing' = closing)
  BY DEF Builder!MakeEngine
<1>3. CASE Builder!Fail(Builder!BuiltHandler)
  BY <1>1, <1>2, <1>3, VerifiedKeeps
<1>4. CASE outcome' = "serving" /\ at' = at /\ closing' = closing
  <2>1. /\ profile \in Builder!Stages /\ StepAt(profile, at, "engine")
        /\ closing = <<>> /\ raised = {}
    BY <1>1, Here
  <2>2. ServingIsLast'
    <3>1. \/ profile = "stage3" /\ at = 5
          \/ profile = "stage4" /\ at = 8
          \/ profile = "stage5" /\ at = 7
          \/ profile = "stage6" /\ at = 10
      BY <2>1 DEF StepAt, Builder!Stages
    <3>2. profile' = profile /\ at' = at
      BY <1>2, <1>4
    <3> QED BY <3>1, <3>2 DEF ServingIsLast
  <2>3. OpenSoFar'
    <3>1. ~Building'
      BY <1>4 DEF Building
    <3>2. outcome' # "failed" /\ closing' = <<>> /\ raised' = {}
      BY <1>2, <1>4, <2>1
    <3> QED BY <3>1, <3>2 DEF OpenSoFar
  <2>4. BuildTypes' /\ ReadSoFar'
    BY <1>2, <1>4, <2>1 DEF BuildInv, BuildTypes, ReadSoFar, Builder!corpusVars, Builder!readVars
  <2> QED BY <2>2, <2>3, <2>4 DEF BuildInv
<1> QED BY <1>2, <1>3, <1>4

\* The first and the rest of a list of one client, and of two.
LEMMA HeadsAndTails ==
  \A a, b, s :
    /\ s = <<a>> => Head(s) = a /\ Tail(s) = <<>>
    /\ s = <<a, b>> => Head(s) = a /\ Tail(s) = <<b>>
<1> SUFFICES ASSUME NEW a, NEW b, NEW s
             PROVE  /\ s = <<a>> => Head(s) = a /\ Tail(s) = <<>>
                    /\ s = <<a, b>> => Head(s) = a /\ Tail(s) = <<b>>
  OBVIOUS
<1>1. s = <<a>> => Head(s) = a
  OBVIOUS
<1>2. s = <<a>> => Tail(s) = <<>>
  OBVIOUS
<1>3. s = <<a, b>> => Head(s) = a
  OBVIOUS
<1>4. s = <<a, b>> => Tail(s) = <<b>>
  OBVIOUS
<1> QED BY <1>1, <1>2, <1>3, <1>4

\* A handler closes what is open, in its order, until one of the closes raises.
LEMMA HandlerCloses == ASSUME NEW raises, BuildInv, Builder!Close(raises) PROVE BuildInv'
<1>1. /\ closing # <<>> /\ UNCHANGED <<Builder!corpusVars, Builder!readVars, profile, at, outcome>>
      /\ \/ closing' = <<>> /\ raised' = {Head(closing)} /\ open' = open
         \/ closing' = Tail(closing) /\ open' = open \ {Head(closing)} /\ raised' = raised
  BY DEF Builder!Close
<1>2. outcome = "failed" /\ Closing
  BY <1>1 DEF BuildInv, OpenSoFar
<1>3. /\ raised = {}
      /\ \/ Head(closing) = "qdrant" /\ Tail(closing) = <<>> /\ open = {"qdrant"}
         \/ Head(closing) = "neo4j" /\ Tail(closing) = <<>> /\ open = {"neo4j"}
         \/ /\ Head(closing) = "qdrant" /\ Tail(closing) = <<"neo4j">> /\ open = {"qdrant", "neo4j"}
  BY <1>1, <1>2, HeadsAndTails, Zenon DEF Closing
<1>4. Closing'
  BY <1>1, <1>3 DEF Closing
<1>5. OpenSoFar' /\ ServingIsLast'
  <2>1. outcome' = "failed"
    BY <1>1, <1>2
  <2>2. ~Building'
    BY <2>1 DEF Building
  <2> QED BY <1>4, <2>1, <2>2 DEF OpenSoFar, ServingIsLast
<1>6. BuildTypes' /\ ReadSoFar'
  BY <1>1 DEF BuildInv, BuildTypes, ReadSoFar, Unchosen, Builder!corpusVars, Builder!readVars
<1> QED BY <1>5, <1>6 DEF BuildInv

\* A profile begins at its first step with nothing open.
LEMMA ProfileIsChosen == ASSUME NEW environment, BuildInv, Builder!Choose(environment) PROVE BuildInv'
<1>1. /\ Unchosen /\ Building
      /\ \/ outcome' \in {"failed", "no engine"} /\ profile' = profile /\ at' = at
         \/ profile' \in Builder!Stages /\ at' = 1 /\ outcome' = outcome
      /\ UNCHANGED <<Builder!corpusVars, Builder!readVars, open, closing, raised>>
  BY DEF Builder!Choose, Unchosen, Building
<1>2. open = OpenBy(profile, at) /\ profile \notin Builder!Stages /\ at = 0
  BY <1>1 DEF BuildInv, OpenSoFar, BuildTypes, Unchosen, Builder!Stages
<1>3. open = {} /\ closing = <<>> /\ raised = {}
  <2>1. open = {}
    BY <1>2 DEF OpenBy, Builder!Stages
  <2>2. outcome # "failed"
    BY <1>1 DEF Building
  <2> QED BY <2>1, <2>2 DEF BuildInv, OpenSoFar
<1>4. CASE outcome' \in {"failed", "no engine"} /\ profile' = profile /\ at' = at
  <2>1. ~Building'
    BY <1>4 DEF Building
  <2>2. Closing' /\ closing' = <<>> /\ raised' = {}
    BY <1>1, <1>3 DEF Closing
  <2>3. OpenSoFar' /\ ServingIsLast'
    BY <1>4, <2>1, <2>2 DEF OpenSoFar, ServingIsLast
  <2>4. BuildTypes' /\ ReadSoFar'
    BY <1>1, <1>4 DEF BuildInv, BuildTypes, ReadSoFar, Unchosen, Builder!corpusVars, Builder!readVars
  <2> QED BY <2>3, <2>4 DEF BuildInv
<1>5. CASE profile' \in Builder!Stages /\ at' = 1 /\ outcome' = outcome
  <2>1. OpenBy(profile', at') = {}
    BY <1>5, OpenBefore DEF Builder!Stages
  <2>2. outcome' # "serving" /\ outcome' # "failed"
    BY <1>1, <1>5 DEF Building
  <2>3. OpenSoFar' /\ ServingIsLast'
    BY <1>1, <1>3, <2>1, <2>2 DEF OpenSoFar, ServingIsLast
  <2>4. ReadSoFar'
    BY <1>5 DEF ReadSoFar
  <2>5. BuildTypes'
    <3>1. at' \in 0 .. 11
      BY <1>5
    <3> QED BY <1>1, <1>5, <3>1 DEF BuildInv, BuildTypes, Builder!corpusVars
  <2> QED BY <2>3, <2>4, <2>5 DEF BuildInv
<1> QED BY <1>1, <1>4, <1>5

\* Whatever an operator does: the pointer's history has it, and a manifest that is
\* replaced is marked.
LEMMA OperatorKeeps ==
  ASSUME BuildInv, UNCHANGED Builder!builderVars, pointer' \in named', named \subseteq named',
         rewritten' \in BOOLEAN, rewritten => rewritten', ~rewritten' => vectorFile' = vectorFile
  PROVE  BuildInv'
<1>1. /\ profile' = profile /\ at' = at /\ active' = active /\ vector' = vector /\ graph' = graph
      /\ open' = open /\ closing' = closing /\ outcome' = outcome /\ raised' = raised
  BY DEF Builder!builderVars
<1>2. OpenSoFar' /\ ServingIsLast'
  BY <1>1 DEF BuildInv, OpenSoFar, ServingIsLast, Building, Closing, Neglected
<1>3. BuildTypes'
  BY <1>1 DEF BuildInv, BuildTypes, Unchosen
<1>4. ReadSoFar'
  BY <1>1 DEF BuildInv, ReadSoFar
<1> QED BY <1>2, <1>3, <1>4 DEF BuildInv

\* The four commands are of that kind.
LEMMA CommandsKeep ==
  ASSUME NEW c, NEW place, BuildInv,
         \/ Builder!StageVector(c) \/ Builder!StageGraph(c)
         \/ Builder!Activate(c) \/ Builder!Discard(c, place)
  PROVE  BuildInv'
<1> USE DEF BuildInv, BuildTypes
<1>1. CASE Builder!StageVector(c)
  BY <1>1, OperatorKeeps DEF Builder!StageVector
<1>2. CASE Builder!StageGraph(c)
  <2>1. /\ UNCHANGED Builder!builderVars /\ vectorFile' = vectorFile /\ pointer' = pointer
        /\ named' = named /\ rewritten' = TRUE
    BY <1>2 DEF Builder!StageGraph
  <2> QED BY <2>1, OperatorKeeps
<1>3. CASE Builder!Activate(c)
  <2>1. /\ UNCHANGED Builder!builderVars /\ vectorFile' = vectorFile /\ pointer' = c
        /\ named' = named \cup {c} /\ rewritten' = rewritten
    BY <1>3 DEF Builder!Activate
  <2> QED BY <2>1, OperatorKeeps
<1>4. CASE Builder!Discard(c, place)
  <2>1. /\ UNCHANGED Builder!builderVars /\ vectorFile' = vectorFile /\ pointer' = pointer
        /\ named' = named /\ rewritten' = rewritten
    BY <1>4 DEF Builder!Discard
  <2> QED BY <2>1, OperatorKeeps
<1> QED BY <1>1, <1>2, <1>3, <1>4

\* The invariant of the builder is inductive.
LEMMA BuildNext == BuildInv /\ [Builder!Next]_buildVars => BuildInv'
<1> SUFFICES ASSUME BuildInv, [Builder!Next]_buildVars PROVE BuildInv'
  OBVIOUS
<1>1. CASE UNCHANGED buildVars
  <2>1. /\ UNCHANGED Builder!builderVars /\ vectorFile' = vectorFile /\ pointer' = pointer
        /\ named' = named /\ rewritten' = rewritten
    BY <1>1 DEF buildVars, Builder!builderVars
  <2> QED BY <2>1, OperatorKeeps DEF BuildInv, BuildTypes
<1>2. CASE \E environment : Builder!Choose(environment)
  BY <1>2, ProfileIsChosen
<1>3. CASE Builder!ReadPointer
  BY <1>3, PointerIsRead
<1>4. CASE Builder!ReadVector
  BY <1>4, VectorIsRead
<1>5. CASE Builder!ReadGraph
  BY <1>5, GraphIsRead
<1>6. CASE Builder!Match
  BY <1>6, CorporaAreMatched
<1>7. CASE \E good : Builder!LoadModels(good)
  BY <1>7, ModelsAreLoaded
<1>8. CASE \E good : Builder!OpenQdrant(good)
  BY <1>8, QdrantIsOpened
<1>9. CASE \E good : Builder!OpenNeo4j(good)
  BY <1>9, Neo4jIsOpened
<1>10. CASE \E good : Builder!VerifyQdrant(good)
  BY <1>10, QdrantIsVerified
<1>11. CASE \E good : Builder!VerifyNeo4j(good)
  BY <1>11, Neo4jIsVerified
<1>12. CASE \E good : Builder!MakeEngine(good)
  BY <1>12, EngineIsMade
<1>13. CASE \E good : Builder!Close(~good)
  BY <1>13, HandlerCloses
<1>14. CASE \E c, s : \/ Builder!StageVector(c) \/ Builder!StageGraph(c)
                      \/ Builder!Activate(c) \/ Builder!Discard(c, s)
  BY <1>14, CommandsKeep
<1>15. CASE Builder!Settled
  BY <1>1, <1>15 DEF Builder!Settled, Builder!vars, buildVars
<1> QED BY <1>1, <1>2, <1>3, <1>4, <1>5, <1>6, <1>7, <1>8, <1>9, <1>10, <1>11, <1>12, <1>13,
           <1>14, <1>15 DEF Builder!Next

BuildIsSafe == part = "build" => BuildInv

\* It holds in the part of a behaviour that builds.
LEMMA BuildStaysSafe == MCSpec => []BuildIsSafe
<1>1. MCInit => BuildIsSafe
  BY BuildInit DEF MCInit, BuildIsSafe
<1>2. BuildIsSafe /\ [MCNext]_allVars => BuildIsSafe'
  BY PartsMoveAlone, BuildNext DEF BuildIsSafe
<1> QED BY <1>1, <1>2, PTL DEF MCSpec, allVars

\* Whatever an operator does while the engine is built: an engine that calls its corpus
\* active serves one corpus from all its stores, and one the pointer named in that time
\* (the builders of runtime.py).
THEOREM EngineIsActive == MCSpec => []EngineServesActive
<1>1. BuildIsSafe => EngineServesActive
  <2> SUFFICES ASSUME BuildInv PROVE Builder!ServesOneActiveCorpus
    BY DEF BuildIsSafe, EngineServesActive
  <2> SUFFICES ASSUME outcome = "serving"
               PROVE  /\ profile # "stage3" => active \in named
                      /\ profile = "stage6" => vector = active
                      /\ profile \in {"stage5", "stage6"} => graph = active
                      /\ profile = "stage4" /\ ~rewritten => vector = active
    BY DEF Builder!ServesOneActiveCorpus
  <2> QED BY DEF BuildInv, ServingIsLast, ReadSoFar
<1> QED BY <1>1, BuildStaysSafe, PTL

\* A start that fails closes what it opened: what stays open is the client whose close
\* raised and what came after it, or the one the code has no handler for (the except
\* clauses of the builders).
THEOREM FailedStartCloses == MCSpec => []EngineLeavesNothing
<1>1. BuildIsSafe => EngineLeavesNothing
  <2> SUFFICES ASSUME BuildInv, outcome = "failed", closing = <<>>, raised = {}, open # {}
               PROVE  /\ profile \in {"stage3", "stage4"} /\ open = {"qdrant"}
                      /\ Builder!Steps(profile)[at] = "open qdrant"
    BY DEF BuildIsSafe, EngineLeavesNothing, Builder!NothingLeftOpen, BuildInv, OpenSoFar, Closing
  <2>1. Neglected
    BY DEF BuildInv, OpenSoFar, Closing
  <2>2. Builder!Steps("stage3")[3] = "open qdrant" /\ Builder!Steps("stage4")[6] = "open qdrant"
    BY DEF Builder!Steps
  <2> QED BY <2>1, <2>2 DEF Neglected
<1> QED BY <1>1, BuildStaysSafe, PTL

----------------------------------------------------------------------------
(* The vector searches and their operations.                                *)

Awaits(s, t) == search[s] # Idle /\ search[s].task = t

\* An operation that runs is awaited by one search, or is once among those left running;
\* it is neither when it has been cancelled.
Owned ==
  /\ \A s, r \in Searches : \A t \in Tasks : Awaits(s, t) /\ Awaits(r, t) => s = r
  /\ \A i, j \in DOMAIN inflight : inflight[i] = inflight[j] => i = j
  /\ \A s \in Searches : \A i \in DOMAIN inflight : ~Awaits(s, inflight[i])
  /\ \A t \in Tasks : Running(t) /\ Proceeds(t) =>
       (\E s \in Searches : Awaits(s, t)) \/ (\E i \in DOMAIN inflight : inflight[i] = t)
  /\ \A t \in Tasks : Running(t) /\ ~Proceeds(t) =>
       (\A s \in Searches : ~Awaits(s, t)) /\ (\A i \in DOMAIN inflight : inflight[i] # t)

AtWork == {s \in Searches : search[s] # Idle}

\* A search at work may still leave its operation running.
LeftBounded == Len(inflight) + Cardinality(AtWork) <= MaxAbandoned - 1 + Cardinality(Searches)

\* A place of the pool is free, taken or gone.
PoolBounded == IsFiniteSet(Busy) /\ Cardinality(Busy) + leaked <= PoolSize

SearchInv == TypeOK /\ Owned /\ LeftBounded /\ PoolBounded

\* At the start nothing is searched, left or lost.
LEMMA SearchInit == Init => SearchInv
<1> SUFFICES ASSUME Init PROVE SearchInv
  OBVIOUS
<1>1. TypeOK
  BY SearchLimits DEF Init, TypeOK, Operations, Outcomes, Ended
<1>2. Owned
  BY DEF Init, Owned, Awaits, Running, Ended
<1>3. LeftBounded
  <2>1. AtWork = {} /\ Len(inflight) = 0
    BY DEF Init, AtWork
  <2>2. Cardinality(AtWork) = 0 /\ Cardinality(Searches) \in Nat
    BY <2>1, FS_EmptySet, FS_CardinalityType, SearchLimits
  <2> QED BY <2>1, <2>2, SearchLimits DEF LeftBounded
<1>4. PoolBounded
  <2>1. Busy = {} /\ leaked = 0
    BY DEF Init, Busy, Ended
  <2>2. IsFiniteSet(Busy) /\ Cardinality(Busy) = 0
    BY <2>1, FS_EmptySet
  <2> QED BY <2>1, <2>2, SearchLimits DEF PoolBounded
<1> QED BY <1>1, <1>2, <1>3, <1>4 DEF SearchInv

\* What a search awaits is an operation.
LEMMA AwaitsTask ==
  ASSUME TypeOK, NEW s \in Searches, search[s] # Idle
  PROVE  search[s] \in Awaiting /\ search[s].task \in Tasks /\ Awaits(s, search[s].task)
BY DEF TypeOK, Awaiting, Awaits

\* When fewer searches are at work and no more operations left than one for each of them.
LEMMA FewerAtWork ==
  ASSUME LeftBounded, TypeOK, NEW s \in Searches, search[s] # Idle,
         search' = [search EXCEPT ![s] = Idle], inflight' \in Seq(Tasks), Len(inflight') <= Len(inflight) + 1
  PROVE  LeftBounded'
<1>1. AtWork' = AtWork \ {s} /\ s \in AtWork
  BY DEF AtWork, TypeOK
<1>2. IsFiniteSet(AtWork) /\ IsFiniteSet(Searches) /\ Cardinality(Searches) \in Nat
  BY FS_Subset, FS_CardinalityType, SearchLimits DEF AtWork
<1>3. Cardinality(AtWork') = Cardinality(AtWork) - 1 /\ Cardinality(AtWork) \in Nat
  BY <1>1, <1>2, FS_RemoveElement, FS_CardinalityType
<1>4. Len(inflight) \in Nat /\ Len(inflight') \in Nat
  BY DEF TypeOK
<1> QED BY <1>2, <1>3, <1>4, SearchLimits DEF LeftBounded

\* Room was made for what a search leaves running.
LEMMA RoomWasMade ==
  ASSUME inflight' \in Seq(Tasks), Len(inflight') <= MaxAbandoned - 1
  PROVE  LeftBounded'
<1>1. AtWork' \subseteq Searches
  BY DEF AtWork
<1>2. /\ Cardinality(AtWork') <= Cardinality(Searches)
      /\ Cardinality(AtWork') \in Nat /\ Cardinality(Searches) \in Nat
  BY <1>1, FS_Subset, FS_CardinalityType, SearchLimits
<1>3. Len(inflight') \in Nat
  OBVIOUS
<1> QED BY <1>2, <1>3, SearchLimits DEF LeftBounded

\* An operation takes no place of the pool by being begun, cancelled or collected.
LEMMA PoolKept ==
  ASSUME PoolBounded, TypeOK, Busy' \subseteq Busy, leaked' = leaked
  PROVE  PoolBounded'
<1>1. IsFiniteSet(Busy') /\ Cardinality(Busy') <= Cardinality(Busy)
      /\ Cardinality(Busy') \in Nat /\ Cardinality(Busy) \in Nat
  BY FS_Subset, FS_CardinalityType DEF PoolBounded
<1> QED BY <1>1, SearchLimits DEF PoolBounded, TypeOK

\* What an operation is may change as long as it keeps to whom it belongs: it ends, or
\* goes on uncancelled.
LEMMA TaskMoves ==
  ASSUME Owned, TypeOK, NEW t \in Tasks, search' = search, inflight' = inflight,
         \A u \in Tasks \ {t} : task'[u] = task[u],
         Running(t)' => Running(t) /\ (Proceeds(t)' <=> Proceeds(t))
  PROVE  Owned'
<1>1. \A u \in Tasks : Running(u)' => Running(u) /\ (Proceeds(u)' <=> Proceeds(u))
  BY DEF Running, Proceeds
<1>2. \A s \in Searches, u \in Tasks : Awaits(s, u)' <=> Awaits(s, u)
  BY DEF Awaits
<1>3. \A s \in Searches : \A i \in DOMAIN inflight : inflight[i] \in Tasks
  BY DEF TypeOK
<1> QED BY <1>1, <1>2, <1>3 DEF Owned, Awaits

\* A search that gives what it awaited, which has ended, back.
LEMMA GivesKeeps ==
  ASSUME SearchInv, NEW s \in Searches, search[s] # Idle => ~Running(search[s].task),
         Gives(s), leaked' = leaked
  PROVE  Owned' /\ PoolBounded' /\ LeftBounded'
<1> USE DEF SearchInv
<1>1. /\ search' = [search EXCEPT ![s] = Idle] /\ inflight' = inflight
      /\ task' = Collected(s)
  BY DEF Gives, Fails
<1>2. \A u \in Tasks : task'[u] = task[u] \/ (~Running(u)' /\ task'[u] = Ended)
  BY <1>1 DEF Collected, TypeOK, Running, Ended
<1>3. \A u \in Tasks : Running(u)' => Running(u) /\ (Proceeds(u)' <=> Proceeds(u)) /\ ~Awaits(s, u)
  <2> SUFFICES ASSUME NEW u \in Tasks, Running(u)'
               PROVE  Running(u) /\ (Proceeds(u)' <=> Proceeds(u)) /\ ~Awaits(s, u)
    OBVIOUS
  <2>1. task'[u] = task[u]
    BY <1>2
  <2>2. Running(u) /\ (Proceeds(u)' <=> Proceeds(u))
    BY <2>1 DEF Running, Proceeds
  <2> QED BY <2>2 DEF Awaits
<1>4. \A r \in Searches, u \in Tasks : Awaits(r, u)' <=> Awaits(r, u) /\ r # s
  BY <1>1 DEF Awaits, TypeOK
<1>5. \A i \in DOMAIN inflight : inflight[i] \in Tasks
  BY DEF TypeOK
<1>6. Owned'
  BY <1>1, <1>3, <1>4, <1>5 DEF Owned
<1>7. PoolBounded'
  <2>1. Busy' \subseteq Busy
    BY <1>2 DEF Busy, Ended
  <2> QED BY <2>1, PoolKept
<1>8. LeftBounded'
  <2>1. CASE search[s] = Idle
    <3>1. search' = search
      BY <1>1, <2>1 DEF TypeOK
    <3> QED BY <1>1, <3>1 DEF LeftBounded, AtWork
  <2>2. CASE search[s] # Idle
    <3>1. inflight' \in Seq(Tasks) /\ Len(inflight') <= Len(inflight) + 1
      BY <1>1 DEF TypeOK
    <3> QED BY <1>1, <2>2, <3>1, FewerAtWork
  <2> QED BY <2>1, <2>2
<1> QED BY <1>6, <1>7, <1>8

\* The last of a list: its places are those of the list, moved.
LEMMA LastOf ==
  ASSUME inflight \in Seq(Tasks), NEW kept \in 0 .. Len(inflight), NEW gone, gone = Len(inflight) - kept,
         inflight' = SubSeq(inflight, gone + 1, Len(inflight))
  PROVE  /\ inflight' \in Seq(Tasks) /\ Len(inflight') = kept /\ DOMAIN inflight' = 1 .. kept
         /\ \A i \in 1 .. kept : i + gone \in DOMAIN inflight /\ inflight'[i] = inflight[i + gone]
         /\ \A j \in DOMAIN inflight : j \notin 1 .. gone =>
              j - gone \in DOMAIN inflight' /\ inflight'[j - gone] = inflight[j]
<1>1. inflight' \in Seq(Tasks) /\ Len(inflight') = kept /\ DOMAIN inflight' = 1 .. kept
  OBVIOUS
<1>2. \A i \in 1 .. kept : i + gone \in DOMAIN inflight /\ inflight'[i] = inflight[i + gone]
  OBVIOUS
<1>3. ASSUME NEW j \in DOMAIN inflight, j \notin 1 .. gone
      PROVE  j - gone \in DOMAIN inflight' /\ inflight'[j - gone] = inflight[j]
  <2>1. j - gone \in 1 .. kept /\ (j - gone) + gone = j
    BY <1>3
  <2> QED BY <1>1, <1>2, <2>1
<1> QED BY <1>1, <1>2, <1>3

\* A new operation for a search: the oldest of those left running are cancelled and let go.
LEMMA LaunchesKeeps ==
  ASSUME SearchInv, NEW s \in Searches, search[s] # Idle => ~Running(search[s].task),
         NEW kind \in {"require", "query"}, Launches(s, kind, Kept), leaked' = leaked
  PROVE  /\ search' \in [Searches -> Awaiting \cup {Idle}] /\ task' \in [Tasks -> Operations]
         /\ inflight' \in Seq(Tasks)
         /\ Owned' /\ PoolBounded' /\ LeftBounded'
         /\ \A u \in Tasks : ~Running(u) /\ Running(u)' => Awaits(s, u)'
<1> USE DEF SearchInv
<1> DEFINE oldest == Len(inflight) - Kept
<1>1. PICK new \in Free :
        /\ inflight' = SubSeq(inflight, oldest + 1, Len(inflight))
        /\ task' = [t \in Tasks |->
             IF t = new THEN [Ended EXCEPT !.kind = kind, !.at = "new"]
             ELSE IF \E i \in 1 .. oldest : inflight[i] = t THEN Cancelled(task[t], "evicted")
             ELSE Collected(s)[t]]
        /\ search' = [search EXCEPT ![s] = [at |-> kind, task |-> new]]
  BY DEF Launches
<1>2. /\ new \in Tasks /\ task[new] = Ended /\ ~Running(new)
      /\ \A i \in DOMAIN inflight : inflight[i] # new
      /\ \A r \in Searches : ~Awaits(r, new)
  BY DEF Free, Range, Awaits, Running, Ended
<1>3. Kept \in 0 .. Len(inflight) /\ Kept <= MaxAbandoned - 1 /\ Len(inflight) \in Nat
  BY SearchLimits DEF Kept, TypeOK
<1>4. /\ inflight' \in Seq(Tasks) /\ Len(inflight') = Kept /\ DOMAIN inflight' = 1 .. Kept
      /\ \A i \in 1 .. Kept : i + oldest \in DOMAIN inflight /\ inflight'[i] = inflight[i + oldest]
      /\ \A j \in DOMAIN inflight : j \notin 1 .. oldest =>
           j - oldest \in DOMAIN inflight' /\ inflight'[j - oldest] = inflight[j]
  <2>1. inflight \in Seq(Tasks) /\ Kept \in 0 .. Len(inflight) /\ oldest = Len(inflight) - Kept
    BY <1>3 DEF TypeOK
  <2>2. inflight' = SubSeq(inflight, oldest + 1, Len(inflight))
    BY <1>1
  <2> HIDE DEF oldest
  <2> QED BY <2>1, <2>2, LastOf, Zenon
<1> HIDE DEF oldest
<1>5. \A i \in DOMAIN inflight' : \E j \in DOMAIN inflight : inflight'[i] = inflight[j]
  BY <1>4
<1>6. \A i, j \in DOMAIN inflight' : inflight'[i] = inflight'[j] => i = j
  <2> SUFFICES ASSUME NEW i \in DOMAIN inflight', NEW j \in DOMAIN inflight', inflight'[i] = inflight'[j]
               PROVE  i = j
    OBVIOUS
  <2>1. i + oldest = j + oldest
    BY <1>4 DEF Owned
  <2> QED BY <1>3, <1>4, <2>1 DEF oldest
<1>7. \A r \in Searches, u \in Tasks : Awaits(r, u)' <=> (IF r = s THEN u = new ELSE Awaits(r, u))
  BY <1>1, <1>2 DEF Awaits, TypeOK, Idle
<1>8. Running(new)' /\ Proceeds(new)' /\ task'[new].at = "new"
  BY <1>1, <1>2 DEF Running, Proceeds, Ended
<1>9. ASSUME NEW u \in Tasks \ {new}, \E i \in 1 .. oldest : inflight[i] = u
      PROVE  /\ task'[u] = Cancelled(task[u], "evicted") /\ task'[u].at = task[u].at
             /\ Running(u)' => ~Proceeds(u)'
             /\ \A i \in DOMAIN inflight' : inflight'[i] # u
             /\ \A r \in Searches : ~Awaits(r, u)
  <2>1. task'[u] = Cancelled(task[u], "evicted") /\ task[u] \in Operations
    BY <1>1, <1>9 DEF TypeOK
  <2>2. task'[u].at = task[u].at /\ (Running(u)' => ~Proceeds(u)')
    BY <2>1 DEF Cancelled, Running, Proceeds, Operations
  <2>3. PICK k \in 1 .. oldest : inflight[k] = u
    BY <1>9
  <2>4. k \in DOMAIN inflight
    BY <1>3 DEF oldest, TypeOK
  <2>5. \A i \in DOMAIN inflight' : inflight'[i] # u
    <3> SUFFICES ASSUME NEW i \in DOMAIN inflight', inflight'[i] = u PROVE FALSE
      OBVIOUS
    <3>1. i + oldest = k
      BY <1>4, <2>3, <2>4 DEF Owned
    <3> QED BY <1>3, <1>4, <3>1 DEF oldest
  <2> QED BY <2>1, <2>2, <2>3, <2>4, <2>5 DEF Owned
<1>10. ASSUME NEW u \in Tasks \ {new}, ~\E i \in 1 .. oldest : inflight[i] = u
       PROVE  (task'[u] = task[u] /\ ~Awaits(s, u)) \/ (task'[u] = Ended /\ ~Running(u)')
  <2>1. task'[u] = Collected(s)[u]
    BY <1>1, <1>10
  <2> QED BY <2>1 DEF Collected, TypeOK, Awaits, Running, Ended
<1>11. Owned'
  <2>1. \A r, q \in Searches : \A u \in Tasks : Awaits(r, u)' /\ Awaits(q, u)' => r = q
    BY <1>2, <1>7 DEF Owned
  <2>2. \A r \in Searches : \A i \in DOMAIN inflight' : ~Awaits(r, inflight[i])'
    <3> SUFFICES ASSUME NEW r \in Searches, NEW i \in DOMAIN inflight' PROVE ~Awaits(r, inflight[i])'
      OBVIOUS
    <3>1. PICK j \in DOMAIN inflight : inflight'[i] = inflight[j]
      BY <1>5
    <3>2. inflight[j] \in Tasks /\ inflight[j] # new /\ ~Awaits(r, inflight[j])
      BY <1>2 DEF Owned, TypeOK
    <3>3. ~(IF r = s THEN inflight[j] = new ELSE Awaits(r, inflight[j]))
      BY <3>2
    <3> QED BY <1>1, <1>2, <3>1, <3>2 DEF Awaits, TypeOK, Idle
  <2>3. ASSUME NEW u \in Tasks, Running(u)', Proceeds(u)'
        PROVE  (\E r \in Searches : Awaits(r, u)') \/ (\E i \in DOMAIN inflight' : inflight'[i] = u)
    <3>1. CASE u = new
      BY <1>7, <3>1
    <3>2. CASE u # new
      <4>1. ~\E i \in 1 .. oldest : inflight[i] = u
        BY <1>9, <2>3, <3>2
      <4>2. task'[u] = task[u] /\ ~Awaits(s, u)
        BY <1>10, <2>3, <3>2, <4>1
      <4>3. Running(u) /\ Proceeds(u)
        BY <2>3, <4>2 DEF Running, Proceeds
      <4> QED BY <1>4, <1>7, <4>1, <4>2, <4>3 DEF Owned
    <3> QED BY <3>1, <3>2
  <2>4. ASSUME NEW u \in Tasks, Running(u)', ~Proceeds(u)'
        PROVE  (\A r \in Searches : ~Awaits(r, u)') /\ (\A i \in DOMAIN inflight' : inflight'[i] # u)
    <3>1. u # new
      BY <1>8, <2>4
    <3>2. CASE \E i \in 1 .. oldest : inflight[i] = u
      BY <1>7, <1>9, <3>1, <3>2
    <3>3. CASE ~\E i \in 1 .. oldest : inflight[i] = u
      <4>1. task'[u] = task[u] /\ ~Awaits(s, u)
        BY <1>10, <2>4, <3>1, <3>3
      <4>2. Running(u) /\ ~Proceeds(u)
        BY <2>4, <4>1 DEF Running, Proceeds
      <4> QED BY <1>5, <1>7, <3>1, <4>1, <4>2 DEF Owned
    <3> QED BY <3>2, <3>3
  <2> QED BY <1>6, <2>1, <2>2, <2>3, <2>4 DEF Owned
<1>12. PoolBounded'
  <2>1. Busy' \subseteq Busy
    <3> SUFFICES ASSUME NEW u \in Tasks, task'[u].at \in {"connecting", "sent"} PROVE u \in Busy
      BY DEF Busy
    <3> QED BY <1>8, <1>9, <1>10 DEF Busy, Ended
  <2> QED BY <2>1, PoolKept
<1>13. LeftBounded'
  BY <1>3, <1>4, RoomWasMade
<1>14. search' \in [Searches -> Awaiting \cup {Idle}]
  BY <1>1, <1>2 DEF TypeOK, Awaiting
<1>15. task' \in [Tasks -> Operations]
  <2>1. Ended \in Operations /\ [Ended EXCEPT !.kind = kind, !.at = "new"] \in Operations
    BY DEF Ended, Operations, Outcomes
  <2>2. \A t \in Tasks : Cancelled(task[t], "evicted") \in Operations /\ Collected(s)[t] \in Operations
    BY <2>1 DEF TypeOK, Cancelled, Collected, Operations
  <2> QED BY <1>1, <2>1, <2>2
<1>16. ASSUME NEW u \in Tasks, ~Running(u), Running(u)' PROVE Awaits(s, u)'
  <2>1. u = new
    BY <1>9, <1>10, <1>16 DEF Running
  <2> QED BY <1>7, <2>1
<1> QED BY <1>4, <1>11, <1>12, <1>13, <1>14, <1>15, <1>16

LEMMA LeftUnchanged == LeftBounded /\ search' = search /\ inflight' = inflight => LeftBounded'
BY DEF LeftBounded, AtWork

\* A search begins with the look for the collection.
LEMMA SearchBegins == ASSUME NEW s \in Searches, SearchInv, Begin(s) PROVE SearchInv'
<1>1. /\ search[s] = Idle /\ cut' = [cut EXCEPT ![s] = FALSE] /\ Launches(s, "require", Kept)
      /\ store' = store /\ validated' = validated /\ leaked' = leaked
  BY DEF Begin, Launch
<1>2. "require" \in {"require", "query"}
  OBVIOUS
<1>3. /\ search' \in [Searches -> Awaiting \cup {Idle}] /\ task' \in [Tasks -> Operations]
      /\ inflight' \in Seq(Tasks)
      /\ Owned' /\ PoolBounded' /\ LeftBounded'
  BY <1>1, <1>2, LaunchesKeeps
<1>4. TypeOK'
  BY <1>1, <1>3 DEF SearchInv, TypeOK
<1> QED BY <1>3, <1>4 DEF SearchInv

\* It goes on to the query, or ends.
LEMMA SearchResumes == ASSUME NEW s \in Searches, SearchInv, Resumes(s) PROVE SearchInv'
<1>1. /\ search[s] # Idle /\ ~Running(search[s].task)
      /\ validated' \in BOOLEAN
      /\ Launches(s, "query", Kept) \/ Gives(s)
      /\ store' = store /\ cut' = cut /\ leaked' = leaked
  BY DEF Resumes, Launch, SearchInv, TypeOK
<1>2. CASE Launches(s, "query", Kept)
  <2>1. "query" \in {"require", "query"}
    OBVIOUS
  <2>2. /\ search' \in [Searches -> Awaiting \cup {Idle}] /\ task' \in [Tasks -> Operations]
        /\ inflight' \in Seq(Tasks)
        /\ Owned' /\ PoolBounded' /\ LeftBounded'
    BY <1>1, <1>2, <2>1, LaunchesKeeps
  <2>3. TypeOK'
    BY <1>1, <2>2 DEF SearchInv, TypeOK
  <2> QED BY <2>2, <2>3 DEF SearchInv
<1>3. CASE Gives(s)
  <2>1. Owned' /\ PoolBounded' /\ LeftBounded'
    BY <1>1, <1>3, GivesKeeps
  <2>2. search' = [search EXCEPT ![s] = Idle] /\ task' = Collected(s) /\ inflight' = inflight
    BY <1>3 DEF Gives, Fails
  <2>3. Ended \in Operations
    BY DEF Ended, Operations, Outcomes
  <2>4. TypeOK'
    BY <1>1, <2>2, <2>3 DEF SearchInv, TypeOK, Collected
  <2> QED BY <2>1, <2>4 DEF SearchInv
<1> QED BY <1>1, <1>2, <1>3

\* It leaves its operation, which nobody has cancelled, running.
LEMMA SearchTimesOut == ASSUME NEW s \in Searches, SearchInv, TimesOut(s) PROVE SearchInv'
<1> USE DEF SearchInv
<1>0. search[s] # Idle
  BY DEF TimesOut
<1>t. PICK t \in Tasks : t = search[s].task
  BY <1>0, AwaitsTask
<1>1. /\ search[s] # Idle /\ Running(t) /\ inflight' = Append(inflight, t)
      /\ search' = [search EXCEPT ![s] = Idle] /\ task' = task
      /\ UNCHANGED <<store, validated, cut, leaked>>
  BY <1>t DEF TimesOut, Fails
<1>2. t \in Tasks /\ Awaits(s, t)
  BY <1>0, <1>t, AwaitsTask
<1>3. inflight \in Seq(Tasks) /\ inflight' \in Seq(Tasks) /\ Len(inflight') = Len(inflight) + 1
      /\ Len(inflight) \in Nat /\ DOMAIN inflight = 1 .. Len(inflight)
      /\ DOMAIN inflight' = 1 .. (Len(inflight) + 1)
  BY <1>1, <1>2 DEF TypeOK
<1>4. /\ \A i \in DOMAIN inflight : i \in DOMAIN inflight' /\ inflight'[i] = inflight[i]
      /\ \A i \in DOMAIN inflight' : i \in DOMAIN inflight \/ i = Len(inflight) + 1
      /\ Len(inflight) + 1 \in DOMAIN inflight' /\ inflight'[Len(inflight) + 1] = t
  BY <1>1, <1>2, <1>3
<1>5. TypeOK'
  BY <1>1, <1>3 DEF TypeOK
<1>6. LeftBounded'
  <2>1. Len(inflight') <= Len(inflight) + 1
    BY <1>3
  <2> QED BY <1>1, <1>3, <2>1, FewerAtWork
<1>7. PoolBounded'
  BY <1>1 DEF PoolBounded, Busy
<1>8. Owned'
  <2>1. \A r \in Searches, u \in Tasks : Awaits(r, u)' <=> Awaits(r, u) /\ r # s
    BY <1>1 DEF Awaits, TypeOK
  <2>2. \A i \in DOMAIN inflight : inflight[i] # t /\ inflight[i] \in Tasks
    BY <1>2, <1>3 DEF Owned
  <2>3. \A i, j \in DOMAIN inflight' : inflight'[i] = inflight'[j] => i = j
    BY <1>4, <2>2 DEF Owned
  <2>4. \A r \in Searches : \A i \in DOMAIN inflight' : ~Awaits(r, inflight[i])'
    <3> SUFFICES ASSUME NEW r \in Searches, NEW i \in DOMAIN inflight' PROVE ~Awaits(r, inflight[i])'
      OBVIOUS
    <3>1. \A u \in Tasks : inflight'[i] = u => (Awaits(r, inflight[i])' <=> Awaits(r, u)')
      BY DEF Awaits
    <3>2. CASE i \in DOMAIN inflight
      <4>1. ~Awaits(r, inflight[i]) /\ inflight[i] \in Tasks /\ inflight'[i] = inflight[i]
        BY <1>4, <2>2, <3>2 DEF Owned
      <4>2. ~Awaits(r, inflight[i]) => ~(search'[r] # Idle /\ search'[r].task = inflight[i])
        BY <1>1 DEF TypeOK, Awaits
      <4> QED BY <4>1, <4>2 DEF Awaits
    <3>3. CASE i = Len(inflight) + 1
      <4>1. ~Awaits(r, t)'
        BY <1>2, <2>1 DEF Owned
      <4> QED BY <1>2, <1>4, <3>1, <3>3, <4>1
    <3> QED BY <1>4, <3>2, <3>3
  <2>5. \A u \in Tasks : (Running(u)' <=> Running(u)) /\ (Proceeds(u)' <=> Proceeds(u))
    BY <1>1 DEF Running, Proceeds
  <2>6. Proceeds(t)
    BY <1>1, <1>2 DEF Owned
  <2>7. \A u \in Tasks : Running(u)' /\ Proceeds(u)' =>
          (\E r \in Searches : Awaits(r, u)') \/ (\E i \in DOMAIN inflight' : inflight'[i] = u)
    <3> SUFFICES ASSUME NEW u \in Tasks, Running(u)', Proceeds(u)'
                 PROVE  (\E r \in Searches : Awaits(r, u)') \/ (\E i \in DOMAIN inflight' : inflight'[i] = u)
      OBVIOUS
    <3>1. CASE u = t
      BY <1>4, <3>1
    <3>2. CASE u # t
      <4>1. ~Awaits(s, u)
        BY <1>2, <3>2 DEF Awaits
      <4> QED BY <1>4, <2>1, <2>5, <4>1 DEF Owned
    <3> QED BY <3>1, <3>2
  <2>8. \A u \in Tasks : Running(u)' /\ ~Proceeds(u)' =>
          (\A r \in Searches : ~Awaits(r, u)') /\ (\A i \in DOMAIN inflight' : inflight'[i] # u)
    BY <1>4, <2>1, <2>5, <2>6 DEF Owned
  <2>9. \A r, q \in Searches : \A u \in Tasks : Awaits(r, u)' /\ Awaits(q, u)' => r = q
    BY <2>1 DEF Owned
  <2> QED BY <2>3, <2>4, <2>7, <2>8, <2>9 DEF Owned
<1> QED BY <1>5, <1>6, <1>7, <1>8

\* Its branch is cancelled, and the operation with it.
LEMMA BranchIsCancelled ==
  ASSUME NEW s \in Searches, NEW cause \in {"disconnect", "deadline"}, SearchInv, CancelBranch(s, cause)
  PROVE  SearchInv'
<1> USE DEF SearchInv
<1>0. search[s] # Idle
  BY DEF CancelBranch
<1>1. PICK t \in Tasks : t = search[s].task /\ Awaits(s, t)
  BY <1>0, AwaitsTask
<1>2. /\ task' = [task EXCEPT ![t] = IF @.at = "ended" THEN Ended ELSE Cancelled(@, cause)]
      /\ search' = [search EXCEPT ![s] = Idle] /\ inflight' = inflight
      /\ UNCHANGED <<store, validated, cut, inflight, leaked>>
  BY <1>1 DEF CancelBranch, Fails
<1>3. /\ task'[t] \in Operations /\ (Running(t)' => ~Proceeds(t)')
      /\ task'[t].at = task[t].at
  BY <1>2 DEF TypeOK, Cancelled, Ended, Operations, Outcomes, Running, Proceeds
<1>4. \A u \in Tasks : u # t => task'[u] = task[u]
  BY <1>2 DEF TypeOK
<1>5. TypeOK'
  BY <1>2, <1>3 DEF TypeOK
<1>6. PoolBounded'
  <2>1. Busy' \subseteq Busy
    BY <1>3, <1>4 DEF Busy
  <2> QED BY <1>2, <2>1, PoolKept
<1>7. LeftBounded'
  <2>1. inflight' \in Seq(Tasks) /\ Len(inflight') <= Len(inflight) + 1
    BY <1>2 DEF TypeOK
  <2> QED BY <1>0, <1>2, <2>1, FewerAtWork
<1>8. Owned'
  <2>1. \A r \in Searches, u \in Tasks : Awaits(r, u)' <=> Awaits(r, u) /\ r # s
    BY <1>2 DEF Awaits, TypeOK
  <2>2. \A i \in DOMAIN inflight : inflight[i] # t /\ inflight[i] \in Tasks
    BY <1>1 DEF Owned, TypeOK
  <2>3. \A r \in Searches : ~Awaits(r, t)'
    BY <1>1, <2>1 DEF Owned
  <2>4. \A u \in Tasks : u # t => (Running(u)' <=> Running(u)) /\ (Proceeds(u)' <=> Proceeds(u))
    BY <1>4 DEF Running, Proceeds
  <2>5. \A u \in Tasks : u # t => ~Awaits(s, u)
    BY <1>1 DEF Awaits
  <2>6. \A r \in Searches : \A i \in DOMAIN inflight' : ~Awaits(r, inflight[i])'
    BY <1>2, <2>1, <2>2 DEF Owned, Awaits, TypeOK
  <2> QED BY <1>2, <1>3, <2>1, <2>2, <2>3, <2>4, <2>5, <2>6 DEF Owned
<1> QED BY <1>5, <1>6, <1>7, <1>8

\* An operation that moves while the searches and the list stay as they are.
LEMMA OperationMoves ==
  ASSUME NEW t \in Tasks, SearchInv, NEW op \in Operations, task' = [task EXCEPT ![t] = op],
         op.at # "ended" => task[t].at # "ended" /\ op.cancelled = task[t].cancelled,
         UNCHANGED <<store, search, cut, inflight>>, validated' \in BOOLEAN, leaked' \in 0 .. PoolSize,
         PoolBounded'
  PROVE  SearchInv'
<1> USE DEF SearchInv
<1>1. task'[t] = op /\ \A u \in Tasks \ {t} : task'[u] = task[u]
  BY DEF TypeOK
<1>2. Running(t)' => Running(t) /\ (Proceeds(t)' <=> Proceeds(t))
  BY <1>1 DEF Running, Proceeds
<1>3. Owned'
  BY <1>1, <1>2, TaskMoves
<1>4. LeftBounded'
  BY LeftUnchanged
<1>5. TypeOK'
  BY DEF TypeOK
<1> QED BY <1>3, <1>4, <1>5

\* An operation ends, with an outcome.
LEMMA OperationEnds ==
  ASSUME NEW t \in Tasks, SearchInv, NEW result \in Outcomes, Ends(t, result),
         UNCHANGED <<store, search, cut, inflight>>, validated' \in BOOLEAN, leaked' \in 0 .. PoolSize,
         leaked' = leaked \/ (leaked' = leaked + 1 /\ t \in Busy)
  PROVE  SearchInv'
<1> DEFINE op == [Ended EXCEPT !.outcome = IF Waiters(t) = {} THEN "none" ELSE result]
<1>1. op \in Operations /\ op.at = "ended" /\ task' = [task EXCEPT ![t] = op]
  BY DEF Ends, Ended, Operations, Outcomes
<1> HIDE DEF op
<1>2. Busy' = Busy \ {t}
  BY <1>1 DEF Busy, SearchInv, TypeOK
<1>3. PoolBounded'
  <2>1. CASE leaked' = leaked
    BY <1>2, <2>1, PoolKept DEF SearchInv
  <2>2. CASE leaked' = leaked + 1 /\ t \in Busy
    <3>1. IsFiniteSet(Busy') /\ Cardinality(Busy') = Cardinality(Busy) - 1 /\ Cardinality(Busy) \in Nat
      BY <1>2, <2>2, FS_RemoveElement, FS_CardinalityType DEF SearchInv, PoolBounded
    <3> QED BY <2>2, <3>1, SearchLimits DEF SearchInv, PoolBounded, TypeOK
  <2> QED BY <2>1, <2>2
<1> QED BY <1>1, <1>3, OperationMoves

\* Every step of an operation is one of the two.
LEMMA OperationSteps == ASSUME NEW t \in Tasks, SearchInv, TaskStep(t) PROVE SearchInv'
<1>0. /\ validated \in BOOLEAN /\ leaked \in 0 .. PoolSize /\ task[t] \in Operations
      /\ task \in [Tasks -> Operations] /\ PoolBounded /\ TypeOK
  BY DEF SearchInv, TypeOK
<1>1. CASE FirstTurn(t)
  <2>1. UNCHANGED <<store, validated, search, cut, inflight, leaked>>
    BY <1>1 DEF FirstTurn
  <2>2. CASE Ends(t, "ok")
    <3>1. "ok" \in Outcomes
      BY DEF Outcomes
    <3> QED BY <1>0, <2>1, <2>2, <3>1, OperationEnds
  <2>3. CASE task[t].at = "new" /\ task' = [task EXCEPT ![t].at = "waiting"]
    <3> DEFINE op == [task[t] EXCEPT !.at = "waiting"]
    <3>1. /\ op \in Operations /\ op.at = "waiting" /\ op.cancelled = task[t].cancelled
          /\ task' = [task EXCEPT ![t] = op]
      BY <1>0, <2>3 DEF Operations
    <3> HIDE DEF op
    <3>2. Busy' \subseteq Busy
      BY <1>0, <3>1 DEF Busy
    <3>3. PoolBounded'
      BY <1>0, <2>1, <3>2, PoolKept
    <3> QED BY <1>0, <2>1, <2>3, <3>1, <3>3, OperationMoves
  <2> QED BY <1>1, <2>2, <2>3 DEF FirstTurn
<1>2. CASE TakesPlace(t)
  <2>1. /\ UNCHANGED <<store, validated, search, cut, inflight, leaked>>
        /\ task[t].at = "waiting" /\ Cardinality(Busy) + leaked < PoolSize
    BY <1>2 DEF TakesPlace
  <2>2. PICK place \in {"connecting", "sent"} : task' = [task EXCEPT ![t].at = place]
    BY <1>2 DEF TakesPlace
  <2> DEFINE op == [task[t] EXCEPT !.at = place]
  <2>3. /\ op \in Operations /\ op.at = place /\ op.cancelled = task[t].cancelled
        /\ task' = [task EXCEPT ![t] = op]
    BY <1>0, <2>2 DEF Operations
  <2> HIDE DEF op
  <2>4. Busy' = Busy \cup {t} /\ t \notin Busy
    BY <1>0, <2>1, <2>3 DEF Busy
  <2>5. IsFiniteSet(Busy') /\ Cardinality(Busy') = Cardinality(Busy) + 1 /\ Cardinality(Busy) \in Nat
    BY <1>0, <2>4, FS_AddElement, FS_CardinalityType DEF PoolBounded
  <2>6. PoolBounded'
    BY <1>0, <2>1, <2>5, SearchLimits DEF PoolBounded
  <2> QED BY <1>0, <2>1, <2>3, <2>6, OperationMoves
<1>3. CASE Connects(t)
  <2>1. /\ UNCHANGED <<store, validated, search, cut, inflight, leaked>>
        /\ task[t].at = "connecting" /\ task' = [task EXCEPT ![t].at = "sent"]
    BY <1>3 DEF Connects
  <2> DEFINE op == [task[t] EXCEPT !.at = "sent"]
  <2>2. /\ op \in Operations /\ op.at = "sent" /\ op.cancelled = task[t].cancelled
        /\ task' = [task EXCEPT ![t] = op]
    BY <1>0, <2>1 DEF Operations
  <2> HIDE DEF op
  <2>3. Busy' \subseteq Busy
    BY <1>0, <2>1, <2>2 DEF Busy
  <2>4. PoolBounded'
    BY <1>0, <2>1, <2>3, PoolKept
  <2> QED BY <1>0, <2>1, <2>2, <2>4, OperationMoves
<1>4. CASE Answers(t)
  <2>1. PICK result : /\ result = AnswerOf(task[t].kind) /\ Ends(t, result)
                        /\ validated' = (validated \/ (task[t].kind = "require" /\ result = "ok"))
                        /\ UNCHANGED <<store, search, cut, inflight, leaked>>
    BY <1>4 DEF Answers
  <2>2. result \in Outcomes
    BY <2>1 DEF AnswerOf, Outcomes
  <2> QED BY <1>0, <2>1, <2>2, OperationEnds
<1>5. CASE Breaks(t)
  <2>1. UNCHANGED <<store, validated, search, cut, inflight, leaked>>
    BY <1>5 DEF Breaks
  <2>2. PICK result \in {"unavailable", "timeout"} : Ends(t, result)
    BY <1>5 DEF Breaks
  <2>3. result \in Outcomes
    BY DEF Outcomes
  <2> QED BY <1>0, <2>1, <2>2, <2>3, OperationEnds
<1>6. CASE Unwinds(t)
  <2>1. /\ Ends(t, "none") /\ UNCHANGED <<store, validated, search, cut, inflight>>
        /\ leaked' = leaked \/ (leaked' = leaked + 1 /\ t \in Busy)
    BY <1>0, <1>6 DEF Unwinds, Busy, TypeOK
  <2>2. leaked' \in 0 .. PoolSize
    <3>1. CASE leaked' = leaked
      BY <1>0, <3>1
    <3>2. CASE leaked' = leaked + 1 /\ t \in Busy
      <4>1. Cardinality(Busy) \in Nat /\ Cardinality(Busy) > 0
        <5>1. IsFiniteSet(Busy) /\ Busy # {}
          BY <1>0, <3>2 DEF PoolBounded
        <5> QED BY <5>1, FS_CardinalityType, FS_EmptySet
      <4> QED BY <1>0, <3>2, <4>1, SearchLimits DEF PoolBounded
    <3> QED BY <2>1, <3>1, <3>2
  <2>3. "none" \in Outcomes
    BY DEF Outcomes
  <2> QED BY <1>0, <2>1, <2>2, <2>3, OperationEnds
<1> QED BY <1>1, <1>2, <1>3, <1>4, <1>5, <1>6 DEF TaskStep

\* The invariant of the searches is inductive.
LEMMA SearchNext == SearchInv /\ [Next]_vars => SearchInv'
<1> SUFFICES ASSUME SearchInv, [Next]_vars PROVE SearchInv'
  OBVIOUS
<1>1. CASE UNCHANGED <<search, task, inflight, leaked>> /\ validated' = validated
           /\ cut' \in [Searches -> BOOLEAN] /\ store' \in {"complete", "bare", "absent"}
  <2>1. TypeOK' /\ LeftBounded'
    BY <1>1 DEF SearchInv, TypeOK, LeftBounded, AtWork
  <2>2. Owned' /\ PoolBounded'
    BY <1>1 DEF SearchInv, Owned, Awaits, Running, Proceeds, PoolBounded, Busy
  <2> QED BY <2>1, <2>2 DEF SearchInv
<1>2. CASE UNCHANGED vars
  BY <1>1, <1>2 DEF vars, SearchInv, TypeOK
<1>3. ASSUME NEW s \in Searches, SearchStep(s) PROVE SearchInv'
  <2>1. CASE Cutoff(s)
    BY <1>1, <2>1 DEF Cutoff, SearchInv, TypeOK
  <2> QED BY <1>3, <2>1, SearchBegins, SearchResumes, SearchTimesOut, BranchIsCancelled DEF SearchStep
<1>4. ASSUME NEW t \in Tasks, TaskStep(t) PROVE SearchInv'
  BY <1>4, OperationSteps
<1>5. CASE StoreChanges
  <2>1. store' \in {"complete", "bare", "absent"}
    BY <1>5 DEF StoreChanges, SearchInv, TypeOK
  <2> QED BY <1>1, <1>5, <2>1 DEF StoreChanges, SearchInv, TypeOK
<1> QED BY <1>2, <1>3, <1>4, <1>5 DEF Next

\* It holds in every part, for the others leave the searches alone.
LEMMA SearchStaysSafe == MCSpec => []SearchInv
<1>1. MCInit => SearchInv
  BY SearchInit DEF MCInit
<1>2. SearchInv /\ [MCNext]_allVars => SearchInv'
  BY SearchNext DEF MCNext, allVars, vars
<1> QED BY <1>1, <1>2, PTL DEF MCSpec, allVars

\* The operations a search leaves running when its time is over are bounded: the limit is
\* looked at before one is begun, and passed by at most one for each search at work
\* (_within_deadline and _MAX_ABANDONED_BACKEND_TASKS); and no place of the connection
\* pool is used twice or lost twice.
THEOREM LeftRunningIsBounded == MCSpec => []SearchesBounded
<1>1. SearchInv => SearchesBounded
  <2> SUFFICES ASSUME SearchInv PROVE AbandonedBounded
    BY DEF SearchInv, SearchesBounded
  <2>1. Cardinality(AtWork) \in Nat /\ Cardinality(Searches) \in Nat
    BY FS_Subset, FS_CardinalityType, SearchLimits DEF AtWork
  <2>2. Len(inflight) \in Nat
    BY DEF SearchInv, TypeOK
  <2> QED BY <2>1, <2>2, SearchLimits DEF SearchInv, LeftBounded, AbandonedBounded
<1> QED BY <1>1, SearchStaysSafe, PTL

\* Every operation that runs is awaited by one search, or once among those left running,
\* or on its way out ("keep nothing dangling": _within_deadline, _consume_finished_task).
THEOREM NothingIsDangling == MCSpec => []NothingDangles
<1>1. SearchInv => NothingDangles
  <2> SUFFICES ASSUME SearchInv, NEW t \in Tasks, Running(t)
               PROVE  Cardinality(Waiters(t)) + Cardinality({i \in DOMAIN inflight : inflight[i] = t})
                        = IF Proceeds(t) THEN 1 ELSE 0
    BY DEF NothingDangles
  <2> DEFINE left == {i \in DOMAIN inflight : inflight[i] = t}
  <2>1. Waiters(t) = {s \in Searches : Awaits(s, t)}
    BY DEF Waiters, Awaits
  <2>2. Cardinality({}) = 0 /\ \A x : Cardinality({x}) = 1
    BY FS_EmptySet, FS_Singleton
  <2>3. CASE Proceeds(t) /\ (\E s \in Searches : Awaits(s, t))
    <3>1. PICK s \in Searches : Awaits(s, t)
      BY <2>3
    <3>2. Waiters(t) = {s} /\ left = {}
      BY <2>1, <3>1 DEF SearchInv, Owned
    <3>3. Cardinality(Waiters(t)) = 1 /\ Cardinality(left) = 0
      BY <2>2, <3>2
    <3> QED BY <2>3, <3>3
  <2>4. CASE Proceeds(t) /\ ~(\E s \in Searches : Awaits(s, t))
    <3>1. PICK i \in DOMAIN inflight : inflight[i] = t
      BY <2>4 DEF SearchInv, Owned
    <3>2. Waiters(t) = {}
      BY <2>1, <2>4
    <3>3. \A j \in DOMAIN inflight : inflight[j] = t => j = i
      BY <3>1 DEF SearchInv, Owned
    <3>4. left = {i}
      BY <3>1, <3>3
    <3>5. Cardinality(Waiters(t)) = 0
      BY <2>2, <3>2
    <3>6. Cardinality(left) = 1
      BY <2>2, <3>4
    <3> QED BY <2>4, <3>5, <3>6
  <2>5. CASE ~Proceeds(t)
    <3>1. Waiters(t) = {} /\ left = {}
      BY <2>1, <2>5 DEF SearchInv, Owned
    <3> QED BY <2>2, <2>5, <3>1
  <2> QED BY <2>3, <2>4, <2>5
<1> QED BY <1>1, SearchStaysSafe, PTL

\* No step begins an operation for a search whose cutoff has passed: _within_deadline looks
\* at the remaining time before it makes the task, between the two operations as well.
THEOREM NothingBegunLate == MCSpec => NoneAfterCutoff
<1> DEFINE InTime == \A t \in Tasks : ~Running(t) /\ Running(t)' =>
                       \E s \in Searches : search'[s] # Idle /\ search'[s].task = t /\ ~cut'[s]
<1>1. SearchInv /\ [MCNext]_allVars => [InTime]_vars
  <2> SUFFICES ASSUME SearchInv, Next PROVE InTime
    BY DEF MCNext, allVars, vars
  <2>1. ASSUME NEW s \in Searches, Begin(s) \/ Resumes(s) PROVE InTime
    <3>1. \A u \in Tasks : ~Running(u) /\ Running(u)' => Awaits(s, u)' /\ ~cut'[s]
      <4>1. CASE Begin(s)
        <5>1. /\ search[s] = Idle /\ Launches(s, "require", Kept) /\ leaked' = leaked /\ cut'[s] = FALSE
          BY <4>1 DEF Begin, Launch, SearchInv, TypeOK
        <5>2. "require" \in {"require", "query"}
          OBVIOUS
        <5> QED BY <5>1, <5>2, LaunchesKeeps
      <4>2. CASE Resumes(s)
        <5>1. /\ search[s] # Idle /\ ~Running(search[s].task) /\ cut' = cut /\ leaked' = leaked
              /\ (~cut[s] /\ Launches(s, "query", Kept)) \/ Gives(s)
          BY <4>2 DEF Resumes, Launch
        <5>2. CASE ~cut[s] /\ Launches(s, "query", Kept)
          <6>1. "query" \in {"require", "query"}
            OBVIOUS
          <6> QED BY <5>1, <5>2, <6>1, LaunchesKeeps
        <5>3. CASE Gives(s)
          <6>1. \A u \in Tasks : task'[u] = task[u] \/ ~Running(u)'
            BY <5>3 DEF Gives, Collected, Running, Ended, SearchInv, TypeOK
          <6> QED BY <6>1 DEF Running
        <5> QED BY <5>1, <5>2, <5>3
      <4> QED BY <2>1, <4>1, <4>2
    <3> QED BY <3>1 DEF Awaits
  <2>2. ASSUME NEW s \in Searches, NEW cause, CancelBranch(s, cause) PROVE InTime
    <3>1. \A u \in Tasks : task'[u].at = task[u].at
      BY <2>2 DEF CancelBranch, Cancelled, Ended, SearchInv, TypeOK, Operations
    <3> QED BY <3>1 DEF Running
  <2>3. ASSUME NEW t \in Tasks, TaskStep(t) PROVE InTime
    <3>1. \A u \in Tasks : u # t => task'[u] = task[u]
      BY <2>3 DEF TaskStep, FirstTurn, TakesPlace, Connects, Answers, Breaks, Unwinds, Ends, SearchInv, TypeOK
    <3>2. Running(t)
      BY <2>3 DEF TaskStep, FirstTurn, TakesPlace, Connects, Answers, Breaks, Unwinds, Running
    <3> QED BY <3>1, <3>2 DEF Running
  <2>4. ASSUME UNCHANGED task PROVE InTime
    BY <2>4 DEF Running
  <2> QED BY <2>1, <2>2, <2>3, <2>4 DEF Next, SearchStep, TimesOut, Cutoff, StoreChanges
<1> QED BY <1>1, SearchStaysSafe, PTL DEF MCSpec, allVars, NoneAfterCutoff

----------------------------------------------------------------------------
(* The counters of the service.                                             *)

Reported == metrics["complete"] + metrics["partial"] + metrics["error"]
Asked == metrics["request"]

\* The requests that are counted under no outcome, or not yet.
Unreported ==
  {r \in Received : request[r] \in {"complete", "partial", "error", "searching", "cancelled", "gone"}}

ToldOf == {told[i] : i \in DOMAIN told}

CountTypes ==
  /\ request \in [Received -> {"away", "searching", "cancelled", "ended", "refused", "gone",
                               "complete", "partial", "error"}]
  /\ DOMAIN metrics = Service!Counters
  /\ \A c \in {"complete", "partial", "error", "request"} : metrics[c] \in Nat
  /\ told \in Seq(Received)
  /\ IsFiniteSet(Unreported) /\ IsFiniteSet(ToldOf)

CountInv ==
  /\ CountTypes
  /\ \A r \in ToldOf : request[r] = "ended"
  /\ Cardinality(ToldOf) = Len(told)
  /\ Reported = Len(told) /\ Asked = Reported + Cardinality(Unreported)

\* At the start nothing is counted or told.
LEMMA CountInit == Service!Init => CountInv
<1> SUFFICES ASSUME Service!Init PROVE CountInv
  OBVIOUS
<1>1. Unreported = {} /\ ToldOf = {} /\ told = <<>>
  BY DEF Service!Init, Unreported, ToldOf
<1>2. /\ IsFiniteSet(Unreported) /\ Cardinality(Unreported) = 0
      /\ IsFiniteSet(ToldOf) /\ Cardinality(ToldOf) = 0
  BY <1>1, FS_EmptySet
<1>3. /\ DOMAIN metrics = Service!Counters
      /\ metrics["complete"] = 0 /\ metrics["partial"] = 0 /\ metrics["error"] = 0 /\ metrics["request"] = 0
  BY DEF Service!Init, Service!Counters
<1>4. Reported = 0 /\ Asked = 0
  BY <1>3 DEF Reported, Asked
<1>5. CountTypes
  <2>1. request \in [Received -> {"away", "searching", "cancelled", "ended", "refused", "gone",
                                  "complete", "partial", "error"}]
    BY DEF Service!Init
  <2>2. told \in Seq(Received)
    BY <1>1
  <2>3. 0 \in Nat
    OBVIOUS
  <2> QED BY <1>2, <1>3, <2>1, <2>2, <2>3 DEF CountTypes
<1>6. Len(told) = 0
  BY <1>1
<1> QED BY <1>1, <1>2, <1>4, <1>5, <1>6 DEF CountInv

\* What a record does to the counters of requests and outcomes.
LEMMA RecordCounts ==
  ASSUME CountTypes, NEW counters, metrics' = Service!Counted(metrics, counters)
  PROVE  /\ DOMAIN metrics' = Service!Counters
         /\ \A c \in {"complete", "partial", "error", "request"} :
              /\ c \in counters => metrics'[c] = metrics[c] + 1
              /\ c \notin counters => metrics'[c] = metrics[c]
              /\ metrics'[c] \in Nat
<1>1. DOMAIN metrics' = Service!Counters
  BY DEF Service!Counted
<1>2. \A c \in Service!Counters : metrics'[c] = metrics[c] + (IF c \in counters THEN 1 ELSE 0)
  BY DEF Service!Counted
<1>3. ASSUME NEW c \in {"complete", "partial", "error", "request"}
      PROVE  /\ c \in counters => metrics'[c] = metrics[c] + 1
             /\ c \notin counters => metrics'[c] = metrics[c]
             /\ metrics'[c] \in Nat
  <2>1. c \in Service!Counters /\ metrics[c] \in Nat
    BY DEF Service!Counters, CountTypes
  <2>2. metrics'[c] = metrics[c] + (IF c \in counters THEN 1 ELSE 0)
    BY <1>2, <2>1
  <2> DEFINE before == metrics[c]
             after == metrics'[c]
             counted == c \in counters
  <2>3. before \in Nat /\ after = before + (IF counted THEN 1 ELSE 0)
    BY <2>1, <2>2
  <2> HIDE DEF before, after, counted
  <2>4. (counted => after = before + 1) /\ (~counted => after = before) /\ after \in Nat
    BY <2>3
  <2> QED BY <2>4 DEF before, after, counted
<1> QED BY <1>1, <1>3

\* One outcome is recorded, or none.
LEMMA OutcomeCounts ==
  ASSUME CountTypes, NEW counters, metrics' = Service!Counted(metrics, counters)
  PROVE  /\ Reported \in Nat /\ Asked \in Nat
         /\ \A e \in {"complete", "partial", "error"} :
              counters \cap {"complete", "partial", "error"} = {e} => Reported' = Reported + 1
         /\ counters \cap {"complete", "partial", "error"} = {} => Reported' = Reported
         /\ "request" \in counters => Asked' = Asked + 1
         /\ "request" \notin counters => Asked' = Asked
<1> DEFINE a == metrics["complete"]
           b == metrics["partial"]
           c == metrics["error"]
           x == metrics'["complete"]
           y == metrics'["partial"]
           z == metrics'["error"]
<1>1. /\ "complete" \in counters => x = a + 1
      /\ "partial" \in counters => y = b + 1
      /\ "error" \in counters => z = c + 1
      /\ "complete" \notin counters => x = a
      /\ "partial" \notin counters => y = b
      /\ "error" \notin counters => z = c
  BY RecordCounts, Zenon
<1>2. a \in Nat /\ b \in Nat /\ c \in Nat /\ Asked \in Nat /\ Reported = a + b + c
  BY DEF CountTypes, Reported, Asked
<1>3. Reported' = x + y + z
  BY DEF Reported
<1>4. /\ "request" \in counters => Asked' = Asked + 1
      /\ "request" \notin counters => Asked' = Asked
  BY RecordCounts, Zenon DEF Asked
<1> HIDE DEF a, b, c, x, y, z
<1>5. Reported \in Nat
  BY <1>2
<1>6. /\ x = a + 1 /\ y = b /\ z = c => Reported' = Reported + 1
      /\ x = a /\ y = b + 1 /\ z = c => Reported' = Reported + 1
      /\ x = a /\ y = b /\ z = c + 1 => Reported' = Reported + 1
      /\ x = a /\ y = b /\ z = c => Reported' = Reported
  BY <1>2, <1>3
<1>7. ASSUME counters \cap {"complete", "partial", "error"} = {"complete"} PROVE Reported' = Reported + 1
  <2>1. "complete" \in counters /\ "partial" \notin counters /\ "error" \notin counters
    BY <1>7
  <2> QED BY <1>1, <1>6, <2>1, Zenon
<1>8. ASSUME counters \cap {"complete", "partial", "error"} = {"partial"} PROVE Reported' = Reported + 1
  <2>1. "complete" \notin counters /\ "partial" \in counters /\ "error" \notin counters
    BY <1>8
  <2> QED BY <1>1, <1>6, <2>1, Zenon
<1>9. ASSUME counters \cap {"complete", "partial", "error"} = {"error"} PROVE Reported' = Reported + 1
  <2>1. "complete" \notin counters /\ "partial" \notin counters /\ "error" \in counters
    BY <1>9
  <2> QED BY <1>1, <1>6, <2>1, Zenon
<1>10. ASSUME counters \cap {"complete", "partial", "error"} = {} PROVE Reported' = Reported
  <2>1. "complete" \notin counters /\ "partial" \notin counters /\ "error" \notin counters
    BY <1>10
  <2> QED BY <1>1, <1>6, <2>1, Zenon
<1>11. \A e \in {"complete", "partial", "error"} :
         counters \cap {"complete", "partial", "error"} = {e} => Reported' = Reported + 1
  <2> TAKE e \in {"complete", "partial", "error"}
  <2> QED BY <1>7, <1>8, <1>9, Zenon
<1> QED BY <1>2, <1>4, <1>5, <1>10, <1>11, Zenon

\* Who is told of is told of once: it ends with that.
LEMMA TellsOnce ==
  ASSUME CountInv, NEW r \in Received, request[r] # "ended",
         request' = [request EXCEPT ![r] = "ended"], told' = Append(told, r)
  PROVE  /\ told' \in Seq(Received) /\ Len(told') = Len(told) + 1 /\ Len(told) \in Nat
         /\ IsFiniteSet(ToldOf') /\ Cardinality(ToldOf') = Len(told')
         /\ \A q \in ToldOf' : request'[q] = "ended"
<1>1. told \in Seq(Received) /\ IsFiniteSet(ToldOf) /\ Cardinality(ToldOf) = Len(told)
  BY DEF CountInv, CountTypes
<1>2. /\ told' \in Seq(Received) /\ Len(told') = Len(told) + 1 /\ Len(told) \in Nat
      /\ DOMAIN told = 1 .. Len(told) /\ DOMAIN told' = 1 .. (Len(told) + 1)
  BY <1>1
<1>3. \A i \in DOMAIN told : i \in DOMAIN told' /\ told'[i] = told[i]
  BY <1>1, <1>2
<1>4. Len(told) + 1 \in DOMAIN told' /\ told'[Len(told) + 1] = r
  BY <1>1, <1>2
<1>5. \A i \in DOMAIN told' : i \in DOMAIN told \/ i = Len(told) + 1
  BY <1>2
<1>6. ToldOf' = ToldOf \cup {r}
  BY <1>3, <1>4, <1>5 DEF ToldOf
<1>7. r \notin ToldOf
  BY DEF CountInv
<1>8. IsFiniteSet(ToldOf') /\ Cardinality(ToldOf') = Cardinality(ToldOf) + 1
  BY <1>1, <1>6, <1>7, FS_AddElement
<1>9. \A q \in ToldOf' : request'[q] = "ended"
  <2>1. ToldOf \subseteq Received
    BY <1>1 DEF ToldOf
  <2> QED BY <1>6, <2>1 DEF CountInv, CountTypes
<1> QED BY <1>1, <1>2, <1>8, <1>9

\* Requests that move without being told of.
LEMMA MovesUntold ==
  ASSUME CountInv, NEW r \in Received, request[r] # "ended", told' = told,
         NEW place \in {"searching", "cancelled", "refused", "gone", "complete", "partial", "error"},
         request' = [request EXCEPT ![r] = place]
  PROVE  /\ IsFiniteSet(ToldOf') /\ Cardinality(ToldOf') = Len(told')
         /\ \A q \in ToldOf' : request'[q] = "ended"
<1>1. ToldOf' = ToldOf /\ r \notin ToldOf /\ ToldOf \subseteq Received
  BY DEF ToldOf, CountInv, CountTypes
<1> QED BY <1>1 DEF CountInv, CountTypes

\* A request is told of and counted: one that has not been counted, with its outcome; one
\* that has been, under its outcome.
LEMMA CountedAndTold ==
  ASSUME CountInv, NEW r \in Received, NEW counters, Service!Tell(r, counters),
         request' = [request EXCEPT ![r] = "ended"],
         \/ request[r] = "away" /\ counters = {"request", "error"}
         \/ \E e \in {"complete", "partial", "error"} : request[r] = e /\ counters = {e}
  PROVE  CountInv'
<1>1. PICK noted : /\ metrics' = Service!Counted(metrics, counters \cup noted)
                   /\ noted \subseteq {"dropped"} /\ told' = Append(told, r)
  <2> DEFINE goes == IF ~writer.open \/ writer.closed THEN "unseen"
                     ELSE IF Len(queue) = QueueCapacity THEN "dropped" ELSE "queued"
             dropped == IF goes = "dropped" THEN {"dropped"} ELSE {}
  <2>1. metrics' = Service!Counted(metrics, counters \cup dropped) /\ told' = Append(told, r)
    BY DEF Service!Tell
  <2>2. dropped \subseteq {"dropped"}
    OBVIOUS
  <2> HIDE DEF goes, dropped
  <2> QED BY <2>1, <2>2
<1>2. request[r] # "ended"
  OBVIOUS
<1>3. /\ told' \in Seq(Received) /\ Len(told') = Len(told) + 1 /\ Len(told) \in Nat
      /\ IsFiniteSet(ToldOf') /\ Cardinality(ToldOf') = Len(told')
      /\ \A q \in ToldOf' : request'[q] = "ended"
  BY <1>1, <1>2, TellsOnce
<1>4. Reported' = Reported + 1 /\ Reported \in Nat /\ Asked \in Nat
  <2>1. \E e \in {"complete", "partial", "error"} :
          (counters \cup noted) \cap {"complete", "partial", "error"} = {e}
    BY <1>1
  <2> QED BY <1>1, <2>1, OutcomeCounts DEF CountInv
<1>5. IsFiniteSet(Unreported) /\ Cardinality(Unreported) \in Nat
  BY FS_CardinalityType DEF CountInv, CountTypes
<1>6. IsFiniteSet(Unreported') /\ Asked' = Reported' + Cardinality(Unreported')
  <2>1. CASE request[r] = "away" /\ counters = {"request", "error"}
    <3>1. Unreported' = Unreported
      BY <2>1 DEF Unreported, CountInv, CountTypes
    <3>2. Asked' = Asked + 1
      BY <1>1, <2>1, OutcomeCounts DEF CountInv
    <3>3. Asked = Reported + Cardinality(Unreported)
      BY DEF CountInv
    <3>4. Asked' = Reported' + Cardinality(Unreported)
      BY <1>4, <1>5, <3>2, <3>3
    <3> QED BY <1>5, <3>1, <3>4
  <2>2. CASE \E e \in {"complete", "partial", "error"} : request[r] = e /\ counters = {e}
    <3>1. Unreported' = Unreported \ {r} /\ r \in Unreported
      BY <2>2 DEF Unreported, CountInv, CountTypes
    <3>2. IsFiniteSet(Unreported') /\ Cardinality(Unreported') = Cardinality(Unreported) - 1
      BY <1>5, <3>1, FS_RemoveElement
    <3>3. "request" \notin counters \cup noted
      BY <1>1, <2>2
    <3>4. Asked' = Asked
      BY <1>1, <3>3, OutcomeCounts DEF CountInv
    <3>5. Asked = Reported + Cardinality(Unreported)
      BY DEF CountInv
    <3>6. Asked' = Reported' + Cardinality(Unreported')
      BY <1>4, <1>5, <3>2, <3>4, <3>5
    <3> QED BY <3>2, <3>6
  <2> QED BY <2>1, <2>2
<1>7. CountTypes'
  <2>1. request' \in [Received -> {"away", "searching", "cancelled", "ended", "refused", "gone",
                                   "complete", "partial", "error"}]
    BY DEF CountInv, CountTypes
  <2>2. /\ DOMAIN metrics' = Service!Counters
        /\ \A c \in {"complete", "partial", "error", "request"} : metrics'[c] \in Nat
    BY <1>1, RecordCounts DEF CountInv
  <2> QED BY <1>3, <1>6, <2>1, <2>2 DEF CountTypes
<1>8. Reported' = Len(told')
  <2>1. Reported = Len(told)
    BY DEF CountInv
  <2> QED BY <1>3, <1>4, <2>1
<1> QED BY <1>3, <1>6, <1>7, <1>8 DEF CountInv

\* The counters of requests and outcomes stay.
LEMMA NotCounted ==
  ASSUME CountInv, UNCHANGED <<request, told>>,
         \/ metrics' = metrics
         \/ metrics' = Service!Counted(metrics, {"failure"}) \/ metrics' = Service!Counted(metrics, {})
         \/ \E more : metrics' = [metrics EXCEPT !["failure"] = more]
  PROVE  CountInv'
<1>1. /\ DOMAIN metrics' = Service!Counters
      /\ \A c \in {"complete", "partial", "error", "request"} : metrics'[c] = metrics[c] /\ metrics'[c] \in Nat
  <2>1. CASE metrics' = metrics
    BY <2>1 DEF CountInv, CountTypes
  <2>2. ASSUME NEW counters \in {{"failure"}, {}}, metrics' = Service!Counted(metrics, counters)
        PROVE  /\ DOMAIN metrics' = Service!Counters
               /\ \A c \in {"complete", "partial", "error", "request"} :
                    metrics'[c] = metrics[c] /\ metrics'[c] \in Nat
    <3>1. \A c \in {"complete", "partial", "error", "request"} : c \notin counters
      OBVIOUS
    <3> QED BY <2>2, <3>1, RecordCounts, Zenon DEF CountInv
  <2>3. ASSUME NEW more, metrics' = [metrics EXCEPT !["failure"] = more]
        PROVE  /\ DOMAIN metrics' = Service!Counters
               /\ \A c \in {"complete", "partial", "error", "request"} :
                    metrics'[c] = metrics[c] /\ metrics'[c] \in Nat
    BY <2>3 DEF CountInv, CountTypes, Service!Counters
  <2> QED BY <2>1, <2>2, <2>3
<1>2. Reported' = Reported /\ Asked' = Asked
  BY <1>1 DEF Reported, Asked
<1>3. Unreported' = Unreported /\ ToldOf' = ToldOf /\ request' = request /\ told' = told
  BY DEF Unreported, ToldOf
<1> QED BY <1>1, <1>2, <1>3 DEF CountInv, CountTypes

\* Requests that move among those that are not reported, or are refused.
LEMMA UntoldKeeps ==
  ASSUME CountInv, NEW r \in Received, request[r] # "ended", told' = told, metrics' = metrics,
         NEW place \in {"searching", "cancelled", "refused", "gone", "complete", "partial", "error"},
         request' = [request EXCEPT ![r] = place], (r \in Unreported) <=> place # "refused"
  PROVE  CountInv'
<1>1. Unreported' = Unreported
  BY DEF Unreported, CountInv, CountTypes
<1>2. /\ IsFiniteSet(ToldOf') /\ Cardinality(ToldOf') = Len(told')
      /\ \A q \in ToldOf' : request'[q] = "ended"
  BY MovesUntold
<1>3. Reported' = Reported /\ Asked' = Asked
  BY DEF Reported, Asked
<1>4. CountTypes'
  BY <1>1, <1>2 DEF CountInv, CountTypes
<1> QED BY <1>1, <1>2, <1>3, <1>4 DEF CountInv

\* A search that begins is counted, and is not reported yet.
LEMMA SearchIsCounted ==
  ASSUME CountInv, NEW r \in Received, request[r] = "away", told' = told,
         request' = [request EXCEPT ![r] = "searching"], metrics' = Service!Counted(metrics, {"request"})
  PROVE  CountInv'
<1>1. Unreported' = Unreported \cup {r} /\ r \notin Unreported
  BY DEF Unreported, CountInv, CountTypes
<1>2. /\ IsFiniteSet(Unreported') /\ Cardinality(Unreported') = Cardinality(Unreported) + 1
      /\ Cardinality(Unreported) \in Nat
  BY <1>1, FS_AddElement, FS_CardinalityType DEF CountInv, CountTypes
<1>3. /\ IsFiniteSet(ToldOf') /\ Cardinality(ToldOf') = Len(told')
      /\ \A q \in ToldOf' : request'[q] = "ended"
  BY MovesUntold
<1>4. Reported' = Reported /\ Asked' = Asked + 1 /\ Reported \in Nat /\ Asked \in Nat
  BY OutcomeCounts DEF CountInv
<1>5. /\ DOMAIN metrics' = Service!Counters
      /\ \A c \in {"complete", "partial", "error", "request"} : metrics'[c] \in Nat
  BY RecordCounts DEF CountInv
<1>6. CountTypes'
  BY <1>2, <1>3, <1>5 DEF CountInv, CountTypes
<1>7. Asked' = Reported' + Cardinality(Unreported')
  <2>1. Asked = Reported + Cardinality(Unreported)
    BY DEF CountInv
  <2> QED BY <1>2, <1>4, <2>1
<1> QED BY <1>3, <1>4, <1>6, <1>7 DEF CountInv

\* The invariant of the counters is inductive.
LEMMA CountNext == CountInv /\ [Service!Next]_serviceVars => CountInv'
<1> SUFFICES ASSUME CountInv, [Service!Next]_serviceVars PROVE CountInv'
  OBVIOUS
<1> USE DEF Service!Endings
<1>1. ASSUME UNCHANGED <<request, told, metrics>> PROVE CountInv'
  BY <1>1, NotCounted
<1>2. CASE UNCHANGED serviceVars
  BY <1>1, <1>2 DEF serviceVars
<1>3. ASSUME NEW r \in Received, Service!Refuse(r) PROVE CountInv'
  <2>1. /\ request[r] = "away" /\ told' = told /\ metrics' = metrics
        /\ request' = [request EXCEPT ![r] = "refused"]
    BY <1>3 DEF Service!Refuse
  <2>2. request[r] # "ended" /\ r \notin Unreported
    BY <2>1 DEF Unreported
  <2> QED BY <2>1, <2>2, UntoldKeeps
<1>4. ASSUME NEW r \in Received, Service!Invalid(r) PROVE CountInv'
  BY <1>4, CountedAndTold DEF Service!Invalid
<1>5. ASSUME NEW r \in Received, Service!Search(r) PROVE CountInv'
  <2>1. CASE engine
    BY <1>5, <2>1, SearchIsCounted DEF Service!Search
  <2>2. CASE ~engine
    BY <1>5, <2>2, CountedAndTold DEF Service!Search
  <2> QED BY <2>1, <2>2
<1>6. ASSUME NEW r \in Received, Service!SearchEnds(r) PROVE CountInv'
  <2>1. PICK ending \in {"complete", "partial", "error", "cancelled"} :
               request' = [request EXCEPT ![r] = ending]
    BY <1>6 DEF Service!SearchEnds
  <2>2. request[r] = "searching" /\ told' = told /\ metrics' = metrics
    BY <1>6 DEF Service!SearchEnds
  <2>3. request[r] # "ended" /\ r \in Unreported
    BY <2>2 DEF Unreported
  <2> QED BY <2>1, <2>2, <2>3, UntoldKeeps
<1>7. ASSUME NEW r \in Received, Service!ReportEnd(r) PROVE CountInv'
  <2>1. CASE request[r] \in {"complete", "partial", "error"}
    BY <1>7, <2>1, CountedAndTold DEF Service!ReportEnd
  <2>2. CASE request[r] = "cancelled"
    <3>1. /\ told' = told /\ metrics' = metrics /\ request' = [request EXCEPT ![r] = "gone"]
          /\ request[r] # "ended" /\ r \in Unreported
      BY <1>7, <2>2 DEF Service!ReportEnd, Unreported
    <3> QED BY <3>1, UntoldKeeps
  <2> QED BY <1>7, <2>1, <2>2 DEF Service!ReportEnd
<1>8. CASE Service!WriterTurn
  <2>1. UNCHANGED <<request, told>> /\ \E more : metrics' = [metrics EXCEPT !["failure"] = more]
    BY <1>8 DEF Service!WriterTurn
  <2> QED BY <2>1, NotCounted
<1>9. CASE Service!StartUp
  BY <1>9, NotCounted DEF Service!StartUp
<1>10. CASE Service!WriterCloses
  <2>1. UNCHANGED <<request, told>>
    BY <1>10 DEF Service!WriterCloses
  <2>2. PICK failed \in BOOLEAN : metrics' = Service!Counted(metrics, IF failed THEN {"failure"} ELSE {})
    BY <1>10 DEF Service!WriterCloses
  <2> QED BY <2>1, <2>2, NotCounted
<1>11. CASE Service!EngineBuilt \/ Service!BuildFails \/ Service!StopServing \/ Service!EngineCloses
            \/ Service!CloseWriter \/ Service!EndMarkFits \/ Service!Over
  BY <1>1, <1>11 DEF Service!EngineBuilt, Service!BuildFails, Service!StopServing, Service!EngineCloses,
                     Service!CloseWriter, Service!EndMarkFits, Service!Over, Service!vars
<1> QED BY <1>2, <1>3, <1>4, <1>5, <1>6, <1>7, <1>8, <1>9, <1>10, <1>11 DEF Service!Next

\* It holds in every part, for the others leave the service alone.
LEMMA CountsStayRight == MCSpec => []CountInv
<1>1. MCInit => CountInv
  BY CountInit DEF MCInit
<1>2. CountInv /\ [MCNext]_allVars => CountInv'
  BY PartsMoveAlone, CountNext
<1> QED BY <1>1, <1>2, PTL DEF MCSpec, allVars

\* The counters of /metrics add up: a request that was counted has one outcome, is at work,
\* or was cancelled, and the writer was told of every outcome once (record_request,
\* record_success, record_error and the handlers of server.py).
THEOREM CountersAddUp == MCSpec => []ServiceCounts
<1>1. CountInv => ServiceCounts
  <2> SUFFICES ASSUME CountInv PROVE Service!OutcomesAddUp
    BY DEF ServiceCounts
  <2>1. \A S : Service!Cardinality(S) = Cardinality(S)
    BY DEF Service!Cardinality, Cardinality
  <2>2. Service!Range(told) = ToldOf
    BY DEF Service!Range, ToldOf
  <2>3. Service!At(Service!Endings \cup {"searching", "cancelled", "gone"}) = Unreported
    BY DEF Service!At, Service!Endings, Unreported
  <2> QED BY <2>1, <2>2, <2>3 DEF Service!OutcomesAddUp, CountInv, Reported, Asked
<1> QED BY <1>1, CountsStayRight, PTL

----------------------------------------------------------------------------
(* The traces of the service.                                               *)

\* Somewhere in t the one comes before the other.
Before(t, r, q) == \E k, l \in DOMAIN t : k < l /\ t[k] = r /\ t[l] = q

InQueue == {queue[i] : i \in DOMAIN queue} \ {"end"}
InFile == {file[i] : i \in DOMAIN file}
Fated(f) == {r \in Received : fate[r] = f}

\* The writer is open from the start of the service to its end, with a worker until
\* that has read the end mark, which is the last there is and comes while the
\* lifespan waits for it.
WriterFits ==
  /\ writer \in [open : BOOLEAN, closed : BOOLEAN, worker : BOOLEAN]
  /\ life = "off" => ~writer.open /\ \A r \in Received : request[r] = "away"
  /\ writer.closed <=> life \in {"waiting", "joining", "over"}
  /\ life \in {"waiting", "joining"} => writer.open
  /\ life = "over" => ~writer.open
  /\ writer.worker => writer.open
  /\ writer.open /\ life # "joining" => writer.worker
  /\ ~writer.worker => queue = <<>>
  /\ \A i \in DOMAIN queue : queue[i] = "end" => life = "joining" /\ i = Len(queue)

\* The file and after it the queue are in the order in which they were told.
InOrder ==
  /\ queue \in Seq(Received \cup {"end"}) /\ file \in Seq(Received)
  /\ \A i, j \in DOMAIN file : i < j => Before(told, file[i], file[j])
  /\ \A i \in DOMAIN file, j \in DOMAIN queue : queue[j] # "end" => Before(told, file[i], queue[j])
  /\ \A i, j \in DOMAIN queue : i < j /\ queue[j] # "end" => Before(told, queue[i], queue[j])

\* Who has a fate was told of, and is where its fate says.
Fates ==
  /\ fate \in [Received -> {"none", "queued", "written", "failed", "dropped", "unseen"}]
  /\ \A r \in Received : fate[r] # "none" => r \in ToldOf
  /\ Fated("queued") = InQueue /\ Fated("written") = InFile
  /\ Fated("unseen") # {} => writer.closed \/ ~writer.open

\* What is lost is counted.  A failure that is no line's is that of the writer itself, when
\* it starts or when it closes.
Losses ==
  /\ IsFiniteSet(Fated("dropped")) /\ Cardinality(Fated("dropped")) = metrics["dropped"]
  /\ IsFiniteSet(Fated("failed")) /\ metrics["failure"] \in Nat
  /\ Cardinality(Fated("failed")) <= metrics["failure"]
  /\ metrics["failure"] <= Cardinality(Fated("failed")) + 1
  /\ life = "off" \/ writer.open => metrics["failure"] = Cardinality(Fated("failed"))

TraceInv == WriterFits /\ InOrder /\ Fates /\ Losses

\* At the start there is nothing.
LEMMA TraceInit == Service!Init => TraceInv
<1> SUFFICES ASSUME Service!Init PROVE TraceInv
  OBVIOUS
<1>1. /\ life = "off" /\ writer = [open |-> FALSE, closed |-> FALSE, worker |-> FALSE]
      /\ request = [r \in Received |-> "away"] /\ fate = [r \in Received |-> "none"]
      /\ queue = <<>> /\ file = <<>>
  BY DEF Service!Init
<1>2. metrics["dropped"] = 0 /\ metrics["failure"] = 0
  BY DEF Service!Init, Service!Counters
<1>3. /\ Fated("dropped") = {} /\ Fated("failed") = {} /\ Fated("queued") = {} /\ Fated("written") = {}
      /\ Fated("unseen") = {} /\ InQueue = {} /\ InFile = {}
  BY <1>1 DEF Fated, InQueue, InFile
<1>4. WriterFits
  BY <1>1 DEF WriterFits
<1>5. InOrder
  BY <1>1 DEF InOrder
<1>6. Fates
  BY <1>1, <1>3 DEF Fates
<1>7. Losses
  BY <1>2, <1>3, FS_EmptySet DEF Losses
<1> QED BY <1>4, <1>5, <1>6, <1>7 DEF TraceInv

\* What a record does to the counters of losses.
LEMMA LossCounts ==
  ASSUME DOMAIN metrics = Service!Counters, NEW counters, metrics' = Service!Counted(metrics, counters),
         NEW c \in {"dropped", "failure"}, metrics[c] \in Nat
  PROVE  /\ c \in counters => metrics'[c] = metrics[c] + 1
         /\ c \notin counters => metrics'[c] = metrics[c]
<1>1. c \in Service!Counters
  BY DEF Service!Counters
<1>2. metrics'[c] = metrics[c] + (IF c \in counters THEN 1 ELSE 0)
  BY <1>1 DEF Service!Counted
<1> DEFINE before == metrics[c]
           after == metrics'[c]
           counted == c \in counters
<1>3. before \in Nat /\ after = before + (IF counted THEN 1 ELSE 0)
  BY <1>2
<1> HIDE DEF before, after, counted
<1>4. (counted => after = before + 1) /\ (~counted => after = before)
  BY <1>3
<1> QED BY <1>4 DEF before, after, counted

\* Who is told of comes after all others.
LEMMA ToldLast ==
  ASSUME told \in Seq(Received), NEW r \in Received, told' = Append(told, r)
  PROVE  /\ \A p, q : Before(told, p, q) => Before(told', p, q)
         /\ \A p \in ToldOf : Before(told', p, r)
         /\ ToldOf \subseteq ToldOf' /\ r \in ToldOf'
<1>1. /\ DOMAIN told = 1 .. Len(told) /\ DOMAIN told' = 1 .. (Len(told) + 1) /\ Len(told) \in Nat
      /\ \A i \in DOMAIN told : told'[i] = told[i]
      /\ told'[Len(told) + 1] = r
  OBVIOUS
<1>2. ASSUME NEW p, NEW q, Before(told, p, q) PROVE Before(told', p, q)
  <2>1. PICK k, l \in DOMAIN told : k < l /\ told[k] = p /\ told[l] = q
    BY <1>2 DEF Before
  <2>2. k \in DOMAIN told' /\ l \in DOMAIN told' /\ told'[k] = p /\ told'[l] = q
    BY <1>1, <2>1
  <2> QED BY <2>1, <2>2 DEF Before
<1>3. ASSUME NEW p \in ToldOf PROVE Before(told', p, r)
  <2>1. PICK k \in DOMAIN told : told[k] = p
    BY DEF ToldOf
  <2>2. k \in DOMAIN told' /\ Len(told) + 1 \in DOMAIN told' /\ k < Len(told) + 1 /\ told'[k] = p
    BY <1>1, <2>1
  <2> QED BY <1>1, <2>2 DEF Before
<1>4. ToldOf \subseteq ToldOf' /\ r \in ToldOf'
  BY <1>1 DEF ToldOf
<1> QED BY <1>2, <1>3, <1>4

\* Everything in the file and in the queue was told of.
LEMMA KeptWereTold ==
  ASSUME Fates, InOrder
  PROVE  /\ \A i \in DOMAIN file : file[i] \in ToldOf
         /\ \A i \in DOMAIN queue : queue[i] # "end" => queue[i] \in ToldOf
<1>1. ASSUME NEW i \in DOMAIN file PROVE file[i] \in ToldOf
  <2>1. file[i] \in InFile
    BY DEF InFile
  <2> QED BY <2>1 DEF Fates, Fated
<1>2. ASSUME NEW i \in DOMAIN queue, queue[i] # "end" PROVE queue[i] \in ToldOf
  <2>1. queue[i] \in InQueue
    BY <1>2 DEF InQueue
  <2> QED BY <2>1 DEF Fates, Fated
<1> QED BY <1>1, <1>2

\* A line at the end of the queue.
LEMMA QueueGrows ==
  ASSUME queue \in Seq(Received \cup {"end"}), NEW e \in Received \cup {"end"}, queue' = Append(queue, e)
  PROVE  /\ queue' \in Seq(Received \cup {"end"}) /\ Len(queue') = Len(queue) + 1 /\ Len(queue) \in Nat
         /\ DOMAIN queue = 1 .. Len(queue) /\ DOMAIN queue' = 1 .. (Len(queue) + 1)
         /\ \A i \in DOMAIN queue : i \in DOMAIN queue' /\ queue'[i] = queue[i]
         /\ Len(queue) + 1 \in DOMAIN queue' /\ queue'[Len(queue) + 1] = e
         /\ \A i \in DOMAIN queue' : i \in DOMAIN queue \/ i = Len(queue) + 1
         /\ InQueue' = InQueue \cup ({e} \ {"end"})
<1>1. /\ queue' \in Seq(Received \cup {"end"}) /\ Len(queue') = Len(queue) + 1 /\ Len(queue) \in Nat
      /\ DOMAIN queue = 1 .. Len(queue) /\ DOMAIN queue' = 1 .. (Len(queue) + 1)
  OBVIOUS
<1>2. /\ \A i \in DOMAIN queue : i \in DOMAIN queue' /\ queue'[i] = queue[i]
      /\ Len(queue) + 1 \in DOMAIN queue' /\ queue'[Len(queue) + 1] = e
      /\ \A i \in DOMAIN queue' : i \in DOMAIN queue \/ i = Len(queue) + 1
  BY <1>1
<1>3. InQueue' = InQueue \cup ({e} \ {"end"})
  BY <1>2 DEF InQueue
<1> QED BY <1>1, <1>2, <1>3

\* A handler tells the writer of a request that has ended just now.
LEMMA TellKeepsTraces ==
  ASSUME TraceInv, CountInv, NEW r \in Received, NEW counters, Service!Tell(r, counters),
         request[r] \notin {"away", "ended"} \/ (life = "serving" /\ request[r] = "away"),
         counters \cap {"dropped", "failure"} = {}, UNCHANGED <<life, writer, file>>
  PROVE  TraceInv'
<1> DEFINE goes == IF ~writer.open \/ writer.closed THEN "unseen"
                   ELSE IF Len(queue) = QueueCapacity THEN "dropped" ELSE "queued"
           dropped == IF goes = "dropped" THEN {"dropped"} ELSE {}
<1>1. /\ told' = Append(told, r) /\ fate' = [fate EXCEPT ![r] = goes]
      /\ queue' = IF goes = "queued" THEN Append(queue, r) ELSE queue
      /\ metrics' = Service!Counted(metrics, counters \cup dropped)
  BY DEF Service!Tell
<1>2. /\ goes \in {"unseen", "dropped", "queued"}
      /\ goes = "unseen" => ~writer.open \/ writer.closed
      /\ goes # "unseen" => writer.open /\ ~writer.closed
      /\ goes = "dropped" => dropped = {"dropped"}
      /\ goes # "dropped" => dropped = {}
  OBVIOUS
<1> HIDE DEF goes, dropped
<1>3. told \in Seq(Received) /\ r \notin ToldOf /\ life # "off" /\ DOMAIN metrics = Service!Counters
  <2>1. request[r] # "ended" /\ life # "off"
    BY DEF TraceInv, WriterFits
  <2> QED BY <2>1 DEF CountInv, CountTypes
<1>4. /\ \A p, q : Before(told, p, q) => Before(told', p, q)
      /\ \A p \in ToldOf : Before(told', p, r)
      /\ ToldOf \subseteq ToldOf' /\ r \in ToldOf'
  BY <1>1, <1>3, ToldLast
<1>5. fate[r] = "none" /\ fate \in [Received -> {"none", "queued", "written", "failed", "dropped", "unseen"}]
  BY <1>3 DEF TraceInv, Fates
<1>6. /\ fate'[r] = goes /\ \A q \in Received \ {r} : fate'[q] = fate[q]
      /\ fate' \in [Received -> {"none", "queued", "written", "failed", "dropped", "unseen"}]
  BY <1>1, <1>2, <1>5
<1>7. \A f \in {"queued", "written", "failed", "dropped", "unseen"} :
        /\ r \notin Fated(f)
        /\ f = goes => Fated(f)' = Fated(f) \cup {r}
        /\ f # goes => Fated(f)' = Fated(f)
  BY <1>5, <1>6 DEF Fated
<1>8. \A i \in DOMAIN queue : queue[i] # "end" => queue[i] \in ToldOf
  BY KeptWereTold DEF TraceInv
<1>9. \A i \in DOMAIN file : file[i] \in ToldOf
  BY KeptWereTold DEF TraceInv
<1>10. r # "end"
  BY EndMarkIsNoRequest
<1>11. WriterFits' /\ InOrder' /\ InQueue' = InQueue \cup (IF goes = "queued" THEN {r} ELSE {})
  <2>1. CASE goes # "queued"
    <3>1. queue' = queue
      BY <1>1, <2>1
    <3>2. WriterFits'
      BY <1>3, <3>1 DEF TraceInv, WriterFits
    <3>3. InOrder'
      BY <1>4, <3>1 DEF TraceInv, InOrder
    <3> QED BY <2>1, <3>1, <3>2, <3>3 DEF InQueue
  <2>2. CASE goes = "queued"
    <3>1. queue' = Append(queue, r) /\ queue \in Seq(Received \cup {"end"})
      BY <1>1, <2>2 DEF TraceInv, InOrder
    <3>2. /\ queue' \in Seq(Received \cup {"end"}) /\ Len(queue) \in Nat
          /\ DOMAIN queue = 1 .. Len(queue)
          /\ \A i \in DOMAIN queue : i \in DOMAIN queue' /\ queue'[i] = queue[i]
          /\ Len(queue) + 1 \in DOMAIN queue' /\ queue'[Len(queue) + 1] = r
          /\ \A i \in DOMAIN queue' : i \in DOMAIN queue \/ i = Len(queue) + 1
          /\ InQueue' = InQueue \cup ({r} \ {"end"})
      BY <3>1, QueueGrows
    <3>3. writer.open /\ ~writer.closed /\ writer.worker /\ life # "joining"
      BY <1>2, <2>2 DEF TraceInv, WriterFits
    <3>4. \A i \in DOMAIN queue : queue[i] # "end"
      BY <3>3 DEF TraceInv, WriterFits
    <3>5. \A i \in DOMAIN queue' : queue'[i] # "end"
      BY <1>10, <3>2, <3>4
    <3>6. WriterFits'
      BY <1>3, <3>3, <3>5 DEF TraceInv, WriterFits
    <3>7. \A i, j \in DOMAIN file : i < j => Before(told', file[i], file[j])
      BY <1>4 DEF TraceInv, InOrder
    <3>8. \A i \in DOMAIN file, j \in DOMAIN queue' : Before(told', file[i], queue'[j])
      <4> TAKE i \in DOMAIN file, j \in DOMAIN queue'
      <4>1. CASE j \in DOMAIN queue
        <5>1. Before(told, file[i], queue[j]) /\ queue'[j] = queue[j]
          BY <3>2, <3>4, <4>1 DEF TraceInv, InOrder
        <5> QED BY <1>4, <5>1
      <4>2. CASE j = Len(queue) + 1
        BY <1>4, <1>9, <3>2, <4>2
      <4> QED BY <3>2, <4>1, <4>2
    <3>9. \A i, j \in DOMAIN queue' : i < j => Before(told', queue'[i], queue'[j])
      <4> TAKE i, j \in DOMAIN queue'
      <4> HAVE i < j
      <4>1. i \in DOMAIN queue /\ queue'[i] = queue[i]
        BY <3>2
      <4>2. CASE j \in DOMAIN queue
        <5>1. Before(told, queue[i], queue[j]) /\ queue'[j] = queue[j]
          BY <3>2, <3>4, <4>1, <4>2 DEF TraceInv, InOrder
        <5> QED BY <1>4, <4>1, <5>1
      <4>3. CASE j = Len(queue) + 1
        BY <1>4, <1>8, <3>2, <3>4, <4>1, <4>3
      <4> QED BY <3>2, <4>2, <4>3
    <3>10. InOrder'
      BY <3>2, <3>7, <3>8, <3>9 DEF TraceInv, InOrder
    <3> QED BY <1>10, <2>2, <3>2, <3>6, <3>10
  <2> QED BY <2>1, <2>2
<1>12. Fates'
  <2>1. \A q \in Received : fate'[q] # "none" => q \in ToldOf'
    BY <1>4, <1>6 DEF TraceInv, Fates
  <2>2. Fated("queued")' = InQueue'
    BY <1>2, <1>7, <1>11 DEF TraceInv, Fates
  <2>3. Fated("written")' = InFile'
    BY <1>2, <1>7 DEF TraceInv, Fates, InFile
  <2>4. Fated("unseen")' # {} => writer'.closed \/ ~writer'.open
    BY <1>2, <1>7 DEF TraceInv, Fates
  <2> QED BY <1>6, <2>1, <2>2, <2>3, <2>4 DEF Fates
<1>13. Losses'
  <2>1. /\ IsFiniteSet(Fated("dropped")) /\ Cardinality(Fated("dropped")) = metrics["dropped"]
        /\ IsFiniteSet(Fated("failed")) /\ metrics["failure"] \in Nat
    BY DEF TraceInv, Losses
  <2>2. metrics["dropped"] \in Nat
    BY <2>1, FS_CardinalityType
  <2>3. Fated("failed")' = Fated("failed") /\ metrics'["failure"] = metrics["failure"]
    <3>1. "failure" \notin counters \cup dropped
      BY <1>2
    <3> QED BY <1>1, <1>2, <1>3, <1>7, <2>1, <3>1, LossCounts
  <2>4. IsFiniteSet(Fated("dropped")') /\ Cardinality(Fated("dropped")') = metrics'["dropped"]
    <3>1. CASE goes = "dropped"
      <4>1. "dropped" \in counters \cup dropped
        BY <1>2, <3>1
      <4>2. metrics'["dropped"] = metrics["dropped"] + 1
        BY <1>1, <1>3, <2>2, <4>1, LossCounts
      <4>3. Fated("dropped")' = Fated("dropped") \cup {r} /\ r \notin Fated("dropped")
        BY <1>7, <3>1
      <4> QED BY <2>1, <4>2, <4>3, FS_AddElement
    <3>2. CASE goes # "dropped"
      <4>1. "dropped" \notin counters \cup dropped
        BY <1>2, <3>2
      <4>2. metrics'["dropped"] = metrics["dropped"]
        BY <1>1, <1>3, <2>2, <4>1, LossCounts
      <4>3. Fated("dropped")' = Fated("dropped")
        BY <1>7, <3>2
      <4> QED BY <2>1, <4>2, <4>3
    <3> QED BY <3>1, <3>2
  <2> QED BY <2>1, <2>3, <2>4 DEF TraceInv, Losses
<1> QED BY <1>11, <1>12, <1>13 DEF TraceInv

\* Lines go to the end of the file.
LEMMA FileGrows ==
  ASSUME file \in Seq(Received), NEW n \in Nat, NEW g \in [1 .. n -> Received], file' = file \o g
  PROVE  /\ file' \in Seq(Received) /\ Len(file) \in Nat
         /\ \A i \in DOMAIN file : i \in DOMAIN file' /\ file'[i] = file[i]
         /\ \A i \in 1 .. n : Len(file) + i \in DOMAIN file' /\ file'[Len(file) + i] = g[i]
         /\ \A i \in DOMAIN file' : i \in DOMAIN file \/ \E k \in 1 .. n : i = Len(file) + k
         /\ DOMAIN file = 1 .. Len(file)
<1>1. g \in Seq(Received) /\ Len(g) = n
  <2>1. g \in Seq(Received)
    OBVIOUS
  <2>2. DOMAIN g = 1 .. n
    OBVIOUS
  <2> QED BY <2>1, <2>2, LenProperties
<1>2. /\ file' \in Seq(Received) /\ Len(file') = Len(file) + n
      /\ \A i \in 1 .. Len(file) + n : file'[i] = IF i <= Len(file) THEN file[i] ELSE g[i - Len(file)]
  BY <1>1, ConcatProperties
<1>3. Len(file) \in Nat /\ DOMAIN file = 1 .. Len(file) /\ DOMAIN file' = 1 .. Len(file) + n
  BY <1>2, LenProperties
<1>4. \A i \in DOMAIN file : i \in DOMAIN file' /\ file'[i] = file[i]
  BY <1>2, <1>3
<1>5. \A i \in 1 .. n : Len(file) + i \in DOMAIN file' /\ file'[Len(file) + i] = g[i]
  <2> TAKE i \in 1 .. n
  <2>1. Len(file) + i \in 1 .. Len(file) + n /\ ~(Len(file) + i <= Len(file)) /\ (Len(file) + i) - Len(file) = i
    BY <1>3
  <2> QED BY <1>2, <1>3, <2>1
<1>6. \A i \in DOMAIN file' : i \in DOMAIN file \/ \E k \in 1 .. n : i = Len(file) + k
  <2> TAKE i \in DOMAIN file'
  <2>1. i \in Nat /\ i <= Len(file) + n /\ 1 <= i
    BY <1>3
  <2>2. CASE i <= Len(file)
    BY <1>3, <2>1, <2>2
  <2>3. CASE ~(i <= Len(file))
    <3>1. i - Len(file) \in 1 .. n /\ i = Len(file) + (i - Len(file))
      BY <1>3, <2>1, <2>3
    <3> QED BY <3>1
  <2> QED BY <2>2, <2>3
<1> QED BY <1>2, <1>3, <1>4, <1>5, <1>6

\* A turn of the worker writes or fails every line of the queue.
LEMMA TurnKeepsTraces == ASSUME TraceInv, CountInv, Service!WriterTurn PROVE TraceInv'
<1> DEFINE lines == {i \in DOMAIN queue : queue[i] # "end"}
<1>1a. PICK n \in 0 .. Service!Cardinality(lines) : \E nth \in [1 .. n -> lines] :
        LET good == {queue[nth[i]] : i \in 1 .. n}
            bad == {queue[i] : i \in lines} \ good IN
        /\ \A i, j \in 1 .. n : i < j => nth[i] < nth[j]
        /\ file' = file \o [i \in 1 .. n |-> queue[nth[i]]]
        /\ fate' = [r \in Received |-> IF r \in good THEN "written"
                                       ELSE IF r \in bad THEN "failed" ELSE fate[r]]
        /\ metrics' = [metrics EXCEPT !["failure"] = @ + Service!Cardinality(bad)]
  BY DEF Service!WriterTurn
<1>1. PICK nth \in [1 .. n -> lines] :
        LET good == {queue[nth[i]] : i \in 1 .. n}
            bad == {queue[i] : i \in lines} \ good IN
        /\ \A i, j \in 1 .. n : i < j => nth[i] < nth[j]
        /\ file' = file \o [i \in 1 .. n |-> queue[nth[i]]]
        /\ fate' = [r \in Received |-> IF r \in good THEN "written"
                                       ELSE IF r \in bad THEN "failed" ELSE fate[r]]
        /\ metrics' = [metrics EXCEPT !["failure"] = @ + Service!Cardinality(bad)]
  BY <1>1a
<1> DEFINE good == {queue[nth[i]] : i \in 1 .. n}
           bad == {queue[i] : i \in lines} \ good
           g == [i \in 1 .. n |-> queue[nth[i]]]
<1>2. /\ writer.worker /\ queue # <<>> /\ queue' = <<>> /\ UNCHANGED <<life, engine, request, told>>
      /\ writer' = [writer EXCEPT !.worker = (lines = DOMAIN queue)]
  BY DEF Service!WriterTurn
<1>3. /\ \A i, j \in 1 .. n : i < j => nth[i] < nth[j]
      /\ file' = file \o g
      /\ fate' = [r \in Received |-> IF r \in good THEN "written"
                                     ELSE IF r \in bad THEN "failed" ELSE fate[r]]
      /\ metrics' = [metrics EXCEPT !["failure"] = @ + Cardinality(bad)]
  <2>1. Service!Cardinality(bad) = Cardinality(bad)
    BY DEF Service!Cardinality, Cardinality
  <2> QED BY <1>1, <2>1
<1>4. n \in Nat /\ queue \in Seq(Received \cup {"end"}) /\ file \in Seq(Received)
  BY DEF TraceInv, InOrder
<1>5. \A i \in lines : i \in DOMAIN queue /\ queue[i] # "end" /\ queue[i] \in Received
  BY <1>4
<1>6. InQueue = {queue[i] : i \in lines}
  BY DEF InQueue
<1>7. \A i \in 1 .. n : nth[i] \in lines
  BY <1>1
<1>8. good \subseteq InQueue /\ bad = InQueue \ good /\ InQueue \subseteq Received
  BY <1>5, <1>6, <1>7
<1>9. g \in [1 .. n -> Received] /\ \A i \in 1 .. n : g[i] = queue[nth[i]]
  BY <1>5, <1>7
<1>10. good = {g[i] : i \in 1 .. n}
  BY <1>9
<1>11. /\ file' \in Seq(Received) /\ Len(file) \in Nat
       /\ \A i \in DOMAIN file : i \in DOMAIN file' /\ file'[i] = file[i]
       /\ \A i \in 1 .. n : Len(file) + i \in DOMAIN file' /\ file'[Len(file) + i] = g[i]
       /\ \A i \in DOMAIN file' : i \in DOMAIN file \/ \E k \in 1 .. n : i = Len(file) + k
       /\ DOMAIN file = 1 .. Len(file)
  <2>1. file' = file \o g /\ g \in [1 .. n -> Received]
    BY <1>3, <1>9
  <2> HIDE DEF g
  <2> QED BY <1>4, <2>1, FileGrows
<1>12. IsFiniteSet(InQueue)
  <2>1. IsFiniteSet(DOMAIN queue)
    <3>1. DOMAIN queue = 1 .. Len(queue) /\ Len(queue) \in Nat
      BY <1>4
    <3> QED BY <3>1, FS_Interval
  <2>2. IsFiniteSet({queue[i] : i \in DOMAIN queue})
    <3>1. queue \in Surjection(DOMAIN queue, {queue[i] : i \in DOMAIN queue})
      BY <1>4 DEF Surjection
    <3> QED BY <2>1, <3>1, FS_Surjection
  <2> QED BY <2>2, FS_Subset DEF InQueue
<1>13. \A i, j \in DOMAIN queue : queue[i] = "end" => i = Len(queue) /\ life = "joining"
  BY DEF TraceInv, WriterFits
<1>14. lines # DOMAIN queue => life = "joining"
  BY <1>13
<1> HIDE DEF lines, good, bad, g
<1>15. WriterFits'
  <2>1. /\ writer' \in [open : BOOLEAN, closed : BOOLEAN, worker : BOOLEAN]
        /\ writer'.open = writer.open /\ writer'.closed = writer.closed
        /\ lines = DOMAIN queue => writer'.worker
        /\ life' = life /\ request' = request
    <3> DEFINE all == lines = DOMAIN queue
    <3>1. all \in BOOLEAN /\ writer' = [writer EXCEPT !.worker = all]
      BY <1>2
    <3> HIDE DEF all
    <3>2. /\ writer' \in [open : BOOLEAN, closed : BOOLEAN, worker : BOOLEAN]
          /\ writer'.open = writer.open /\ writer'.closed = writer.closed /\ writer'.worker = all
      BY <3>1 DEF TraceInv, WriterFits
    <3> QED BY <1>2, <3>2 DEF all
  <2>2. \A i : i \notin DOMAIN queue'
    BY <1>2
  <2> QED BY <1>2, <1>14, <2>1, <2>2 DEF TraceInv, WriterFits
<1>16. InOrder'
  <2>1. \A i, j \in DOMAIN file' : i < j => Before(told, file'[i], file'[j])
    <3> TAKE i, j \in DOMAIN file'
    <3> HAVE i < j
    <3>1. CASE j \in DOMAIN file
      <4>1. i \in DOMAIN file
        BY <1>11, <3>1
      <4>2. file'[i] = file[i] /\ file'[j] = file[j]
        BY <1>11, <3>1, <4>1
      <4> QED BY <3>1, <4>1, <4>2 DEF TraceInv, InOrder
    <3>2. ASSUME NEW k \in 1 .. n, j = Len(file) + k PROVE Before(told, file'[i], file'[j])
      <4>1. /\ file'[j] = queue[nth[k]] /\ nth[k] \in DOMAIN queue /\ queue[nth[k]] # "end"
        BY <1>5, <1>7, <1>9, <1>11, <3>2
      <4>2. CASE i \in DOMAIN file
        <5>1. file'[i] = file[i]
          BY <1>11, <4>2
        <5> QED BY <4>1, <4>2, <5>1 DEF TraceInv, InOrder
      <4>3. ASSUME NEW m \in 1 .. n, i = Len(file) + m PROVE Before(told, file'[i], file'[j])
        <5>1. /\ file'[i] = queue[nth[m]] /\ nth[m] \in DOMAIN queue
          BY <1>5, <1>7, <1>9, <1>11, <4>3
        <5>2. nth[m] < nth[k]
          <6>1. m < k
            BY <1>11, <3>2, <4>3
          <6> QED BY <1>3, <6>1
        <5> QED BY <4>1, <5>1, <5>2 DEF TraceInv, InOrder
      <4> QED BY <1>11, <4>2, <4>3
    <3> QED BY <1>11, <3>1, <3>2
  <2> QED BY <1>2, <1>11, <2>1 DEF InOrder
<1>17. \A f \in {"queued", "written", "failed", "dropped", "unseen"} :
         /\ f \notin {"queued", "written", "failed"} => Fated(f)' = Fated(f)
         /\ f = "queued" => Fated(f)' = {}
         /\ f = "written" => Fated(f)' = Fated(f) \cup good
         /\ f = "failed" => Fated(f)' = Fated(f) \cup bad /\ Fated(f) \cap bad = {}
  BY <1>3, <1>8 DEF TraceInv, Fates, Fated
<1>18. Fates'
  <2>1. InFile' = InFile \cup good
    <3>1. ASSUME NEW r \in InFile' PROVE r \in InFile \cup good
      <4>1. PICK i \in DOMAIN file' : r = file'[i]
        BY DEF InFile
      <4>2. i \in DOMAIN file => r \in InFile
        BY <1>11, <4>1 DEF InFile
      <4>3. (\E k \in 1 .. n : i = Len(file) + k) => r \in good
        BY <1>10, <1>11, <4>1
      <4> QED BY <1>11, <4>2, <4>3
    <3>2. ASSUME NEW r \in InFile PROVE r \in InFile'
      BY <1>11 DEF InFile
    <3>3. ASSUME NEW r \in good PROVE r \in InFile'
      BY <1>10, <1>11 DEF InFile
    <3> QED BY <3>1, <3>2, <3>3
  <2>2. InQueue' = {}
    BY <1>2 DEF InQueue
  <2>3. fate' \in [Received -> {"none", "queued", "written", "failed", "dropped", "unseen"}]
    BY <1>3 DEF TraceInv, Fates
  <2>4. ASSUME NEW r \in Received, fate'[r] # "none" PROVE r \in ToldOf'
    <3>1. fate[r] # "none"
      BY <1>3, <1>8, <2>4 DEF TraceInv, Fates, Fated
    <3>2. ToldOf' = ToldOf
      BY <1>2 DEF ToldOf
    <3> QED BY <3>1, <3>2 DEF TraceInv, Fates
  <2>5. writer'.open = writer.open /\ writer'.closed = writer.closed
    BY <1>2 DEF TraceInv, WriterFits
  <2> QED BY <1>17, <2>1, <2>2, <2>3, <2>4, <2>5 DEF TraceInv, Fates
<1>19. Losses'
  <2> DEFINE failed == Cardinality(Fated("failed"))
             more == Cardinality(bad)
             counted == metrics["failure"]
  <2>1. IsFiniteSet(bad) /\ IsFiniteSet(Fated("failed"))
    BY <1>8, <1>12, FS_Subset DEF TraceInv, Losses
  <2>2. failed \in Nat /\ more \in Nat /\ counted \in Nat
    BY <2>1, FS_CardinalityType DEF TraceInv, Losses
  <2>3. IsFiniteSet(Fated("failed")') /\ Cardinality(Fated("failed")') = failed + more
    <3>1. Fated("failed")' = Fated("failed") \cup bad /\ Fated("failed") \cap bad = {}
      BY <1>17
    <3>2. /\ IsFiniteSet(Fated("failed") \cup bad)
          /\ Cardinality(Fated("failed") \cup bad) = failed + more - Cardinality(Fated("failed") \cap bad)
      BY <2>1, FS_Union
    <3>3. Cardinality(Fated("failed") \cap bad) = 0
      BY <3>1, FS_EmptySet
    <3> HIDE DEF failed, more
    <3>4. failed + more - 0 = failed + more
      BY <2>2
    <3> QED BY <3>1, <3>2, <3>3, <3>4
  <2>4. metrics'["failure"] = counted + more /\ metrics'["dropped"] = metrics["dropped"]
    <3>1. DOMAIN metrics = Service!Counters
      BY DEF CountInv, CountTypes
    <3> QED BY <1>3, <3>1 DEF Service!Counters
  <2>5. Fated("dropped")' = Fated("dropped")
    BY <1>17
  <2>6. /\ failed <= counted /\ counted <= failed + 1
        /\ life = "off" \/ writer.open => counted = failed
        /\ IsFiniteSet(Fated("dropped")) /\ Cardinality(Fated("dropped")) = metrics["dropped"]
    BY DEF TraceInv, Losses
  <2>7. life' = life /\ writer'.open = writer.open
    BY <1>2 DEF TraceInv, WriterFits
  <2> HIDE DEF failed, more, counted
  <2>8. /\ counted + more \in Nat /\ failed + more <= counted + more
        /\ counted + more <= (failed + more) + 1
        /\ counted = failed => counted + more = failed + more
    BY <2>2, <2>6
  <2> QED BY <2>3, <2>4, <2>5, <2>6, <2>7, <2>8 DEF Losses
<1> QED BY <1>15, <1>16, <1>18, <1>19 DEF TraceInv

\* Steps that leave the queue, the file and the fates alone.
LEMMA NothingTold ==
  ASSUME TraceInv, UNCHANGED <<queue, file, told, fate>>,
         writer.closed \/ ~writer.open => writer'.closed \/ ~writer'.open \/ Fated("unseen") = {}
  PROVE  InOrder' /\ Fates'
<1>1. \A f : Fated(f)' = Fated(f)
  BY DEF Fated
<1>2. InQueue' = InQueue /\ InFile' = InFile /\ ToldOf' = ToldOf
  BY DEF InQueue, InFile, ToldOf
<1>3. InOrder'
  BY DEF TraceInv, InOrder
<1>4. Fates'
  BY <1>1, <1>2 DEF TraceInv, Fates
<1> QED BY <1>3, <1>4

\* Steps that lose nothing.
LEMMA NothingLost ==
  ASSUME TraceInv, fate' = fate, metrics'["dropped"] = metrics["dropped"],
         metrics'["failure"] = metrics["failure"],
         life' = "off" \/ writer'.open => life = "off" \/ writer.open
  PROVE  Losses'
<1>1. Fated("dropped")' = Fated("dropped") /\ Fated("failed")' = Fated("failed")
  BY DEF Fated
<1> QED BY <1>1 DEF TraceInv, Losses

\* A request that begins to be served, or moves without being told of.
LEMMA MovesKeepTraces ==
  ASSUME TraceInv, UNCHANGED <<life, writer, queue, file, told, fate>>, life # "off",
         metrics'["dropped"] = metrics["dropped"], metrics'["failure"] = metrics["failure"]
  PROVE  TraceInv'
<1>1. WriterFits'
  BY DEF TraceInv, WriterFits
<1> QED BY <1>1, NothingTold, NothingLost DEF TraceInv

\* Nobody has an unseen event before the start.
LEMMA NobodyBeforeStart ==
  ASSUME TraceInv, CountInv, life = "off"
  PROVE  Fated("unseen") = {}
<1>1. \A r \in Received : request[r] = "away"
  BY DEF TraceInv, WriterFits
<1>2. \A r \in Received : r \notin ToldOf
  BY <1>1 DEF CountInv
<1> QED BY <1>2 DEF TraceInv, Fates, Fated

LEMMA StartKeepsTraces == ASSUME TraceInv, CountInv, Service!StartUp PROVE TraceInv'
<1>1. /\ life = "off" /\ life' = "building" /\ UNCHANGED <<engine, request, queue, file, told, fate>>
      /\ \/ writer' = [writer EXCEPT !.open = TRUE, !.worker = TRUE] /\ metrics' = metrics
         \/ writer' = writer /\ metrics' = Service!Counted(metrics, {"failure"})
  BY DEF Service!StartUp
<1>2. writer = [open |-> FALSE, closed |-> FALSE, worker |-> FALSE] /\ queue = <<>>
  BY <1>1 DEF TraceInv, WriterFits
<1>3. InOrder' /\ Fates'
  BY <1>1, NothingTold, NobodyBeforeStart
<1>4. WriterFits'
  <2>1. \/ writer' = [open |-> TRUE, closed |-> FALSE, worker |-> TRUE]
        \/ writer' = [open |-> FALSE, closed |-> FALSE, worker |-> FALSE]
    BY <1>1, <1>2
  <2>2. \A i : i \notin DOMAIN queue'
    BY <1>1, <1>2
  <2>3. /\ writer' \in [open : BOOLEAN, closed : BOOLEAN, worker : BOOLEAN]
        /\ ~writer'.closed /\ (writer'.open <=> writer'.worker)
    <3>1. CASE writer' = [open |-> TRUE, closed |-> FALSE, worker |-> TRUE]
      BY <3>1
    <3>2. CASE writer' = [open |-> FALSE, closed |-> FALSE, worker |-> FALSE]
      BY <3>2
    <3> QED BY <2>1, <3>1, <3>2
  <2>4. life' = "building" /\ queue' = <<>>
    BY <1>1, <1>2
  <2> QED BY <2>2, <2>3, <2>4 DEF WriterFits
<1>5. Losses'
  <2>1. CASE writer' = [writer EXCEPT !.open = TRUE, !.worker = TRUE] /\ metrics' = metrics
    BY <1>1, <2>1, NothingLost
  <2>2. CASE writer' = writer /\ metrics' = Service!Counted(metrics, {"failure"})
    <3> DEFINE failed == Cardinality(Fated("failed"))
    <3>1. /\ Fated("dropped")' = Fated("dropped") /\ Fated("failed")' = Fated("failed")
      BY <1>1 DEF Fated
    <3>2. /\ metrics["failure"] = failed /\ metrics["failure"] \in Nat
          /\ Cardinality(Fated("dropped")) = metrics["dropped"]
          /\ IsFiniteSet(Fated("dropped")) /\ IsFiniteSet(Fated("failed"))
      BY <1>1 DEF TraceInv, Losses
    <3>3. metrics["dropped"] \in Nat
      BY <3>2, FS_CardinalityType
    <3>4. metrics'["failure"] = metrics["failure"] + 1 /\ metrics'["dropped"] = metrics["dropped"]
      BY <2>2, <3>2, <3>3, LossCounts DEF CountInv, CountTypes
    <3>5. life' # "off" /\ ~writer'.open
      BY <1>1, <1>2, <2>2
    <3> HIDE DEF failed
    <3>6. failed + 1 \in Nat /\ failed <= failed + 1 /\ failed + 1 <= failed + 1
      BY <3>2
    <3> QED BY <3>1, <3>2, <3>4, <3>5, <3>6 DEF Losses, failed
  <2> QED BY <1>1, <2>1, <2>2
<1> QED BY <1>3, <1>4, <1>5 DEF TraceInv

\* The lifespan moves on before it closes the writer.
LEMMA LifeKeepsTraces ==
  ASSUME TraceInv, UNCHANGED <<request, metrics, writer, queue, file, told, fate>>,
         life \in {"building", "serving", "stopping"}, life' \in {"serving", "stopping", "closing"}
  PROVE  TraceInv'
<1>1. WriterFits'
  BY DEF TraceInv, WriterFits
<1> QED BY <1>1, NothingTold, NothingLost DEF TraceInv

\* The end mark comes last.
LEMMA EndMarkKeepsTraces ==
  ASSUME TraceInv, UNCHANGED <<request, metrics, file, told, fate>>,
         queue' = Append(queue, "end"), life' = "joining", life \in {"closing", "waiting"},
         writer' = [writer EXCEPT !.closed = TRUE], writer.open
  PROVE  TraceInv'
<1>1. queue \in Seq(Received \cup {"end"})
  BY DEF TraceInv, InOrder
<1>2. /\ queue' \in Seq(Received \cup {"end"}) /\ Len(queue') = Len(queue) + 1 /\ Len(queue) \in Nat
      /\ DOMAIN queue = 1 .. Len(queue)
      /\ \A i \in DOMAIN queue : i \in DOMAIN queue' /\ queue'[i] = queue[i]
      /\ Len(queue) + 1 \in DOMAIN queue' /\ queue'[Len(queue) + 1] = "end"
      /\ \A i \in DOMAIN queue' : i \in DOMAIN queue \/ i = Len(queue) + 1
      /\ InQueue' = InQueue \cup ({"end"} \ {"end"})
  BY <1>1, QueueGrows
<1>3. \A i \in DOMAIN queue : queue[i] # "end"
  BY DEF TraceInv, WriterFits
<1>4. writer' = [open |-> TRUE, closed |-> TRUE, worker |-> TRUE]
  BY DEF TraceInv, WriterFits
<1>5. WriterFits'
  <2>1. \A i \in DOMAIN queue' : queue'[i] = "end" => i = Len(queue')
    BY <1>2, <1>3
  <2> QED BY <1>4, <2>1 DEF TraceInv, WriterFits
<1>6. InOrder'
  <2>1. \A j \in DOMAIN queue' : queue'[j] # "end" => j \in DOMAIN queue /\ queue'[j] = queue[j]
    BY <1>2
  <2>2. \A i, j \in DOMAIN queue' : i < j /\ queue'[j] # "end" => i \in DOMAIN queue /\ queue'[i] = queue[i]
    BY <1>2, <2>1
  <2> QED BY <1>2, <2>1, <2>2 DEF TraceInv, InOrder
<1>7. Fates'
  <2>1. InQueue' = InQueue /\ InFile' = InFile /\ ToldOf' = ToldOf /\ \A f : Fated(f)' = Fated(f)
    BY <1>2 DEF InFile, ToldOf, Fated
  <2> QED BY <1>4, <2>1 DEF TraceInv, Fates
<1>8. Losses'
  BY NothingLost
<1> QED BY <1>5, <1>6, <1>7, <1>8 DEF TraceInv

LEMMA CloseKeepsTraces == ASSUME TraceInv, Service!CloseWriter PROVE TraceInv'
<1>1. /\ life = "closing" /\ writer' = [writer EXCEPT !.closed = TRUE]
      /\ UNCHANGED <<engine, request, metrics, file, told, fate>>
      /\ CASE ~writer.open -> life' = "over" /\ queue' = queue
           [] writer.open /\ Len(queue) = QueueCapacity -> life' = "waiting" /\ queue' = queue
           [] OTHER -> life' = "joining" /\ queue' = Append(queue, "end")
  BY DEF Service!CloseWriter
<1>2. /\ writer'.closed /\ writer'.open = writer.open /\ writer'.worker = writer.worker
      /\ writer' \in [open : BOOLEAN, closed : BOOLEAN, worker : BOOLEAN]
  BY <1>1 DEF TraceInv, WriterFits
<1>3. CASE ~writer.open
  <2>1. life' = "over" /\ queue' = queue
    BY <1>1, <1>3
  <2>2. WriterFits'
    BY <1>1, <1>2, <1>3, <2>1 DEF TraceInv, WriterFits
  <2> QED BY <1>1, <1>2, <1>3, <2>1, <2>2, NothingTold, NothingLost DEF TraceInv
<1>4. CASE writer.open /\ Len(queue) = QueueCapacity
  <2>1. life' = "waiting" /\ queue' = queue
    BY <1>1, <1>4
  <2>2. WriterFits'
    BY <1>1, <1>2, <1>4, <2>1 DEF TraceInv, WriterFits
  <2> QED BY <1>1, <1>2, <1>4, <2>1, <2>2, NothingTold, NothingLost DEF TraceInv
<1>5. CASE writer.open /\ Len(queue) # QueueCapacity
  <2>1. life' = "joining" /\ queue' = Append(queue, "end")
    BY <1>1, <1>5
  <2> QED BY <1>1, <1>5, <2>1, EndMarkKeepsTraces
<1> QED BY <1>3, <1>4, <1>5

LEMMA WriterClosesKeepsTraces == ASSUME TraceInv, CountInv, Service!WriterCloses PROVE TraceInv'
<1>1. /\ life = "joining" /\ ~writer.worker /\ life' = "over"
      /\ writer' = [writer EXCEPT !.open = FALSE]
      /\ UNCHANGED <<engine, request, queue, file, told, fate>>
  BY DEF Service!WriterCloses
<1>2. /\ writer' = [open |-> FALSE, closed |-> TRUE, worker |-> FALSE] /\ queue = <<>> /\ writer.open
  BY <1>1 DEF TraceInv, WriterFits
<1>3. WriterFits'
  <2>1. \A i : i \notin DOMAIN queue'
    BY <1>1, <1>2
  <2>2. /\ writer' \in [open : BOOLEAN, closed : BOOLEAN, worker : BOOLEAN]
        /\ writer'.closed /\ ~writer'.open /\ ~writer'.worker
    BY <1>2
  <2>3. life' = "over" /\ queue' = <<>>
    BY <1>1, <1>2
  <2> QED BY <2>1, <2>2, <2>3 DEF WriterFits
<1>4. InOrder' /\ Fates'
  BY <1>1, <1>2, NothingTold
<1>5. Losses'
  <2> DEFINE failed == Cardinality(Fated("failed"))
  <2>1. Fated("dropped")' = Fated("dropped") /\ Fated("failed")' = Fated("failed")
    BY <1>1 DEF Fated
  <2>2. /\ metrics["failure"] = failed /\ metrics["failure"] \in Nat
        /\ Cardinality(Fated("dropped")) = metrics["dropped"]
        /\ IsFiniteSet(Fated("dropped")) /\ IsFiniteSet(Fated("failed"))
    BY <1>2 DEF TraceInv, Losses
  <2>3. metrics["dropped"] \in Nat
    BY <2>2, FS_CardinalityType
  <2>4. PICK counters \in {{"failure"}, {}} : metrics' = Service!Counted(metrics, counters)
    BY DEF Service!WriterCloses
  <2>5. DOMAIN metrics = Service!Counters /\ "dropped" \notin counters
    BY DEF CountInv, CountTypes
  <2>6. /\ metrics'["failure"] = metrics["failure"] + 1 \/ metrics'["failure"] = metrics["failure"]
        /\ metrics'["dropped"] = metrics["dropped"]
    BY <2>2, <2>3, <2>4, <2>5, LossCounts
  <2>7. life' # "off" /\ ~writer'.open
    BY <1>1, <1>2
  <2> HIDE DEF failed
  <2>8. /\ metrics'["failure"] \in Nat /\ failed <= metrics'["failure"] /\ metrics'["failure"] <= failed + 1
    BY <2>2, <2>6
  <2> QED BY <2>1, <2>2, <2>6, <2>7, <2>8 DEF Losses, failed
<1> QED BY <1>3, <1>4, <1>5 DEF TraceInv

\* The invariant of the traces is inductive, beside that of the counters.
LEMMA TraceNext == ASSUME CountInv, TraceInv, [Service!Next]_serviceVars PROVE TraceInv'
<1> USE DEF Service!Endings
<1>1. CASE UNCHANGED serviceVars
  BY <1>1 DEF serviceVars, TraceInv, WriterFits, InOrder, Fates, Losses, Fated, InQueue, InFile, ToldOf
<1>2. ASSUME NEW r \in Received, Service!Refuse(r) \/ Service!SearchEnds(r) PROVE TraceInv'
  <2>1. /\ UNCHANGED <<life, writer, queue, file, told, fate>> /\ metrics' = metrics
        /\ life = "serving" \/ request[r] = "searching"
    BY <1>2 DEF Service!Refuse, Service!SearchEnds, Service!Listening
  <2>2. life # "off"
    BY <2>1 DEF TraceInv, WriterFits
  <2> QED BY <2>1, <2>2, MovesKeepTraces
<1>3. ASSUME NEW r \in Received, Service!Invalid(r) PROVE TraceInv'
  <2>1. /\ life = "serving" /\ request[r] = "away" /\ Service!Tell(r, {"request", "error"})
        /\ UNCHANGED <<life, writer, file>>
    BY <1>3 DEF Service!Invalid, Service!Listening
  <2> QED BY <2>1, TellKeepsTraces
<1>4. ASSUME NEW r \in Received, Service!Search(r) PROVE TraceInv'
  <2>1. life = "serving" /\ request[r] = "away" /\ UNCHANGED <<life, writer, file>>
    BY <1>4 DEF Service!Search, Service!Listening
  <2>2. CASE engine
    <3>1. metrics' = Service!Counted(metrics, {"request"}) /\ UNCHANGED <<queue, told, fate>>
      BY <1>4, <2>2 DEF Service!Search
    <3>2. metrics["dropped"] \in Nat /\ metrics["failure"] \in Nat /\ DOMAIN metrics = Service!Counters
      BY FS_CardinalityType DEF TraceInv, Losses, CountInv, CountTypes
    <3>3. metrics'["dropped"] = metrics["dropped"] /\ metrics'["failure"] = metrics["failure"]
      BY <3>1, <3>2, LossCounts
    <3> QED BY <2>1, <3>1, <3>3, MovesKeepTraces
  <2>3. CASE ~engine
    <3>1. Service!Tell(r, {"request", "error"})
      BY <1>4, <2>3 DEF Service!Search
    <3> QED BY <2>1, <3>1, TellKeepsTraces
  <2> QED BY <2>2, <2>3
<1>5. ASSUME NEW r \in Received, Service!ReportEnd(r) PROVE TraceInv'
  <2>1. CASE request[r] \in {"complete", "partial", "error"}
    <3>1. PICK counters : counters = {request[r]}
      OBVIOUS
    <3>2. Service!Tell(r, counters) /\ UNCHANGED <<life, writer, file>>
      BY <1>5, <2>1, <3>1 DEF Service!ReportEnd
    <3>3. counters \cap {"dropped", "failure"} = {} /\ request[r] \notin {"away", "ended"}
      BY <2>1, <3>1
    <3> QED BY <3>2, <3>3, TellKeepsTraces
  <2>2. CASE request[r] = "cancelled"
    <3>1. UNCHANGED <<life, writer, queue, file, told, fate, metrics>>
      BY <1>5, <2>2 DEF Service!ReportEnd
    <3>2. life # "off"
      BY <2>2 DEF TraceInv, WriterFits
    <3> QED BY <3>1, <3>2, MovesKeepTraces
  <2> QED BY <1>5, <2>1, <2>2 DEF Service!ReportEnd
<1>6. CASE Service!WriterTurn
  BY <1>6, TurnKeepsTraces
<1>7. CASE Service!StartUp
  BY <1>7, StartKeepsTraces
<1>8. CASE Service!EngineBuilt \/ Service!BuildFails \/ Service!StopServing \/ Service!EngineCloses
  <2>1. /\ UNCHANGED <<request, metrics, writer, queue, file, told, fate>>
        /\ life \in {"building", "serving", "stopping"} /\ life' \in {"serving", "stopping", "closing"}
    BY <1>8 DEF Service!EngineBuilt, Service!BuildFails, Service!StopServing, Service!EngineCloses
  <2> QED BY <2>1, LifeKeepsTraces
<1>9. CASE Service!CloseWriter
  BY <1>9, CloseKeepsTraces
<1>10. CASE Service!EndMarkFits
  <2>1. /\ life = "waiting" /\ life' = "joining" /\ queue' = Append(queue, "end")
        /\ UNCHANGED <<request, metrics, writer, file, told, fate>>
    BY <1>10 DEF Service!EndMarkFits
  <2>2. writer.open /\ writer' = [writer EXCEPT !.closed = TRUE]
    BY <2>1 DEF TraceInv, WriterFits
  <2> QED BY <2>1, <2>2, EndMarkKeepsTraces
<1>11. CASE Service!WriterCloses
  BY <1>11, WriterClosesKeepsTraces
<1>12. CASE Service!Over
  BY <1>1, <1>12 DEF Service!Over, Service!vars, serviceVars
<1> QED BY <1>1, <1>2, <1>3, <1>4, <1>5, <1>6, <1>7, <1>8, <1>9, <1>10, <1>11, <1>12 DEF Service!Next

\* Every event the writer was told of is in the file, in the order in which it was told,
\* or in the queue, or counted as dropped or failed, or came while the writer was not
\* open; and when the lifespan is over none is in the queue (RedactedTraceWriter:
\* _enqueue, _run and close).
THEOREM TracesAreAccounted == MCSpec => []ServiceTraces
<1>1. MCInit => CountInv /\ TraceInv
  BY CountInit, TraceInit DEF MCInit
<1>2. CountInv /\ TraceInv /\ [MCNext]_allVars => (CountInv /\ TraceInv)'
  BY PartsMoveAlone, CountNext, TraceNext
<1>3. CountInv /\ TraceInv => ServiceTraces
  <2> SUFFICES ASSUME CountInv, TraceInv PROVE Service!TraceAccounted /\ Service!ClosedIsDrained
    BY DEF ServiceTraces
  <2>1. \A S : Service!Cardinality(S) = Cardinality(S)
    BY DEF Service!Cardinality, Cardinality
  <2>2. \A f : Service!WithFate(f) = Fated(f)
    BY DEF Service!WithFate, Fated
  <2>3. Service!Range(queue) \ {"end"} = InQueue /\ Service!Range(file) = InFile
    BY DEF Service!Range, InQueue, InFile
  <2>4. Service!TraceAccounted
    <3>1. \A i, j \in DOMAIN file : i < j => Service!ToldBefore(file[i], file[j])
      BY DEF TraceInv, InOrder, Before, Service!ToldBefore
    <3> QED BY <2>1, <2>2, <2>3, <3>1 DEF Service!TraceAccounted, TraceInv, Losses, Fates
  <2>5. Service!ClosedIsDrained
    <3>1. life = "over" => Fated("queued") = {} /\ ~writer.worker
      <4>1. life = "over" => ~writer.worker /\ queue = <<>>
        BY DEF TraceInv, WriterFits
      <4>2. queue = <<>> => InQueue = {}
        BY DEF InQueue
      <4> QED BY <4>1, <4>2 DEF TraceInv, Fates
    <3>2. \A i \in DOMAIN queue : queue[i] = "end" => i = Len(queue) /\ writer.closed
      BY DEF TraceInv, WriterFits
    <3> QED BY <2>2, <3>1, <3>2 DEF Service!ClosedIsDrained
  <2> QED BY <2>4, <2>5
<1> QED BY <1>1, <1>2, <1>3, PTL DEF MCSpec, allVars

----------------------------------------------------------------------------
(* The fusion of two branches.                                              *)

\* What the parts of a comparison of fractions need of multiplication.
LEMMA Doubled ==
  \A a, b \in Int : \A d \in Nat \ {0} : (a <= b <=> a * d <= b * d) /\ (a < b <=> a * d < b * d)
OBVIOUS

LEMMA Crossed ==
  \A a, b, c : a \in Int /\ b \in Int /\ c \in Int =>
    a * b \in Int /\ a * b = b * a /\ (a * b) * c = (a * c) * b /\ (a * b) * c = a * (b * c)
OBVIOUS

\* A fraction that is not lower than another one that is not lower than a third.
Fraction == [num : Nat, den : Nat \ {0}]

LEMMA NotLowerIsTransitive ==
  ASSUME NEW s \in Fraction, NEW t \in Fraction, NEW u \in Fraction,
         ~Merging!Higher(t, s), ~Merging!Higher(u, t)
  PROVE  /\ ~Merging!Higher(u, s)
         /\ Merging!Higher(s, t) \/ Merging!Higher(t, u) => Merging!Higher(s, u)
<1> DEFINE a == s.num
<1> DEFINE b == s.den
<1> DEFINE c == t.num
<1> DEFINE d == t.den
<1> DEFINE e == u.num
<1> DEFINE f == u.den
<1>1. a \in Int /\ b \in Nat \ {0} /\ c \in Int /\ d \in Nat \ {0} /\ e \in Int /\ f \in Nat \ {0}
  BY DEF Fraction
<1>2. a * d >= c * b /\ c * f >= e * d
  BY <1>1 DEF Merging!Higher
<1>3. Merging!Higher(s, t) <=> a * d > c * b
  BY DEF Merging!Higher
<1>4. Merging!Higher(t, u) <=> c * f > e * d
  BY DEF Merging!Higher
<1>5. Merging!Higher(s, u) <=> a * f > e * b
  BY DEF Merging!Higher
<1>6. Merging!Higher(u, s) <=> e * b > a * f
  BY DEF Merging!Higher
<1> HIDE DEF a, b, c, d, e, f
<1>7. a * d \in Int /\ c * b \in Int /\ c * f \in Int /\ e * d \in Int /\ a * f \in Int /\ e * b \in Int
  BY <1>1, Crossed
<1>8. /\ (a * d) * f >= (c * b) * f /\ (a * d > c * b => (a * d) * f > (c * b) * f)
      /\ (c * f) * b >= (e * d) * b /\ (c * f > e * d => (c * f) * b > (e * d) * b)
  BY <1>1, <1>2, <1>7, Doubled
<1>9. (a * d) * f = (a * f) * d /\ (c * b) * f = (c * f) * b /\ (e * d) * b = (e * b) * d
  BY <1>1, Crossed
<1>10. (a * f) * d >= (e * b) * d /\ (a * d > c * b \/ c * f > e * d => (a * f) * d > (e * b) * d)
  <2>1. (a * f) * d \in Int /\ (e * b) * d \in Int /\ (c * f) * b \in Int
    BY <1>1, <1>7, Crossed
  <2> QED BY <1>8, <1>9, <2>1
<1>11. a * f >= e * b /\ ((a * f) * d > (e * b) * d => a * f > e * b)
  BY <1>1, <1>7, <1>10, Doubled
<1> QED BY <1>3, <1>4, <1>5, <1>6, <1>7, <1>10, <1>11

\* A sum of fractions is higher when one of them is, and the other is not lower.
LEMMA SumIsHigher ==
  ASSUME NEW s \in Fraction, NEW t \in Fraction, NEW u \in Fraction, NEW v \in Fraction,
         ~Merging!Higher(u, s), ~Merging!Higher(v, t),
         Merging!Higher(s, u) \/ Merging!Higher(t, v)
  PROVE  Merging!Higher([num |-> s.num * t.den + t.num * s.den, den |-> s.den * t.den],
                        [num |-> u.num * v.den + v.num * u.den, den |-> u.den * v.den])
<1> DEFINE a == s.num
<1> DEFINE b == s.den
<1> DEFINE c == t.num
<1> DEFINE d == t.den
<1> DEFINE e == u.num
<1> DEFINE f == u.den
<1> DEFINE g == v.num
<1> DEFINE h == v.den
<1>1. /\ a \in Int /\ b \in Nat \ {0} /\ c \in Int /\ d \in Nat \ {0}
      /\ e \in Int /\ f \in Nat \ {0} /\ g \in Int /\ h \in Nat \ {0}
  BY DEF Fraction
<1>2. a * f >= e * b /\ c * h >= g * d /\ (a * f > e * b \/ c * h > g * d)
  BY <1>1 DEF Merging!Higher
<1>3. SUFFICES (a * d + c * b) * (f * h) > (e * h + g * f) * (b * d)
  BY DEF Merging!Higher
<1> HIDE DEF a, b, c, d, e, f, g, h
<1>4. /\ a * f \in Int /\ e * b \in Int /\ c * h \in Int /\ g * d \in Int
      /\ d * h \in Nat \ {0} /\ b * f \in Nat \ {0}
  BY <1>1
<1>5. /\ (a * f) * (d * h) >= (e * b) * (d * h) /\ (c * h) * (b * f) >= (g * d) * (b * f)
      /\ (a * f > e * b => (a * f) * (d * h) > (e * b) * (d * h))
      /\ (c * h > g * d => (c * h) * (b * f) > (g * d) * (b * f))
  BY <1>2, <1>4, Doubled
<1>6. (a * f) * (d * h) + (c * h) * (b * f) > (e * b) * (d * h) + (g * d) * (b * f)
  <2>1. /\ (a * f) * (d * h) \in Int /\ (e * b) * (d * h) \in Int
        /\ (c * h) * (b * f) \in Int /\ (g * d) * (b * f) \in Int
    BY <1>4
  <2> QED BY <1>2, <1>5, <2>1
<1>7. (a * d + c * b) * (f * h) = (a * f) * (d * h) + (c * h) * (b * f)
  BY <1>1
<1>8. (e * h + g * f) * (b * d) = (e * b) * (d * h) + (g * d) * (b * f)
  BY <1>1
<1> QED BY <1>6, <1>7, <1>8

----------------------------------------------------------------------------
\* What Init chose, which no step changes.
Given ==
  /\ branches \in [vector : BranchAnswers, graph : BranchAnswers, weight : Weights, topK : TopKs]
  /\ branches.vector.available \/ branches.graph.available

LEMMA ListsOfBranches ==
  ASSUME Given
  PROVE  /\ Merging!Vector \in Seq(Hits) /\ Merging!Graph \in Seq(Hits)
         /\ ~branches.vector.available => Merging!Vector = <<>>
         /\ ~branches.graph.available => Merging!Graph = <<>>
         /\ branches.weight \in Nat /\ Whole - branches.weight \in Nat
         /\ branches.topK \in Nat \ {0}
<1>1. branches.vector \in BranchAnswers /\ branches.graph \in BranchAnswers
  BY DEF Given
<1>2. branches.weight \in 0 .. Whole /\ Whole \in Nat /\ branches.topK \in Nat \ {0}
  BY FusionInputs DEF Given, FusionInputs
<1>3. branches.weight \in Nat /\ Whole - branches.weight \in Nat
  BY <1>2
<1> QED BY <1>1, <1>2, <1>3, FusionInputs DEF FusionInputs, Merging!Vector, Merging!Graph

\* Where a list has a chunk (_rank_of).
LEMMA RankOfAChunk ==
  ASSUME NEW hits \in Seq(Hits), NEW c \in Merging!ChunksOf(hits)
  PROVE  /\ Merging!RankOf(hits, c) \in 1 .. Len(hits)
         /\ hits[Merging!RankOf(hits, c)].chunk = c
         /\ Merging!Indexed(hits) =>
              \A i \in DOMAIN hits : hits[i].chunk = c => i = Merging!RankOf(hits, c)
<1>1. \E i \in DOMAIN hits : hits[i].chunk = c
  BY DEF Merging!ChunksOf
<1>2. Merging!RankOf(hits, c) \in DOMAIN hits /\ hits[Merging!RankOf(hits, c)].chunk = c
  BY <1>1 DEF Merging!RankOf
<1>3. DOMAIN hits = 1 .. Len(hits)
  OBVIOUS
<1> QED BY <1>2, <1>3 DEF Merging!Indexed

LEMMA ContributionIsFraction ==
  ASSUME NEW hits \in Seq(Hits), NEW w \in Nat, NEW c
  PROVE  Merging!Contribution(hits, w, c) \in Fraction
<1>1. CASE c \in Merging!ChunksOf(hits)
  <2>1. Merging!RankOf(hits, c) \in Nat
    BY <1>1, RankOfAChunk
  <2>2. Merging!RRF_K + Merging!RankOf(hits, c) \in Nat \ {0}
    BY <2>1 DEF Merging!RRF_K
  <2> QED BY <1>1, <2>2 DEF Merging!Contribution, Fraction
<1>2. CASE c \notin Merging!ChunksOf(hits)
  BY <1>2 DEF Merging!Contribution, Fraction
<1> QED BY <1>1, <1>2

LEMMA ScoreIsFraction ==
  ASSUME Given, NEW c
  PROVE  Merging!Score(c) \in Fraction
<1> DEFINE v == Merging!Contribution(Merging!Vector, branches.weight, c)
<1> DEFINE g == Merging!Contribution(Merging!Graph, Whole - branches.weight, c)
<1>1. v \in Fraction /\ g \in Fraction
  BY ListsOfBranches, ContributionIsFraction
<1>2. Merging!Score(c) = [num |-> v.num * g.den + g.num * v.den, den |-> v.den * g.den]
  BY DEF Merging!Score
<1> HIDE DEF v, g
<1>3. v.num \in Nat /\ v.den \in Nat \ {0} /\ g.num \in Nat /\ g.den \in Nat \ {0}
  BY <1>1 DEF Fraction
<1>4. v.num * g.den + g.num * v.den \in Nat /\ v.den * g.den \in Nat \ {0}
  BY <1>3
<1> QED BY <1>2, <1>4 DEF Fraction

\* What the fused list ranks.
LEMMA CandidatesAreNumbers ==
  ASSUME Given
  PROVE  Merging!Candidates \subseteq Int
BY ListsOfBranches, FusionInputs DEF FusionInputs, Merging!Candidates, Merging!ChunksOf

\* The key of the sort leaves no tie and no circle.
LEMMA BetterIsAnOrder ==
  ASSUME Given
  PROVE  /\ \A c \in Int : ~Merging!Better(c, c)
         /\ \A c, d \in Int : c # d => Merging!Better(c, d) \/ Merging!Better(d, c)
         /\ \A c, d, e \in Int : Merging!Better(c, d) /\ Merging!Better(d, e) => Merging!Better(c, e)
<1>1. \A c : ~Merging!Higher(Merging!Score(c), Merging!Score(c))
  <2> SUFFICES ASSUME NEW c PROVE ~Merging!Higher(Merging!Score(c), Merging!Score(c))
    OBVIOUS
  <2>1. Merging!Score(c).num \in Int /\ Merging!Score(c).den \in Int
    BY ScoreIsFraction DEF Fraction
  <2>2. Merging!Score(c).num * Merging!Score(c).den \in Int
    BY <2>1
  <2> QED BY <2>2 DEF Merging!Higher
<1>2. \A c, d : Merging!Higher(Merging!Score(c), Merging!Score(d)) =>
               ~Merging!Higher(Merging!Score(d), Merging!Score(c))
  <2> SUFFICES ASSUME NEW c, NEW d, Merging!Higher(Merging!Score(c), Merging!Score(d))
               PROVE  ~Merging!Higher(Merging!Score(d), Merging!Score(c))
    OBVIOUS
  <2>1. /\ Merging!Score(c).num \in Int /\ Merging!Score(c).den \in Int
        /\ Merging!Score(d).num \in Int /\ Merging!Score(d).den \in Int
    BY ScoreIsFraction DEF Fraction
  <2>2. Merging!Score(c).num * Merging!Score(d).den \in Int /\ Merging!Score(d).num * Merging!Score(c).den \in Int
    BY <2>1
  <2> QED BY <2>2 DEF Merging!Higher
<1>3. \A c \in Int : ~Merging!Better(c, c)
  BY <1>1 DEF Merging!Better
<1>4. \A c, d \in Int : c # d => Merging!Better(c, d) \/ Merging!Better(d, c)
  BY DEF Merging!Better
<1>5. ASSUME NEW c \in Int, NEW d \in Int, NEW e \in Int, Merging!Better(c, d), Merging!Better(d, e)
      PROVE  Merging!Better(c, e)
  <2>1. ~Merging!Higher(Merging!Score(d), Merging!Score(c)) /\ ~Merging!Higher(Merging!Score(e), Merging!Score(d))
    BY <1>2, <1>5 DEF Merging!Better
  <2>2. /\ ~Merging!Higher(Merging!Score(e), Merging!Score(c))
        /\ Merging!Higher(Merging!Score(c), Merging!Score(d)) \/ Merging!Higher(Merging!Score(d), Merging!Score(e))
             => Merging!Higher(Merging!Score(c), Merging!Score(e))
    <3>1. Merging!Score(c) \in Fraction /\ Merging!Score(d) \in Fraction /\ Merging!Score(e) \in Fraction
      BY ScoreIsFraction
    <3> QED BY <2>1, <3>1, NotLowerIsTransitive
  <2>3. CASE Merging!Higher(Merging!Score(c), Merging!Score(d)) \/ Merging!Higher(Merging!Score(d), Merging!Score(e))
    BY <2>2, <2>3 DEF Merging!Better
  <2>4. CASE c < d /\ d < e
    <3>1. c < e
      BY <2>4
    <3> QED BY <2>2, <3>1 DEF Merging!Better
  <2> QED BY <1>5, <2>3, <2>4 DEF Merging!Better
<1> QED BY <1>3, <1>4, <1>5

----------------------------------------------------------------------------
\* The lists of candidates by their standings.
Above(c) == {d \in Merging!Candidates : Merging!Better(d, c)}

LEMMA CandidatesAreFinite ==
  ASSUME Given
  PROVE  /\ \A hits \in {Merging!Vector, Merging!Graph} :
              /\ IsFiniteSet(Merging!ChunksOf(hits))
              /\ Merging!Indexed(hits) => Cardinality(Merging!ChunksOf(hits)) = Len(hits)
         /\ IsFiniteSet(Merging!Candidates)
<1>1. ASSUME NEW hits \in Seq(Hits)
      PROVE  /\ IsFiniteSet(Merging!ChunksOf(hits))
             /\ Merging!Indexed(hits) => Cardinality(Merging!ChunksOf(hits)) = Len(hits)
  <2> DEFINE place == [i \in 1 .. Len(hits) |-> hits[i].chunk]
  <2>1. DOMAIN hits = 1 .. Len(hits) /\ Len(hits) \in Nat
    OBVIOUS
  <2>2. place \in Surjection(1 .. Len(hits), Merging!ChunksOf(hits))
    BY <2>1 DEF Surjection, Merging!ChunksOf
  <2>3. IsFiniteSet(1 .. Len(hits)) /\ Cardinality(1 .. Len(hits)) = Len(hits)
    BY <2>1, FS_Interval
  <2>4. Merging!Indexed(hits) => place \in Injection(1 .. Len(hits), Merging!ChunksOf(hits))
    <3>1. place \in [1 .. Len(hits) -> Merging!ChunksOf(hits)]
      BY <2>2 DEF Surjection
    <3>2. Merging!Indexed(hits) => \A i, j \in 1 .. Len(hits) : place[i] = place[j] => i = j
      BY <2>1 DEF Merging!Indexed
    <3> HIDE DEF place
    <3> QED BY <3>1, <3>2 DEF Injection, IsInjective
  <2> HIDE DEF place
  <2> QED BY <2>2, <2>3, <2>4, FS_Surjection
<1>2. /\ IsFiniteSet(Merging!ChunksOf(Merging!Vector))
      /\ IsFiniteSet(Merging!ChunksOf(Merging!Graph))
  BY <1>1, ListsOfBranches
<1>3. IsFiniteSet(Merging!Candidates)
  BY <1>2, FS_Union DEF Merging!Candidates
<1> QED BY <1>1, <1>3, ListsOfBranches

\* No two candidates have as many above them.
LEMMA StandingsDiffer ==
  ASSUME Given, NEW c \in Merging!Candidates, NEW d \in Merging!Candidates
  PROVE  /\ Cardinality(Above(c)) \in 0 .. Cardinality(Merging!Candidates) - 1
         /\ Merging!Better(c, d) => Cardinality(Above(c)) < Cardinality(Above(d))
         /\ Cardinality(Above(c)) = Cardinality(Above(d)) => c = d
<1>1. IsFiniteSet(Merging!Candidates) /\ Merging!Candidates \subseteq Int
  BY CandidatesAreFinite, CandidatesAreNumbers
<1>2. \A x : IsFiniteSet(Above(x)) /\ Cardinality(Above(x)) \in Nat
  BY <1>1, FS_Subset, FS_CardinalityType DEF Above
<1>3. Cardinality(Above(c)) \in 0 .. Cardinality(Merging!Candidates) - 1
  <2>1. Above(c) \subseteq Merging!Candidates \ {c}
    BY <1>1, BetterIsAnOrder DEF Above
  <2>2. /\ IsFiniteSet(Merging!Candidates \ {c})
        /\ Cardinality(Merging!Candidates \ {c}) = Cardinality(Merging!Candidates) - 1
    BY <1>1, FS_RemoveElement
  <2>3. Cardinality(Above(c)) <= Cardinality(Merging!Candidates) - 1
    BY <2>1, <2>2, FS_Subset
  <2>4. Cardinality(Merging!Candidates) \in Nat
    BY <1>1, FS_CardinalityType
  <2> QED BY <1>2, <2>3, <2>4
<1>4. ASSUME NEW x \in Merging!Candidates, NEW y \in Merging!Candidates, Merging!Better(x, y)
      PROVE  Cardinality(Above(x)) < Cardinality(Above(y))
  <2>1. Above(x) \cup {x} \subseteq Above(y)
    BY <1>1, <1>4, BetterIsAnOrder DEF Above
  <2>2. x \notin Above(x)
    BY <1>1, BetterIsAnOrder DEF Above
  <2>3. Cardinality(Above(x) \cup {x}) = Cardinality(Above(x)) + 1
    BY <1>2, <2>2, FS_AddElement
  <2>4. Cardinality(Above(x) \cup {x}) <= Cardinality(Above(y))
    BY <1>2, <2>1, FS_Subset
  <2> QED BY <1>2, <2>3, <2>4
<1>5. Cardinality(Above(c)) = Cardinality(Above(d)) => c = d
  <2>1. c # d => Merging!Better(c, d) \/ Merging!Better(d, c)
    BY <1>1, BetterIsAnOrder
  <2> QED BY <1>2, <1>4, <2>1
<1> QED BY <1>3, <1>4, <1>5

\* So every place has its candidate.
LEMMA PlacesAreTaken ==
  ASSUME Given, NEW i \in 1 .. Cardinality(Merging!Candidates)
  PROVE  \E c \in Merging!Candidates : Cardinality(Above(c)) = i - 1
<1> DEFINE n == Cardinality(Merging!Candidates)
<1> DEFINE standing == [c \in Merging!Candidates |-> Cardinality(Above(c))]
<1>1. IsFiniteSet(Merging!Candidates) /\ n \in Nat
  BY CandidatesAreFinite, FS_CardinalityType
<1>2. IsFiniteSet(0 .. n - 1) /\ Cardinality(0 .. n - 1) = n
  <2> HIDE DEF n
  <2>1. 0 \in Int /\ n - 1 \in Int /\ (IF 0 > n - 1 THEN 0 ELSE n - 1 - 0 + 1) = n
    BY <1>1
  <2> QED BY <2>1, FS_Interval
<1>3. standing \in Injection(Merging!Candidates, 0 .. n - 1)
  <2>1. standing \in [Merging!Candidates -> 0 .. n - 1]
    BY StandingsDiffer
  <2>2. \A c, d \in Merging!Candidates : standing[c] = standing[d] => c = d
    BY StandingsDiffer
  <2> HIDE DEF standing, n
  <2> QED BY <2>1, <2>2 DEF Injection, IsInjective
<1>4. standing \in Surjection(Merging!Candidates, 0 .. n - 1)
  <2> HIDE DEF standing
  <2> QED BY <1>2, <1>3, FS_Injection
<1>5. i - 1 \in 0 .. n - 1
  BY <1>1
<1> QED BY <1>4, <1>5 DEF Surjection

\* The sort lists every candidate once, the better one first.
LEMMA SortListsAll ==
  ASSUME Given
  PROVE  LET list == Merging!Ordered(Merging!Candidates) IN
         /\ list \in [1 .. Cardinality(Merging!Candidates) -> Merging!Candidates]
         /\ \A i, j \in DOMAIN list : list[i] = list[j] => i = j
         /\ \A c \in Merging!Candidates : \E i \in DOMAIN list : list[i] = c
         /\ \A i, j \in DOMAIN list : Merging!Better(list[i], list[j]) => i < j
<1> DEFINE n == Cardinality(Merging!Candidates)
<1> DEFINE list == Merging!Ordered(Merging!Candidates)
<1>0. \A S : Merging!Cardinality(S) = Cardinality(S)
  BY DEF Merging!Cardinality, Cardinality
<1>1. list = [i \in 1 .. n |-> CHOOSE c \in Merging!Candidates :
                Merging!Cardinality({d \in Merging!Candidates : Merging!Better(d, c)}) = i - 1]
  BY <1>0 DEF Merging!Ordered
<1>2. n \in Nat
  BY CandidatesAreFinite, FS_CardinalityType
<1> HIDE DEF list
<1>3. \A i \in 1 .. n : list[i] \in Merging!Candidates /\ Cardinality(Above(list[i])) = i - 1
  <2> SUFFICES ASSUME NEW i \in 1 .. n
               PROVE  list[i] \in Merging!Candidates /\ Cardinality(Above(list[i])) = i - 1
    OBVIOUS
  <2>1. \E c \in Merging!Candidates :
          Merging!Cardinality({d \in Merging!Candidates : Merging!Better(d, c)}) = i - 1
    BY <1>0, PlacesAreTaken DEF Above
  <2>2. list[i] = CHOOSE c \in Merging!Candidates :
          Merging!Cardinality({d \in Merging!Candidates : Merging!Better(d, c)}) = i - 1
    BY <1>1
  <2>3. /\ list[i] \in Merging!Candidates
        /\ Merging!Cardinality({d \in Merging!Candidates : Merging!Better(d, list[i])}) = i - 1
    BY <2>1, <2>2
  <2> QED BY <1>0, <2>3 DEF Above
<1>4. list \in [1 .. n -> Merging!Candidates]
  BY <1>1, <1>3
<1>5. \A i, j \in 1 .. n : list[i] = list[j] => i = j
  <2> SUFFICES ASSUME NEW i \in 1 .. n, NEW j \in 1 .. n, list[i] = list[j] PROVE i = j
    OBVIOUS
  <2>1. i - 1 = j - 1
    BY <1>3
  <2> QED BY <1>2, <2>1
<1>6. \A c \in Merging!Candidates : \E i \in 1 .. n : list[i] = c
  <2> SUFFICES ASSUME NEW c \in Merging!Candidates PROVE \E i \in 1 .. n : list[i] = c
    OBVIOUS
  <2>1. Cardinality(Above(c)) \in 0 .. n - 1
    BY StandingsDiffer
  <2>2. PICK i \in 1 .. n : Cardinality(Above(c)) = i - 1
    <3>1. Cardinality(Above(c)) + 1 \in 1 .. n
      BY <1>2, <2>1
    <3>2. Cardinality(Above(c)) = (Cardinality(Above(c)) + 1) - 1
      BY <2>1
    <3> QED BY <3>1, <3>2
  <2> QED BY <1>3, <2>2, StandingsDiffer
<1>7. \A i, j \in 1 .. n : Merging!Better(list[i], list[j]) => i < j
  <2> SUFFICES ASSUME NEW i \in 1 .. n, NEW j \in 1 .. n, Merging!Better(list[i], list[j]) PROVE i < j
    OBVIOUS
  <2>1. i - 1 < j - 1
    BY <1>3, StandingsDiffer
  <2> QED BY <1>2, <2>1
<1>8. DOMAIN list = 1 .. n
  BY <1>4
<1> QED BY <1>4, <1>5, <1>6, <1>7, <1>8 DEF list

----------------------------------------------------------------------------
\* Who comes earlier in a list has no less from it, and more if the list counts.
LEMMA EarlierHasMore ==
  ASSUME NEW hits \in Seq(Hits), Merging!Indexed(hits), NEW w \in Nat, NEW c, NEW d
  PROVE  /\ ~Merging!Ahead(hits, d, c) =>
              ~Merging!Higher(Merging!Contribution(hits, w, d), Merging!Contribution(hits, w, c))
         /\ w > 0 /\ Merging!Ahead(hits, c, d) =>
              Merging!Higher(Merging!Contribution(hits, w, c), Merging!Contribution(hits, w, d))
<1> DEFINE rc == Merging!RankOf(hits, c)
<1> DEFINE rd == Merging!RankOf(hits, d)
<1>1. c \in Merging!ChunksOf(hits) =>
        /\ rc \in Nat /\ rc \in DOMAIN hits /\ \A i \in DOMAIN hits : hits[i].chunk = c <=> i = rc
        /\ Merging!Contribution(hits, w, c) = [num |-> w, den |-> 60 + rc]
  <2> SUFFICES ASSUME c \in Merging!ChunksOf(hits)
               PROVE  /\ rc \in Nat /\ rc \in DOMAIN hits /\ \A i \in DOMAIN hits : hits[i].chunk = c <=> i = rc
                      /\ Merging!Contribution(hits, w, c) = [num |-> w, den |-> 60 + rc]
    OBVIOUS
  <2>1. rc \in 1 .. Len(hits) /\ DOMAIN hits = 1 .. Len(hits)
    BY RankOfAChunk
  <2> QED BY <2>1, RankOfAChunk DEF Merging!Contribution, Merging!RRF_K
<1>2. d \in Merging!ChunksOf(hits) =>
        /\ rd \in Nat /\ rd \in DOMAIN hits /\ \A i \in DOMAIN hits : hits[i].chunk = d <=> i = rd
        /\ Merging!Contribution(hits, w, d) = [num |-> w, den |-> 60 + rd]
  <2> SUFFICES ASSUME d \in Merging!ChunksOf(hits)
               PROVE  /\ rd \in Nat /\ rd \in DOMAIN hits /\ \A i \in DOMAIN hits : hits[i].chunk = d <=> i = rd
                      /\ Merging!Contribution(hits, w, d) = [num |-> w, den |-> 60 + rd]
    OBVIOUS
  <2>1. rd \in 1 .. Len(hits) /\ DOMAIN hits = 1 .. Len(hits)
    BY RankOfAChunk
  <2> QED BY <2>1, RankOfAChunk DEF Merging!Contribution, Merging!RRF_K
<1>3. \A x : x \notin Merging!ChunksOf(hits) =>
        /\ Merging!Contribution(hits, w, x) = [num |-> 0, den |-> 1]
        /\ \A i \in DOMAIN hits : hits[i].chunk # x
  BY DEF Merging!Contribution, Merging!ChunksOf
<1>4. /\ Merging!Contribution(hits, w, c).num \in Nat /\ Merging!Contribution(hits, w, c).den \in Nat \ {0}
      /\ Merging!Contribution(hits, w, d).num \in Nat /\ Merging!Contribution(hits, w, d).den \in Nat \ {0}
  BY ContributionIsFraction DEF Fraction
<1> HIDE DEF rc, rd
<1>5. ASSUME ~Merging!Ahead(hits, d, c)
      PROVE  ~Merging!Higher(Merging!Contribution(hits, w, d), Merging!Contribution(hits, w, c))
  <2>1. CASE d \notin Merging!ChunksOf(hits)
    <3>1. Merging!Contribution(hits, w, d) = [num |-> 0, den |-> 1]
      BY <1>3, <2>1
    <3> QED BY <1>4, <3>1 DEF Merging!Higher
  <2>2. CASE d \in Merging!ChunksOf(hits)
    <3>1. PICK j \in DOMAIN hits : hits[j].chunk = c /\ ~(rd < j)
      BY <1>2, <1>5, <2>2 DEF Merging!Ahead
    <3>2. c \in Merging!ChunksOf(hits) /\ j = rc
      <4>1. c \in Merging!ChunksOf(hits)
        BY <3>1 DEF Merging!ChunksOf
      <4> QED BY <1>1, <3>1, <4>1
    <3>3. rc \in Nat /\ rd \in Nat /\ rc <= rd
      BY <1>1, <1>2, <2>2, <3>1, <3>2
    <3>4. w * (60 + rc) <= w * (60 + rd)
      BY <3>3
    <3>5. ~(w * (60 + rc) > w * (60 + rd))
      BY <3>3, <3>4
    <3> QED BY <1>1, <1>2, <2>2, <3>2, <3>5 DEF Merging!Higher
  <2> QED BY <2>1, <2>2
<1>6. ASSUME w > 0, Merging!Ahead(hits, c, d)
      PROVE  Merging!Higher(Merging!Contribution(hits, w, c), Merging!Contribution(hits, w, d))
  <2>1. PICK i \in DOMAIN hits : hits[i].chunk = c /\ \A j \in DOMAIN hits : hits[j].chunk = d => i < j
    BY <1>6 DEF Merging!Ahead
  <2>2. c \in Merging!ChunksOf(hits) /\ i = rc
    <3>1. c \in Merging!ChunksOf(hits)
      BY <2>1 DEF Merging!ChunksOf
    <3> QED BY <1>1, <2>1, <3>1
  <2>3. CASE d \notin Merging!ChunksOf(hits)
    <3>1. /\ Merging!Contribution(hits, w, d) = [num |-> 0, den |-> 1]
          /\ Merging!Contribution(hits, w, c) = [num |-> w, den |-> 60 + rc]
      BY <1>1, <1>3, <2>2, <2>3
    <3>2. rc \in Nat
      BY <1>1, <2>2
    <3>3. w * 1 > 0 * (60 + rc)
      BY <1>6, <3>2
    <3> QED BY <3>1, <3>3 DEF Merging!Higher
  <2>4. CASE d \in Merging!ChunksOf(hits)
    <3>1. rc \in Nat /\ rd \in Nat /\ rc < rd
      BY <1>1, <1>2, <2>1, <2>2, <2>4
    <3>2. w * (60 + rd) > w * (60 + rc)
      BY <1>6, <3>1
    <3> QED BY <1>1, <1>2, <2>2, <2>4, <3>2 DEF Merging!Higher
  <2> QED BY <2>3, <2>4
<1> QED BY <1>5, <1>6

\* What no branch speaks against and one that counts says.
Favoured(c, d) ==
  /\ \A hits \in {Merging!Vector, Merging!Graph} : ~Merging!Ahead(hits, d, c)
  /\ \E hits \in Merging!Counting : Merging!Ahead(hits, c, d)

LEMMA FavouredIsBetter ==
  ASSUME Given, Merging!Agree, branches.vector.available, branches.graph.available,
         NEW c, NEW d, Favoured(c, d)
  PROVE  Merging!Better(c, d)
<1> DEFINE s == Merging!Contribution(Merging!Vector, branches.weight, c)
<1> DEFINE t == Merging!Contribution(Merging!Graph, Whole - branches.weight, c)
<1> DEFINE u == Merging!Contribution(Merging!Vector, branches.weight, d)
<1> DEFINE v == Merging!Contribution(Merging!Graph, Whole - branches.weight, d)
<1>1. /\ Merging!Vector \in Seq(Hits) /\ Merging!Graph \in Seq(Hits)
      /\ branches.weight \in Nat /\ Whole - branches.weight \in Nat
  BY ListsOfBranches
<1>2. Merging!Indexed(Merging!Vector) /\ Merging!Indexed(Merging!Graph)
  BY DEF Merging!Agree
<1>3. s \in Fraction /\ t \in Fraction /\ u \in Fraction /\ v \in Fraction
  BY <1>1, ContributionIsFraction
<1>4. ~Merging!Higher(u, s) /\ ~Merging!Higher(v, t)
  BY <1>1, <1>2, EarlierHasMore DEF Favoured
<1>5. Merging!Higher(s, u) \/ Merging!Higher(t, v)
  <2>1. PICK hits \in Merging!Counting : Merging!Ahead(hits, c, d)
    BY DEF Favoured
  <2>2. \/ hits = Merging!Vector /\ branches.weight > 0
        \/ hits = Merging!Graph /\ branches.weight < Whole
    BY <2>1 DEF Merging!Counting
  <2>3. branches.weight < Whole => Whole - branches.weight > 0
    BY <1>1, FusionInputs DEF FusionInputs
  <2> QED BY <1>1, <1>2, <2>1, <2>2, <2>3, EarlierHasMore
<1>6. /\ Merging!Score(c) = [num |-> s.num * t.den + t.num * s.den, den |-> s.den * t.den]
      /\ Merging!Score(d) = [num |-> u.num * v.den + v.num * u.den, den |-> u.den * v.den]
  BY DEF Merging!Score
<1> HIDE DEF s, t, u, v
<1>7. Merging!Higher(Merging!Score(c), Merging!Score(d))
  BY <1>3, <1>4, <1>5, <1>6, SumIsHigher
<1> QED BY <1>7 DEF Merging!Better

\* The ranking is a list of all candidates, each once, in an order the branches favour.
RanksAll(list) ==
  /\ list \in [1 .. Cardinality(Merging!Candidates) -> Merging!Candidates]
  /\ \A i, j \in DOMAIN list : list[i] = list[j] => i = j
  /\ \A c \in Merging!Candidates : \E i \in DOMAIN list : list[i] = c
  /\ \A i, j \in DOMAIN list : Favoured(list[i], list[j]) => i < j

\* So does the list of a branch that is alone.
LEMMA AloneRanksAll ==
  ASSUME Given, NEW hits \in Seq(Hits), NEW other, Merging!Indexed(hits), other = <<>>,
         \/ Merging!Vector = hits /\ Merging!Graph = other
         \/ Merging!Vector = other /\ Merging!Graph = hits
  PROVE  RanksAll([i \in DOMAIN hits |-> hits[i].chunk])
<1> DEFINE list == [i \in DOMAIN hits |-> hits[i].chunk]
<1>1. DOMAIN hits = 1 .. Len(hits) /\ Len(hits) \in Nat
  OBVIOUS
<1>2. Merging!Candidates = Merging!ChunksOf(hits) /\ Cardinality(Merging!Candidates) = Len(hits)
  <2>1. Merging!ChunksOf(other) = {}
    BY DEF Merging!ChunksOf
  <2>2. Merging!Candidates = Merging!ChunksOf(hits)
    BY <2>1 DEF Merging!Candidates
  <2> QED BY <2>2, CandidatesAreFinite
<1>3. list \in [1 .. Len(hits) -> Merging!Candidates]
  BY <1>1, <1>2 DEF Merging!ChunksOf
<1>4. \A i, j \in DOMAIN list : list[i] = list[j] => i = j
  BY DEF Merging!Indexed
<1>5. \A c \in Merging!Candidates : \E i \in DOMAIN list : list[i] = c
  BY <1>2 DEF Merging!ChunksOf
<1>6. \A i, j \in DOMAIN list : Favoured(list[i], list[j]) => i < j
  <2> SUFFICES ASSUME NEW i \in DOMAIN hits, NEW j \in DOMAIN hits, Favoured(hits[i].chunk, hits[j].chunk)
               PROVE  i < j
    OBVIOUS
  <2>1. PICK h \in {hits, other} : Merging!Ahead(h, hits[i].chunk, hits[j].chunk)
    BY DEF Favoured, Merging!Counting
  <2>2. PICK k \in DOMAIN h : h[k].chunk = hits[i].chunk /\ \A l \in DOMAIN h : h[l].chunk = hits[j].chunk => k < l
    BY <2>1 DEF Merging!Ahead
  <2>3. h = hits
    BY <2>2
  <2>4. k = i
    BY <2>2, <2>3 DEF Merging!Indexed
  <2> QED BY <2>2, <2>3, <2>4
<1> HIDE DEF list
<1>7. RanksAll(list)
  BY <1>2, <1>3, <1>4, <1>5, <1>6 DEF RanksAll
<1> QED BY <1>7 DEF list

LEMMA RankingRanksAll ==
  ASSUME Given, Merging!Agree
  PROVE  RanksAll(Merging!Ranking)
<1>1. CASE ~branches.vector.available
  <2>1. Merging!Vector = <<>> /\ Merging!Graph \in Seq(Hits) /\ Merging!Indexed(Merging!Graph)
    BY <1>1, ListsOfBranches DEF Merging!Agree
  <2>2. RanksAll([i \in DOMAIN Merging!Graph |-> Merging!Graph[i].chunk])
    BY <2>1, AloneRanksAll
  <2> QED BY <1>1, <2>2 DEF Merging!Ranking
<1>2. CASE branches.vector.available /\ ~branches.graph.available
  <2>1. Merging!Graph = <<>> /\ Merging!Vector \in Seq(Hits) /\ Merging!Indexed(Merging!Vector)
    BY <1>2, ListsOfBranches DEF Merging!Agree
  <2>2. RanksAll([i \in DOMAIN Merging!Vector |-> Merging!Vector[i].chunk])
    BY <2>1, AloneRanksAll
  <2> QED BY <1>2, <2>2 DEF Merging!Ranking
<1>3. CASE branches.vector.available /\ branches.graph.available
  <2> DEFINE list == Merging!Ordered(Merging!Candidates)
  <2>1. Merging!Ranking = list
    BY <1>3 DEF Merging!Ranking
  <2>2. /\ list \in [1 .. Cardinality(Merging!Candidates) -> Merging!Candidates]
        /\ \A i, j \in DOMAIN list : list[i] = list[j] => i = j
        /\ \A c \in Merging!Candidates : \E i \in DOMAIN list : list[i] = c
        /\ \A i, j \in DOMAIN list : Merging!Better(list[i], list[j]) => i < j
    BY SortListsAll
  <2> HIDE DEF list
  <2>3. \A i, j \in DOMAIN list : Favoured(list[i], list[j]) => i < j
    BY <1>3, <2>2, FavouredIsBetter
  <2> QED BY <2>1, <2>2, <2>3 DEF RanksAll
<1> QED BY <1>1, <1>2, <1>3

----------------------------------------------------------------------------
\* The fused list, and how many chunks both branches have.
FusedList ==
  LET ranked == Merging!First(Merging!Ranking, branches.topK) IN
  [i \in DOMAIN ranked |-> Merging!Primary(ranked[i])]

Shared == Merging!ChunksOf(Merging!Vector) \cap Merging!ChunksOf(Merging!Graph)

\* Nothing is fused but two branches that agree.
FusionInv ==
  /\ Given
  /\ fused.at = "fused" =>
       Merging!Agree /\ fused.hits = FusedList /\ fused.duplicates = Merging!Cardinality(Shared)

\* _fused_hit: a hit of that chunk, from the branches, which say the same of it.
LEMMA PrimaryIsOfTheChunk ==
  ASSUME Given, Merging!Agree, NEW c \in Merging!Candidates
  PROVE  /\ Merging!Primary(c).chunk = c
         /\ \A hits \in {Merging!Vector, Merging!Graph} : \A j \in DOMAIN hits :
              hits[j].chunk = c => hits[j].text = Merging!Primary(c).text
<1>1. Merging!Vector \in Seq(Hits) /\ Merging!Graph \in Seq(Hits)
  BY ListsOfBranches
<1>2. Merging!Indexed(Merging!Vector) /\ Merging!Indexed(Merging!Graph) /\ Merging!Consistent
  BY DEF Merging!Agree
<1>3. \A hits \in {Merging!Vector, Merging!Graph} : c \in Merging!ChunksOf(hits) =>
        /\ Merging!HitOf(hits, c).chunk = c
        /\ \A j \in DOMAIN hits : hits[j].chunk = c => hits[j].text = Merging!HitOf(hits, c).text
  BY <1>1, <1>2, RankOfAChunk DEF Merging!HitOf
<1>4. \A hits \in {Merging!Vector, Merging!Graph} : c \notin Merging!ChunksOf(hits) =>
        \A j \in DOMAIN hits : hits[j].chunk # c
  BY DEF Merging!ChunksOf
<1>5. CASE c \in Merging!ChunksOf(Merging!Vector) /\ c \in Merging!ChunksOf(Merging!Graph)
  <2>1. Merging!HitOf(Merging!Vector, c).text = Merging!HitOf(Merging!Graph, c).text
    BY <1>2, <1>5 DEF Merging!Consistent
  <2> QED BY <1>3, <1>5, <2>1 DEF Merging!Primary
<1>6. CASE c \in Merging!ChunksOf(Merging!Vector) /\ c \notin Merging!ChunksOf(Merging!Graph)
  BY <1>3, <1>4, <1>6 DEF Merging!Primary
<1>7. CASE c \notin Merging!ChunksOf(Merging!Vector)
  <2>1. c \in Merging!ChunksOf(Merging!Graph)
    BY <1>7 DEF Merging!Candidates
  <2> QED BY <1>3, <1>4, <1>7, <2>1 DEF Merging!Primary
<1> QED BY <1>5, <1>6, <1>7

\* The list is cut, and says of every chunk what the branches say.
LEMMA FusedListIsCut ==
  ASSUME Given, Merging!Agree
  PROVE  LET n == Cardinality(Merging!Candidates)
             m == IF n < branches.topK THEN n ELSE branches.topK IN
         /\ n \in Nat /\ m \in 0 .. n /\ FusedList \in Seq({Merging!Primary(c) : c \in Merging!Candidates})
         /\ Len(FusedList) = m /\ DOMAIN FusedList = 1 .. m
         /\ \A i \in 1 .. m :
              /\ i \in DOMAIN Merging!Ranking /\ Merging!Ranking[i] \in Merging!Candidates
              /\ FusedList[i] = Merging!Primary(Merging!Ranking[i])
              /\ FusedList[i].chunk = Merging!Ranking[i]
<1> DEFINE n == Cardinality(Merging!Candidates)
<1> DEFINE m == IF n < branches.topK THEN n ELSE branches.topK
<1> DEFINE list == Merging!Ranking
<1>1. n \in Nat /\ branches.topK \in Nat
  BY CandidatesAreFinite, FS_CardinalityType, ListsOfBranches
<1>2. m \in 0 .. n
  BY <1>1
<1>3. list \in [1 .. n -> Merging!Candidates]
  BY RankingRanksAll DEF RanksAll
<1>4. list \in Seq(Merging!Candidates) /\ Len(list) = n
  <2> HIDE DEF list, n
  <2> QED BY <1>1, <1>3
<1>5. Merging!First(list, branches.topK) = SubSeq(list, 1, m)
  BY <1>4 DEF Merging!First
<1> HIDE DEF list
<1> DEFINE top == SubSeq(list, 1, m)
<1>6. /\ top \in Seq(Merging!Candidates) /\ Len(top) = m /\ DOMAIN top = 1 .. m
      /\ \A i \in 1 .. m : top[i] = list[i] /\ i \in DOMAIN list /\ list[i] \in Merging!Candidates
  <2> HIDE DEF n, m
  <2>1. \A i \in 1 .. m : i \in 1 .. n
    BY <1>1, <1>2
  <2>2. \A i \in 1 .. m : i \in DOMAIN list /\ list[i] \in Merging!Candidates
    BY <1>3, <2>1
  <2>3. top \in Seq(Merging!Candidates) /\ Len(top) = m /\ \A i \in 1 .. m : top[i] = list[i]
    BY <1>1, <1>2, <1>3, <1>4, <2>1
  <2> QED BY <2>2, <2>3
<1>7. FusedList = [i \in DOMAIN top |-> Merging!Primary(top[i])]
  BY <1>5 DEF FusedList, list
<1> HIDE DEF top
<1>8. \A i \in 1 .. m : FusedList[i] = Merging!Primary(list[i]) /\ FusedList[i].chunk = list[i]
  BY <1>6, <1>7, PrimaryIsOfTheChunk
<1>9. /\ FusedList \in Seq({Merging!Primary(c) : c \in Merging!Candidates})
      /\ Len(FusedList) = m /\ DOMAIN FusedList = 1 .. m
  <2> HIDE DEF m
  <2>1. m \in Nat
    BY <1>1, <1>2
  <2>2. FusedList \in [1 .. m -> {Merging!Primary(c) : c \in Merging!Candidates}]
    BY <1>6, <1>7
  <2> HIDE DEF FusedList
  <2> QED BY <2>1, <2>2
<1> QED BY <1>1, <1>2, <1>6, <1>8, <1>9 DEF list

LEMMA FusionKeepsOrder ==
  ASSUME FusionInv, fused.at = "fused"
  PROVE  Merging!OrderKept
<1> DEFINE n == Cardinality(Merging!Candidates)
<1> DEFINE m == IF n < branches.topK THEN n ELSE branches.topK
<1> DEFINE list == Merging!Ranking
<1>1. Given /\ Merging!Agree /\ fused.hits = FusedList
  BY DEF FusionInv
<1>2. /\ n \in Nat /\ m \in 0 .. n
      /\ Len(fused.hits) = m /\ DOMAIN fused.hits = 1 .. m
      /\ \A i \in 1 .. m : i \in DOMAIN list /\ list[i] \in Merging!Candidates /\ fused.hits[i].chunk = list[i]
  BY <1>1, FusedListIsCut
<1>3. /\ DOMAIN list = 1 .. n
      /\ \A i, j \in DOMAIN list : list[i] = list[j] => i = j
      /\ \A c \in Merging!Candidates : \E i \in DOMAIN list : list[i] = c
      /\ \A i, j \in DOMAIN list : Favoured(list[i], list[j]) => i < j
  BY <1>1, RankingRanksAll DEF RanksAll
<1>4. Merging!Cardinality(Merging!Candidates) = n
  BY DEF Merging!Cardinality, Cardinality
<1> HIDE DEF list, n
<1>5. Merging!Indexed(fused.hits)
  BY <1>2, <1>3 DEF Merging!Indexed
<1>6. Merging!ChunksOf(fused.hits) \subseteq Merging!Candidates
  BY <1>2 DEF Merging!ChunksOf
<1>7. ASSUME NEW c \in Merging!Candidates, NEW d \in Merging!ChunksOf(fused.hits), Favoured(c, d)
      PROVE  Merging!Ahead(fused.hits, c, d)
  <2>1. PICK j \in 1 .. m : d = list[j] /\ j \in DOMAIN list
    BY <1>2 DEF Merging!ChunksOf
  <2>2. PICK i \in DOMAIN list : list[i] = c
    BY <1>3
  <2>3. i < j
    BY <1>3, <1>7, <2>1, <2>2
  <2>4. i \in 1 .. m
    <3> HIDE DEF m
    <3> QED BY <1>2, <1>3, <2>1, <2>2, <2>3
  <2>5. \A k \in 1 .. m : fused.hits[k].chunk = d => k = j
    BY <1>2, <1>3, <2>1
  <2>6. fused.hits[i].chunk = c
    BY <1>2, <2>2, <2>4
  <2> QED BY <1>2, <2>3, <2>4, <2>5, <2>6 DEF Merging!Ahead
<1>8. Len(fused.hits) = IF Merging!Cardinality(Merging!Candidates) < branches.topK
                        THEN Merging!Cardinality(Merging!Candidates) ELSE branches.topK
  BY <1>2, <1>4
<1> QED BY <1>5, <1>6, <1>7, <1>8 DEF Merging!OrderKept, Favoured

LEMMA FusionKeepsEvidence ==
  ASSUME FusionInv, fused.at = "fused"
  PROVE  Merging!EvidenceKept
<1>1. Given /\ Merging!Agree /\ fused.hits = FusedList
  BY DEF FusionInv
<1>2. \A i \in DOMAIN fused.hits :
        /\ Merging!Ranking[i] \in Merging!Candidates
        /\ fused.hits[i] = Merging!Primary(Merging!Ranking[i]) /\ fused.hits[i].chunk = Merging!Ranking[i]
  BY <1>1, FusedListIsCut
<1> QED BY <1>1, <1>2, PrimaryIsOfTheChunk DEF Merging!EvidenceKept

LEMMA FusionCountsFit ==
  ASSUME FusionInv, fused.at = "fused"
  PROVE  Merging!CountsFit
<1> DEFINE v == Merging!ChunksOf(Merging!Vector)
<1> DEFINE g == Merging!ChunksOf(Merging!Graph)
<1>1. Given /\ Merging!Agree /\ fused.hits = FusedList /\ fused.duplicates = Cardinality(Shared)
  <2>1. Merging!Cardinality(Shared) = Cardinality(Shared)
    BY DEF Merging!Cardinality, Cardinality
  <2> QED BY <2>1 DEF FusionInv
<1>2. /\ IsFiniteSet(v) /\ Cardinality(v) = Len(Merging!Vector)
      /\ IsFiniteSet(g) /\ Cardinality(g) = Len(Merging!Graph)
  BY <1>1, CandidatesAreFinite DEF Merging!Agree
<1>3. Shared = v \cap g /\ Merging!Candidates = v \cup g
  BY DEF Shared, Merging!Candidates
<1> HIDE DEF v, g
<1>4. Cardinality(Shared) <= Cardinality(v) /\ Cardinality(Shared) <= Cardinality(g) /\ Cardinality(Shared) \in Nat
  <2>1. Shared \subseteq v /\ Shared \subseteq g
    BY <1>3
  <2> QED BY <1>2, <2>1, FS_Subset, FS_CardinalityType
<1>5. Cardinality(Merging!Candidates) = Cardinality(v) + Cardinality(g) - Cardinality(Shared)
  BY <1>2, <1>3, FS_Union
<1>6. Cardinality(Merging!Candidates) \in Nat /\ Len(fused.hits) \in 0 .. Cardinality(Merging!Candidates)
  BY <1>1, FusedListIsCut
<1>7. Len(fused.hits) <= Cardinality(Merging!Candidates)
  BY <1>6
<1> QED BY <1>1, <1>2, <1>4, <1>5, <1>7 DEF Merging!CountsFit

LEMMA FusionNext == FusionInv /\ [Merging!Next]_mergingVars => FusionInv'
<1> SUFFICES ASSUME FusionInv, [Merging!Next]_mergingVars PROVE FusionInv'
  OBVIOUS
<1>1. branches' = branches
  BY DEF Merging!Next, Merging!Fuse, Merging!Refuse, Merging!Answered, Merging!vars, mergingVars
<1>2. Given'
  BY <1>1 DEF FusionInv, Given
<1>3. Merging!Vector' = Merging!Vector /\ Merging!Graph' = Merging!Graph
  BY <1>1 DEF Merging!Vector, Merging!Graph
<1>4. Merging!Agree' = Merging!Agree /\ Shared' = Shared
  BY <1>3 DEF Merging!Agree, Merging!Consistent, Shared
<1>5. FusedList' = FusedList
  <2>1. \A c : Merging!Primary(c)' = Merging!Primary(c) /\ Merging!Score(c)' = Merging!Score(c)
    BY <1>1, <1>3 DEF Merging!Primary, Merging!Score
  <2>2. Merging!Ranking' = Merging!Ranking
    BY <1>1, <1>3, <2>1 DEF Merging!Ranking, Merging!Ordered, Merging!Candidates, Merging!Better, Merging!Score
  <2> QED BY <1>1, <1>3, <2>1, <2>2 DEF FusedList, Merging!Primary
<1>6. fused'.at = "fused" =>
        Merging!Agree /\ fused'.hits = FusedList /\ fused'.duplicates = Merging!Cardinality(Shared)
  <2>1. CASE Merging!Fuse
    BY <2>1 DEF Merging!Fuse, FusedList, Shared
  <2>2. CASE Merging!Refuse
    BY <2>2 DEF Merging!Refuse
  <2>3. CASE Merging!Answered \/ UNCHANGED mergingVars
    BY <2>3 DEF FusionInv, Merging!Answered, Merging!vars, mergingVars
  <2> QED BY <2>1, <2>2, <2>3 DEF Merging!Next
<1>7. Merging!Cardinality(Shared)' = Merging!Cardinality(Shared)
  BY <1>4 DEF Merging!Cardinality
<1> QED BY <1>2, <1>4, <1>5, <1>6, <1>7 DEF FusionInv

\* The fused list is of the branches' chunks, each once, in an order no branch speaks
\* against, with what the branches say of them, and its counts pass FusionTrace: for any
\* hits, weights and numbers of results (weighted_rrf_v1).
THEOREM FusionKeepsBranches == MCSpec => []FusedInOrder
<1> DEFINE Inv == part = "fusion" => FusionInv
<1>1. MCInit => Inv
  <2>1. MCInit /\ part = "fusion" => Merging!Init
    BY DEF MCInit
  <2>2. Merging!Init => Given /\ fused.at = "branches"
    BY DEF Merging!Init, Given
  <2> QED BY <2>1, <2>2 DEF FusionInv
<1>2. Inv /\ [MCNext]_allVars => Inv'
  BY PartsMoveAlone, FusionNext
<1>3. Inv => FusedInOrder
  BY FusionKeepsOrder, FusionKeepsEvidence, FusionCountsFit
  DEF FusedInOrder, Merging!FusionRespectsBranches
<1> HIDE DEF Inv
<1> QED BY <1>1, <1>2, <1>3, PTL DEF MCSpec, allVars

----------------------------------------------------------------------------
(* The search of the graph.                                                 *)

LEMMA LeastNumber ==
  ASSUME NEW T \in SUBSET Nat, T # {}
  PROVE  \E n \in T : \A m \in T : n <= m
<1>1. PICK n \in T : \A m \in T : ~ (<<m, n>> \in OpToRel(<, Nat))
  BY WFMin, NatLessThanWellFounded
<1>2. \A m \in T : ~ (m < n)
  BY <1>1 DEF OpToRel
<1> QED BY <1>2

\* Tuples of numbers are in a strict order.
LEMMA LessIsAnOrder ==
  /\ \A s \in Seq(Int) : ~Graph!Less(s, s)
  /\ \A s, t \in Seq(Int) : s # t => Graph!Less(s, t) \/ Graph!Less(t, s)
  /\ \A s, t, u \in Seq(Int) : Graph!Less(s, t) /\ Graph!Less(t, u) => Graph!Less(s, u)
<1>1. ASSUME NEW s \in Seq(Int) PROVE ~Graph!Less(s, s)
  <2>1. \A n \in DOMAIN s : ~(s[n] < s[n])
    BY <1>1
  <2> QED BY <2>1 DEF Graph!Less
<1>2. ASSUME NEW s \in Seq(Int), NEW t \in Seq(Int), s # t
      PROVE  Graph!Less(s, t) \/ Graph!Less(t, s)
  <2> DEFINE D == {n \in DOMAIN s \cup DOMAIN t : n \in DOMAIN s /\ n \in DOMAIN t => s[n] # t[n]}
  <2>1. D # {}
    <3> SUFFICES ASSUME D = {} PROVE FALSE
      OBVIOUS
    <3>1. DOMAIN s = DOMAIN t /\ \A n \in DOMAIN s : s[n] = t[n]
      OBVIOUS
    <3> QED BY <1>2, <3>1
  <2>2. D \in SUBSET Nat
    OBVIOUS
  <2>3. PICK n \in D : \A m \in D : n <= m
    BY <2>1, <2>2, LeastNumber
  <2>4. n \in Nat /\ n >= 1 /\ (n \in DOMAIN s \/ n \in DOMAIN t)
    OBVIOUS
  <2>5. \A i \in 1 .. n - 1 : i \in DOMAIN s \cup DOMAIN t /\ i \notin D
    BY <2>3, <2>4
  <2>6. \A i \in 1 .. n - 1 : i \in DOMAIN s /\ i \in DOMAIN t /\ s[i] = t[i]
    BY <2>5
  <2>7. CASE n \in DOMAIN s /\ n \in DOMAIN t
    <3>1. s[n] \in Int /\ t[n] \in Int /\ s[n] # t[n]
      BY <2>7
    <3>2. s[n] < t[n] \/ t[n] < s[n]
      BY <3>1
    <3>3. /\ \A i \in 1 .. n - 1 : i \in DOMAIN s /\ s[i] = t[i]
          /\ \A i \in 1 .. n - 1 : i \in DOMAIN t /\ t[i] = s[i]
      BY <2>6
    <3> QED BY <2>7, <3>2, <3>3 DEF Graph!Less
  <2>8. CASE n \in DOMAIN s /\ n \notin DOMAIN t
    <3>1. \A i \in 1 .. n - 1 : i \in DOMAIN t /\ t[i] = s[i]
      BY <2>6
    <3> QED BY <2>8, <3>1 DEF Graph!Less
  <2>9. CASE n \notin DOMAIN s /\ n \in DOMAIN t
    <3>1. \A i \in 1 .. n - 1 : i \in DOMAIN s /\ s[i] = t[i]
      BY <2>6
    <3> QED BY <2>9, <3>1 DEF Graph!Less
  <2> QED BY <2>4, <2>7, <2>8, <2>9
<1>3. ASSUME NEW s \in Seq(Int), NEW t \in Seq(Int), NEW u \in Seq(Int), Graph!Less(s, t), Graph!Less(t, u)
      PROVE  Graph!Less(s, u)
  <2>1. PICK n \in DOMAIN t : /\ \A i \in 1 .. n - 1 : i \in DOMAIN s /\ s[i] = t[i]
                              /\ n \in DOMAIN s => s[n] < t[n]
    BY <1>3 DEF Graph!Less
  <2>2. PICK m \in DOMAIN u : /\ \A i \in 1 .. m - 1 : i \in DOMAIN t /\ t[i] = u[i]
                              /\ m \in DOMAIN t => t[m] < u[m]
    BY <1>3 DEF Graph!Less
  <2>3. n \in Nat /\ n >= 1 /\ m \in Nat /\ m >= 1 /\ DOMAIN u = 1 .. Len(u) /\ m <= Len(u)
    OBVIOUS
  <2>4. CASE n < m
    <3> DEFINE l == Len(u)
    <3>1. l \in Nat /\ DOMAIN u = 1 .. l /\ m <= l
      BY <2>3
    <3> HIDE DEF l
    <3>2. n \in 1 .. l /\ n \in 1 .. m - 1
      BY <2>3, <2>4, <3>1
    <3>3. n \in DOMAIN u /\ n \in 1 .. m - 1 /\ \A i \in 1 .. n - 1 : i \in 1 .. m - 1
      BY <3>1, <3>2
    <3>4. \A i \in 1 .. n - 1 : i \in DOMAIN s /\ s[i] = u[i]
      <4> SUFFICES ASSUME NEW i \in 1 .. n - 1 PROVE i \in DOMAIN s /\ s[i] = u[i]
        OBVIOUS
      <4>1. i \in DOMAIN s /\ s[i] = t[i]
        BY <2>1
      <4>2. t[i] = u[i]
        BY <2>2, <3>3
      <4> QED BY <4>1, <4>2
    <3>5. n \in DOMAIN s => s[n] < u[n]
      BY <2>1, <2>2, <3>3
    <3> QED BY <3>3, <3>4, <3>5 DEF Graph!Less
  <2>5. CASE m < n
    <3>1. m \in 1 .. n - 1 /\ \A i \in 1 .. m - 1 : i \in 1 .. n - 1
      BY <2>3, <2>5
    <3>2. \A i \in 1 .. m - 1 : i \in DOMAIN s /\ s[i] = u[i]
      <4> SUFFICES ASSUME NEW i \in 1 .. m - 1 PROVE i \in DOMAIN s /\ s[i] = u[i]
        OBVIOUS
      <4>1. i \in DOMAIN s /\ s[i] = t[i]
        BY <2>1, <3>1
      <4>2. t[i] = u[i]
        BY <2>2
      <4> QED BY <4>1, <4>2
    <3>3. m \in DOMAIN s /\ s[m] = t[m] /\ (m \in DOMAIN t => t[m] < u[m])
      BY <2>1, <2>2, <3>1
    <3>4. m \in DOMAIN t
      BY <2>3, <2>5
    <3>5. s[m] < u[m]
      BY <3>3, <3>4
    <3> QED BY <3>2, <3>5 DEF Graph!Less
  <2>6. CASE m = n
    <3>1. \A i \in 1 .. n - 1 : i \in DOMAIN s /\ s[i] = u[i]
      <4> SUFFICES ASSUME NEW i \in 1 .. n - 1 PROVE i \in DOMAIN s /\ s[i] = u[i]
        OBVIOUS
      <4>1. i \in DOMAIN s /\ s[i] = t[i]
        BY <2>1
      <4>2. t[i] = u[i]
        BY <2>2, <2>6
      <4> QED BY <4>1, <4>2
    <3>2. n \in DOMAIN s => s[n] < u[n]
      <4> SUFFICES ASSUME n \in DOMAIN s PROVE s[n] < u[n]
        OBVIOUS
      <4>1. n \in DOMAIN t /\ n \in DOMAIN u
        BY <2>6
      <4>2. s[n] < t[n]
        BY <2>1
      <4>3. t[n] < u[n]
        BY <2>2, <2>6, <4>1
      <4>4. s[n] \in Int /\ t[n] \in Int /\ u[n] \in Int
        BY <4>1
      <4>5. \A x, y, z \in Int : x < y /\ y < z => x < z
        OBVIOUS
      <4> QED BY <4>2, <4>3, <4>4, <4>5
    <3> QED BY <2>6, <3>1, <3>2 DEF Graph!Less
  <2> QED BY <2>3, <2>4, <2>5, <2>6
<1> QED BY <1>1, <1>2, <1>3

\* The standings of a finite set whose elements know what is above them.
LEMMA Standings ==
  ASSUME NEW S, IsFiniteSet(S), NEW above \in [S -> SUBSET S],
         \A x \in S : x \notin above[x],
         \A x, y \in S : y \in above[x] => above[y] \subseteq above[x],
         \A x, y \in S : x # y => x \in above[y] \/ y \in above[x]
  PROVE  /\ Cardinality(S) \in Nat
         /\ \A x, y \in S : y \in above[x] => Cardinality(above[y]) < Cardinality(above[x])
         /\ \A x, y \in S : Cardinality(above[x]) = Cardinality(above[y]) => x = y
         /\ \A x \in S : Cardinality(above[x]) \in 0 .. Cardinality(S) - 1
         /\ \A i \in 1 .. Cardinality(S) : \E x \in S : Cardinality(above[x]) = i - 1
<1> DEFINE n == Cardinality(S)
<1>1. n \in Nat
  BY FS_CardinalityType
<1>2. \A x \in S : IsFiniteSet(above[x]) /\ Cardinality(above[x]) \in Nat
  BY FS_Subset, FS_CardinalityType
<1>3. ASSUME NEW x \in S PROVE Cardinality(above[x]) \in 0 .. n - 1
  <2>1. above[x] \subseteq S \ {x}
    OBVIOUS
  <2>2. IsFiniteSet(S \ {x}) /\ Cardinality(S \ {x}) = n - 1
    BY FS_RemoveElement
  <2>3. Cardinality(above[x]) <= n - 1
    BY <2>1, <2>2, FS_Subset
  <2> HIDE DEF n
  <2> QED BY <1>1, <1>2, <2>3
<1>4. ASSUME NEW x \in S, NEW y \in S, y \in above[x]
      PROVE  Cardinality(above[y]) < Cardinality(above[x])
  <2>1. above[y] \cup {y} \subseteq above[x] /\ y \notin above[y]
    BY <1>4
  <2>2. Cardinality(above[y] \cup {y}) = Cardinality(above[y]) + 1
    BY <1>2, <2>1, FS_AddElement
  <2>3. Cardinality(above[y] \cup {y}) <= Cardinality(above[x])
    BY <1>2, <2>1, FS_Subset
  <2> QED BY <1>2, <2>2, <2>3
<1>5. ASSUME NEW x \in S, NEW y \in S, Cardinality(above[x]) = Cardinality(above[y]) PROVE x = y
  <2>1. x # y => Cardinality(above[x]) < Cardinality(above[y]) \/ Cardinality(above[y]) < Cardinality(above[x])
    BY <1>4
  <2> QED BY <1>2, <1>5, <2>1
<1>6. ASSUME NEW i \in 1 .. n PROVE \E x \in S : Cardinality(above[x]) = i - 1
  <2> DEFINE standing == [x \in S |-> Cardinality(above[x])]
  <2>1. standing \in [S -> 0 .. n - 1] /\ \A x, y \in S : standing[x] = standing[y] => x = y
    BY <1>3, <1>5
  <2>2. 0 \in Int /\ n - 1 \in Int /\ (IF 0 > n - 1 THEN 0 ELSE n - 1 - 0 + 1) = n
    <3> HIDE DEF n
    <3> QED BY <1>1
  <2>3. IsFiniteSet(0 .. n - 1) /\ Cardinality(0 .. n - 1) = n
    <3> HIDE DEF n
    <3> QED BY <2>2, FS_Interval
  <2>4. standing \in Injection(S, 0 .. n - 1)
    <3> HIDE DEF standing, n
    <3> QED BY <2>1 DEF Injection, IsInjective
  <2>5. standing \in Surjection(S, 0 .. n - 1)
    <3> HIDE DEF standing
    <3> QED BY <2>3, <2>4, FS_Injection
  <2>6. i - 1 \in 0 .. n - 1
    <3> HIDE DEF n
    <3> QED BY <1>1
  <2> QED BY <2>5, <2>6 DEF Surjection
<1> QED BY <1>1, <1>3, <1>4, <1>5, <1>6

\* A sorted list has every element once, the ones with lesser keys first.
SortedBy(list, S, key) ==
  /\ Cardinality(S) \in Nat /\ list \in [1 .. Cardinality(S) -> S]
  /\ list \in Seq(S) /\ Len(list) = Cardinality(S)
  /\ \A i, j \in DOMAIN list : list[i] = list[j] => i = j
  /\ \A x \in S : \E i \in DOMAIN list : list[i] = x
  /\ \A i, j \in DOMAIN list : Graph!Less(key[list[i]], key[list[j]]) => i < j

LEMMA SortedLists ==
  ASSUME NEW S, IsFiniteSet(S), NEW key,
         \A x \in S : key[x] \in Seq(Int),
         \A x, y \in S : key[x] = key[y] => x = y
  PROVE  SortedBy(Graph!Sorted(S, key), S, key)
<1> DEFINE n == Cardinality(S)
<1> DEFINE list == Graph!Sorted(S, key)
<1> DEFINE above == [x \in S |-> {y \in S : Graph!Less(key[y], key[x])}]
<1>1. /\ n \in Nat
      /\ \A x, y \in S : y \in above[x] => Cardinality(above[y]) < Cardinality(above[x])
      /\ \A x, y \in S : Cardinality(above[x]) = Cardinality(above[y]) => x = y
      /\ \A x \in S : Cardinality(above[x]) \in 0 .. n - 1
      /\ \A i \in 1 .. n : \E x \in S : Cardinality(above[x]) = i - 1
  <2>1. above \in [S -> SUBSET S]
    OBVIOUS
  <2>2. \A x \in S : x \notin above[x]
    BY LessIsAnOrder
  <2>3. \A x, y \in S : y \in above[x] => above[y] \subseteq above[x]
    <3> SUFFICES ASSUME NEW x \in S, NEW y \in S, y \in above[x], NEW z \in above[y] PROVE z \in above[x]
      OBVIOUS
    <3>1. Graph!Less(key[y], key[x]) /\ Graph!Less(key[z], key[y]) /\ z \in S
      OBVIOUS
    <3> QED BY <3>1, LessIsAnOrder
  <2>4. \A x, y \in S : x # y => x \in above[y] \/ y \in above[x]
    BY LessIsAnOrder
  <2> HIDE DEF above
  <2> QED BY <2>1, <2>2, <2>3, <2>4, Standings
<1>2. \A x \in S : above[x] = {y \in S : Graph!Less(key[y], key[x])}
  OBVIOUS
<1> HIDE DEF above
<1>3. \A T : Graph!Cardinality(T) = Cardinality(T)
  BY DEF Graph!Cardinality, Cardinality
<1>4. list = [i \in 1 .. n |-> CHOOSE x \in S : Graph!Cardinality({y \in S : Graph!Less(key[y], key[x])}) = i - 1]
  BY <1>3 DEF Graph!Sorted
<1> HIDE DEF list
<1>5. \A i \in 1 .. n : list[i] \in S /\ Cardinality(above[list[i]]) = i - 1
  <2> SUFFICES ASSUME NEW i \in 1 .. n PROVE list[i] \in S /\ Cardinality(above[list[i]]) = i - 1
    OBVIOUS
  <2>1. \E x \in S : Graph!Cardinality({y \in S : Graph!Less(key[y], key[x])}) = i - 1
    BY <1>1, <1>2, <1>3
  <2>2. list[i] = CHOOSE x \in S : Graph!Cardinality({y \in S : Graph!Less(key[y], key[x])}) = i - 1
    BY <1>4
  <2>3. list[i] \in S /\ Graph!Cardinality({y \in S : Graph!Less(key[y], key[list[i]])}) = i - 1
    BY <2>1, <2>2
  <2> QED BY <1>2, <1>3, <2>3
<1>6. list \in [1 .. n -> S] /\ DOMAIN list = 1 .. n
  BY <1>4, <1>5
<1>7. list \in Seq(S) /\ Len(list) = n
  <2> HIDE DEF n
  <2> QED BY <1>1, <1>6
<1>8. \A i, j \in 1 .. n : list[i] = list[j] => i = j
  <2> SUFFICES ASSUME NEW i \in 1 .. n, NEW j \in 1 .. n, list[i] = list[j] PROVE i = j
    OBVIOUS
  <2>1. i - 1 = j - 1
    BY <1>5
  <2> QED BY <1>1, <2>1
<1>9. \A x \in S : \E i \in 1 .. n : list[i] = x
  <2> SUFFICES ASSUME NEW x \in S PROVE \E i \in 1 .. n : list[i] = x
    OBVIOUS
  <2>1. Cardinality(above[x]) \in 0 .. n - 1
    BY <1>1
  <2>2. Cardinality(above[x]) + 1 \in 1 .. n /\ (Cardinality(above[x]) + 1) - 1 = Cardinality(above[x])
    <3> HIDE DEF n
    <3> QED BY <1>1, <2>1
  <2> QED BY <1>1, <1>5, <2>2
<1>10. \A i, j \in 1 .. n : Graph!Less(key[list[i]], key[list[j]]) => i < j
  <2> SUFFICES ASSUME NEW i \in 1 .. n, NEW j \in 1 .. n, Graph!Less(key[list[i]], key[list[j]]) PROVE i < j
    OBVIOUS
  <2>1. list[i] \in above[list[j]]
    BY <1>2, <1>5
  <2>2. Cardinality(above[list[i]]) < Cardinality(above[list[j]])
    BY <1>1, <1>5, <2>1
  <2>3. i - 1 < j - 1
    BY <1>5, <2>2
  <2> QED BY <1>1, <2>3
<1> QED BY <1>1, <1>6, <1>7, <1>8, <1>9, <1>10 DEF list, SortedBy

LEMMA AsFunction ==
  ASSUME NEW S, NEW list \in Seq(S), NEW n \in Int, Len(list) = n
  PROVE  list \in [1 .. n -> S]
OBVIOUS

\* A list of a set has all of it.
ListOf(list, S) ==
  /\ list \in Seq(S) /\ Len(list) = Cardinality(S) /\ Cardinality(S) \in Nat /\ DOMAIN list = 1 .. Len(list)
  /\ \A x \in S : \E i \in DOMAIN list : list[i] = x

LEMMA SortedIsAList ==
  ASSUME NEW S, IsFiniteSet(S), NEW key,
         \A x \in S : key[x] \in Seq(Int),
         \A x, y \in S : key[x] = key[y] => x = y
  PROVE  ListOf(Graph!Sorted(S, key), S)
<1>1. SortedBy(Graph!Sorted(S, key), S, key)
  BY SortedLists
<1> QED BY <1>1 DEF ListOf, SortedBy

\* The beginning of a list.
LEMMA FirstOfAList ==
  ASSUME NEW S, NEW list \in Seq(S), NEW n \in Nat
  PROVE  LET begin == Graph!First(list, n)
             m == IF Len(list) < n THEN Len(list) ELSE n IN
         /\ m \in Nat /\ m <= n /\ m <= Len(list)
         /\ begin \in Seq(S) /\ Len(begin) = m /\ DOMAIN begin = 1 .. m
         /\ \A i \in 1 .. m : i \in DOMAIN list /\ begin[i] = list[i]
         /\ Len(list) <= n => begin = list
<1> DEFINE m == IF Len(list) < n THEN Len(list) ELSE n
<1>1. Len(list) \in Nat /\ DOMAIN list = 1 .. Len(list)
  OBVIOUS
<1>2. m \in Nat /\ m <= n /\ m <= Len(list)
  BY <1>1
<1>3. Graph!First(list, n) = SubSeq(list, 1, m)
  BY DEF Graph!First
<1>4. Len(list) <= n => m = Len(list)
  <2> DEFINE l == Len(list)
  <2>1. l \in Nat /\ m = IF l < n THEN l ELSE n
    BY <1>1
  <2> HIDE DEF l, m
  <2>2. l <= n => m = l
    BY <2>1
  <2> QED BY <2>2 DEF l
<1> HIDE DEF m
<1>5. SubSeq(list, 1, m) \in Seq(S) /\ Len(SubSeq(list, 1, m)) = m /\ \A i \in 1 .. m : SubSeq(list, 1, m)[i] = list[i]
  BY <1>1, <1>2
<1>6. \A i \in 1 .. m : i \in DOMAIN list
  BY <1>1, <1>2
<1>7. DOMAIN SubSeq(list, 1, m) = 1 .. m
  BY <1>5
<1>8. m = Len(list) => SubSeq(list, 1, m) = list
  BY <1>5, SeqEqual
<1> QED BY <1>2, <1>3, <1>4, <1>5, <1>6, <1>7, <1>8 DEF m

LEMMA FiniteRange ==
  ASSUME NEW S, IsFiniteSet(S), NEW f, DOMAIN f = S
  PROVE  IsFiniteSet({f[x] : x \in S})
<1> DEFINE T == {f[x] : x \in S}
<1> DEFINE g == [x \in S |-> f[x]]
<1>1. g \in Surjection(S, T)
  BY DEF Surjection
<1> QED BY <1>1, FS_Surjection

LEMMA FiniteDomain ==
  ASSUME NEW S, NEW list \in Seq(S)
  PROVE  IsFiniteSet(DOMAIN list) /\ DOMAIN list = 1 .. Len(list)
<1>1. Len(list) \in Int /\ 1 \in Int /\ DOMAIN list = 1 .. Len(list)
  OBVIOUS
<1> QED BY <1>1, FS_Interval

----------------------------------------------------------------------------
\* What Init chose, which no step changes.
Asking == stored \in Stores /\ asked \in Questions

LEMMA WhatIsStored ==
  ASSUME Asking
  PROVE  /\ IsFiniteSet(stored)
         /\ \A e \in stored : e.from \in Int /\ e.to \in Int /\ e.chunk \in Int /\ e.confidence \in Nat
         /\ \A e, f \in stored : e.from = f.from /\ e.to = f.to /\ e.chunk = f.chunk => e = f
         /\ asked.seeds \in Seq(Int) /\ asked.depth \in 1 .. 3
         /\ Graph!Seeds \subseteq Int /\ Graph!Entities \subseteq Int /\ Graph!Seeds \subseteq Graph!Entities
         /\ \A e \in stored : e.from \in Graph!Entities /\ e.to \in Graph!Entities
<1>1. /\ IsFiniteSet(stored)
      /\ \A e \in stored : e.from \in Int /\ e.to \in Int /\ e.chunk \in Int /\ e.confidence \in Nat
      /\ \A e, f \in stored : e.from = f.from /\ e.to = f.to /\ e.chunk = f.chunk => e = f
      /\ asked.seeds \in Seq(Int) /\ asked.depth \in 1 .. 3
  BY GraphInputs DEF Asking, GraphInputs
<1>2. Graph!Seeds \subseteq Int
  BY <1>1 DEF Graph!Seeds
<1>3. /\ Graph!Seeds \subseteq Graph!Entities
      /\ \A e \in stored : e.from \in Graph!Entities /\ e.to \in Graph!Entities
  BY DEF Graph!Entities
<1>4. Graph!Entities \subseteq Int
  <2> SUFFICES ASSUME NEW x \in Graph!Entities PROVE x \in Int
    OBVIOUS
  <2>1. x \in Graph!Seeds \/ \E e \in stored : x \in {e.from, e.to}
    BY DEF Graph!Entities
  <2> QED BY <1>1, <1>2, <2>1
<1> QED BY <1>1, <1>2, <1>3, <1>4

TwoJoined(a, b, c, d) ==
  /\ a \o b \in Seq(Int) /\ Len(a \o b) = Len(a) + Len(b)
  /\ \A i \in 1 .. Len(a) : (a \o b)[i] = a[i]
  /\ Len(a) = Len(c) /\ a \o b = c \o d => a = c /\ b = d

LEMMA Concatenated ==
  ASSUME NEW a \in Seq(Int), NEW b \in Seq(Int), NEW c \in Seq(Int), NEW d \in Seq(Int)
  PROVE  TwoJoined(a, b, c, d)
<1>1. a \o b \in Seq(Int) /\ Len(a \o b) = Len(a) + Len(b) /\ \A i \in 1 .. Len(a) : (a \o b)[i] = a[i]
  OBVIOUS
<1>2. ASSUME Len(a) = Len(c), a \o b = c \o d PROVE a = c /\ b = d
  <2>1. Len(b) = Len(d)
    <3>1. Len(a \o b) = Len(a) + Len(b) /\ Len(c \o d) = Len(c) + Len(d)
      OBVIOUS
    <3>2. Len(a) \in Nat /\ Len(b) \in Nat /\ Len(c) \in Nat /\ Len(d) \in Nat
      OBVIOUS
    <3> QED BY <1>2, <3>1, <3>2
  <2>2. \A i \in 1 .. Len(a) : a[i] = c[i]
    <3>1. \A i \in 1 .. Len(a) : (a \o b)[i] = a[i] /\ (c \o d)[i] = c[i]
      BY <1>2
    <3> QED BY <1>2, <3>1
  <2>3. \A i \in 1 .. Len(b) : b[i] = d[i]
    <3> SUFFICES ASSUME NEW i \in 1 .. Len(b) PROVE b[i] = d[i]
      OBVIOUS
    <3>1. (a \o b)[Len(a) + i] = b[i]
      OBVIOUS
    <3>2. (c \o d)[Len(c) + i] = d[i]
      BY <2>1
    <3> QED BY <1>2, <3>1, <3>2
  <2>4. a = [i \in 1 .. Len(a) |-> a[i]] /\ c = [i \in 1 .. Len(c) |-> c[i]]
    OBVIOUS
  <2>5. b = [i \in 1 .. Len(b) |-> b[i]] /\ d = [i \in 1 .. Len(d) |-> d[i]]
    OBVIOUS
  <2>6. a = c
    BY <1>2, <2>2, <2>4
  <2>7. b = d
    BY <2>1, <2>3, <2>5
  <2> QED BY <2>6, <2>7
<1> QED BY <1>1, <1>2 DEF TwoJoined

FiveJoined(a1, a2, a3, a4, a5, b1, b2, b3, b4, b5) ==
  LET a == a1 \o a2 \o a3 \o a4 \o a5
      b == b1 \o b2 \o b3 \o b4 \o b5 IN
  /\ a \in Seq(Int) /\ \A i \in 1 .. Len(a1) : a[i] = a1[i]
  /\ Len(a2) = Len(b2) /\ Len(a3) = Len(b3) /\ Len(a4) = Len(b4) /\ a = b =>
       a1 = b1 /\ a2 = b2 /\ a3 = b3 /\ a4 = b4 /\ a5 = b5

LEMMA SumsGrow ==
  \A k, l, m, n \in Nat : \A i \in 1 .. k : i \in 1 .. k + l /\ i \in 1 .. k + l + m /\ i \in 1 .. k + l + m + n
OBVIOUS

LEMMA FiveConcatenated ==
  ASSUME NEW a1 \in Seq(Int), NEW a2 \in Seq(Int), NEW a3 \in Seq(Int), NEW a4 \in Seq(Int), NEW a5 \in Seq(Int),
         NEW b1 \in Seq(Int), NEW b2 \in Seq(Int), NEW b3 \in Seq(Int), NEW b4 \in Seq(Int), NEW b5 \in Seq(Int),
         Len(a1) = Len(b1)
  PROVE  FiveJoined(a1, a2, a3, a4, a5, b1, b2, b3, b4, b5)
<1>0. SUFFICES ASSUME NEW p2, p2 = a1 \o a2, NEW p3, p3 = p2 \o a3, NEW p4, p4 = p3 \o a4, NEW p5, p5 = p4 \o a5,
                      NEW q2, q2 = b1 \o b2, NEW q3, q3 = q2 \o b3, NEW q4, q4 = q3 \o b4, NEW q5, q5 = q4 \o b5
               PROVE  /\ p5 \in Seq(Int) /\ \A i \in 1 .. Len(a1) : p5[i] = a1[i]
                      /\ Len(a2) = Len(b2) /\ Len(a3) = Len(b3) /\ Len(a4) = Len(b4) /\ p5 = q5 =>
                           a1 = b1 /\ a2 = b2 /\ a3 = b3 /\ a4 = b4 /\ a5 = b5
  BY DEF FiveJoined
<1>1. TwoJoined(a1, a2, b1, b2) /\ TwoJoined(b1, b2, a1, a2)
  BY Concatenated
<1>2. p2 \in Seq(Int) /\ q2 \in Seq(Int)
  BY <1>0, <1>1 DEF TwoJoined
<1>3. TwoJoined(p2, a3, q2, b3) /\ TwoJoined(q2, b3, p2, a3)
  BY <1>2, Concatenated
<1>4. p3 \in Seq(Int) /\ q3 \in Seq(Int)
  BY <1>0, <1>3 DEF TwoJoined
<1>5. TwoJoined(p3, a4, q3, b4) /\ TwoJoined(q3, b4, p3, a4)
  BY <1>4, Concatenated
<1>6. p4 \in Seq(Int) /\ q4 \in Seq(Int)
  BY <1>0, <1>5 DEF TwoJoined
<1>7. TwoJoined(p4, a5, q4, b5)
  BY <1>6, Concatenated
<1>8. /\ Len(a1) \in Nat /\ Len(a2) \in Nat /\ Len(a3) \in Nat /\ Len(a4) \in Nat
      /\ Len(b1) \in Nat /\ Len(b2) \in Nat /\ Len(b3) \in Nat /\ Len(b4) \in Nat
  OBVIOUS
<1>9. /\ Len(p2) = Len(a1) + Len(a2) /\ Len(p3) = Len(p2) + Len(a3) /\ Len(p4) = Len(p3) + Len(a4)
      /\ Len(q2) = Len(b1) + Len(b2) /\ Len(q3) = Len(q2) + Len(b3) /\ Len(q4) = Len(q3) + Len(b4)
  BY <1>0, <1>1, <1>3, <1>5 DEF TwoJoined
<1>10. /\ p5 \in Seq(Int) /\ \A i \in 1 .. Len(p4) : p5[i] = p4[i]
       /\ \A i \in 1 .. Len(p3) : p4[i] = p3[i]
       /\ \A i \in 1 .. Len(p2) : p3[i] = p2[i]
       /\ \A i \in 1 .. Len(a1) : p2[i] = a1[i]
  BY <1>0, <1>1, <1>3, <1>5, <1>7 DEF TwoJoined
<1>11. \A i \in 1 .. Len(a1) : p5[i] = a1[i]
  <2> SUFFICES ASSUME NEW i \in 1 .. Len(a1) PROVE p5[i] = a1[i]
    OBVIOUS
  <2>1. i \in 1 .. Len(p2) /\ i \in 1 .. Len(p3) /\ i \in 1 .. Len(p4)
    <3> DEFINE k == Len(a1)
    <3> DEFINE l == Len(a2)
    <3> DEFINE m == Len(a3)
    <3> DEFINE n == Len(a4)
    <3>1. k \in Nat /\ l \in Nat /\ m \in Nat /\ n \in Nat /\ i \in 1 .. k
      BY <1>8
    <3>2. Len(p2) = k + l /\ Len(p3) = Len(p2) + m /\ Len(p4) = Len(p3) + n
      BY <1>9
    <3> HIDE DEF k, l, m, n
    <3>3. Len(p3) = k + l + m /\ Len(p4) = k + l + m + n
      BY <3>2
    <3>4. i \in 1 .. k + l /\ i \in 1 .. k + l + m /\ i \in 1 .. k + l + m + n
      BY <3>1, SumsGrow
    <3> QED BY <3>2, <3>3, <3>4
  <2> QED BY <1>10, <2>1
<1>12. ASSUME Len(a2) = Len(b2), Len(a3) = Len(b3), Len(a4) = Len(b4), p5 = q5
       PROVE  a1 = b1 /\ a2 = b2 /\ a3 = b3 /\ a4 = b4 /\ a5 = b5
  <2>1. Len(p2) = Len(q2) /\ Len(p3) = Len(q3) /\ Len(p4) = Len(q4)
    BY <1>8, <1>9, <1>12
  <2>2. p4 = q4 /\ a5 = b5
    BY <1>0, <1>7, <1>12, <2>1 DEF TwoJoined
  <2>3. p3 = q3 /\ a4 = b4
    BY <1>0, <1>5, <2>1, <2>2 DEF TwoJoined
  <2>4. p2 = q2 /\ a3 = b3
    BY <1>0, <1>3, <2>1, <2>3 DEF TwoJoined
  <2>5. a1 = b1 /\ a2 = b2
    BY <1>0, <1>1, <2>4 DEF TwoJoined
  <2> QED BY <2>2, <2>3, <2>4, <2>5
<1> QED BY <1>10, <1>11, <1>12

\* The keys of relations and of rows tell them apart.
LEMMA EdgeKeys ==
  ASSUME Asking
  PROVE  /\ \A e \in stored : Graph!Key(e) \in Seq(Int) /\ Len(Graph!Key(e)) = 3
         /\ \A e, f \in stored : Graph!Key(e) = Graph!Key(f) => e = f
         /\ \A e \in stored : Graph!EdgePriority(e) \in Seq(Int) /\ Len(Graph!EdgePriority(e)) = 4
         /\ \A e, f \in stored : Graph!EdgePriority(e) = Graph!EdgePriority(f) => e = f
<1>1. \A e \in stored : Graph!Key(e) \in Seq(Int) /\ Len(Graph!Key(e)) = 3
  BY WhatIsStored DEF Graph!Key
<1>2. \A e, f \in stored : Graph!Key(e) = Graph!Key(f) => e = f
  BY WhatIsStored DEF Graph!Key
<1>4. \A e \in stored : Graph!EdgePriority(e) \in Seq(Int) /\ Len(Graph!EdgePriority(e)) = 4
  BY WhatIsStored DEF Graph!EdgePriority
<1>5. \A e, f \in stored : Graph!EdgePriority(e) = Graph!EdgePriority(f) => e = f
  BY WhatIsStored DEF Graph!EdgePriority
<1> QED BY <1>1, <1>2, <1>4, <1>5

----------------------------------------------------------------------------
\* The paths of so many relations from a seed.
PathsOf(s, n) ==
  {p \in [entities : Graph!Routes(s, n), relations : [1 .. n -> stored]] : Graph!Joined(p)}

PathOf(s, n, p) ==
  /\ p = [entities |-> p.entities, relations |-> p.relations]
  /\ p.entities \in Seq(Graph!Entities) /\ p.entities \in Seq(Int) /\ Len(p.entities) = n + 1
  /\ p.entities \in [1 .. n + 1 -> Graph!Entities]
  /\ p.relations \in Seq(stored) /\ Len(p.relations) = n /\ p.relations \in [1 .. n -> stored]
  /\ Graph!Hops(p) = n /\ Graph!Tip(p) = p.entities[n + 1] /\ Graph!Tip(p) \in Int
  /\ p.entities[1] = s /\ IsInjective(p.entities) /\ Graph!Joined(p)

LEMMA PartsOfAPath ==
  ASSUME Asking, NEW s \in Graph!Seeds, NEW n \in 0 .. 3, NEW p \in PathsOf(s, n)
  PROVE  PathOf(s, n, p)
<1>1. p \in [entities : Graph!Routes(s, n), relations : [1 .. n -> stored]] /\ Graph!Joined(p)
  BY DEF PathsOf
<1>2. /\ p = [entities |-> p.entities, relations |-> p.relations]
      /\ p.entities \in Graph!Routes(s, n) /\ p.relations \in [1 .. n -> stored]
  BY <1>1
<1>3. p.entities \in [1 .. n + 1 -> Graph!Entities] /\ p.entities[1] = s /\ IsInjective(p.entities)
  BY <1>2 DEF Graph!Routes, Graph!IsInjective, IsInjective
<1>4. n \in Nat /\ n + 1 \in Nat /\ n + 1 \in 1 .. n + 1
  OBVIOUS
<1>5. p.entities \in Seq(Graph!Entities) /\ Len(p.entities) = n + 1
  BY <1>3, <1>4
<1>6. p.relations \in Seq(stored) /\ Len(p.relations) = n
  BY <1>2, <1>4
<1>7. p.entities \in Seq(Int) /\ p.entities[n + 1] \in Int
  <2>1. Graph!Entities \subseteq Int
    BY WhatIsStored
  <2>2. p.entities \in [1 .. n + 1 -> Int]
    BY <1>3, <2>1
  <2> QED BY <1>4, <2>2
<1> QED BY <1>1, <1>2, <1>3, <1>5, <1>6, <1>7 DEF Graph!Hops, Graph!Tip, PathOf

\* What the key of a path is made of.
KeyHead(path) == <<-((6 * Graph!Confidence(path)) \div Graph!Hops(path)), Graph!Hops(path)>>

KeyOf(n, p) ==
  /\ Graph!PathPriority(p) = KeyHead(p) \o p.entities \o Graph!KeyAt(p, 1) \o Graph!KeyAt(p, 2) \o Graph!KeyAt(p, 3)
  /\ Graph!Confidence(p) \in Nat
  /\ KeyHead(p) \in Seq(Int) /\ Len(KeyHead(p)) = 2 /\ KeyHead(p)[2] = n
  /\ \A i \in 1 .. 3 : Graph!KeyAt(p, i) \in Seq(Int)
  /\ \A i \in 1 .. 3 : Len(Graph!KeyAt(p, i)) = IF i <= n THEN 3 ELSE 0
  /\ \A i \in 1 .. n : Graph!KeyAt(p, i) = Graph!Key(p.relations[i]) /\ p.relations[i] \in stored

LEMMA PartsOfAKey ==
  ASSUME Asking, NEW s \in Graph!Seeds, NEW n \in 1 .. 3, NEW p \in PathsOf(s, n)
  PROVE  KeyOf(n, p)
<1>1. /\ Graph!Hops(p) = n /\ p.relations \in [1 .. n -> stored]
  <2>1. n \in 0 .. 3
    OBVIOUS
  <2>2. PathOf(s, n, p)
    BY <2>1, PartsOfAPath
  <2> QED BY <2>2 DEF PathOf
<1>2. \A i \in 1 .. n : p.relations[i] \in stored
  BY <1>1
<1>3. \A i \in 1 .. 3 : Graph!ConfidenceAt(p, i) \in Nat
  BY <1>1, <1>2, WhatIsStored DEF Graph!ConfidenceAt
<1>4. Graph!Confidence(p) \in Nat
  BY <1>3 DEF Graph!Confidence
<1>5. (6 * Graph!Confidence(p)) \div n \in Int
  BY <1>4
<1>6. KeyHead(p) \in Seq(Int) /\ Len(KeyHead(p)) = 2 /\ KeyHead(p)[2] = n
  BY <1>1, <1>5 DEF KeyHead
<1>7. ASSUME NEW i \in 1 .. 3
      PROVE  /\ Graph!KeyAt(p, i) \in Seq(Int)
             /\ i <= n => Graph!KeyAt(p, i) = Graph!Key(p.relations[i])
             /\ Len(Graph!KeyAt(p, i)) = IF i <= n THEN 3 ELSE 0
  <2>1. CASE i <= n
    <3>1. p.relations[i] \in stored
      BY <1>2, <2>1
    <3>2. Graph!KeyAt(p, i) = Graph!Key(p.relations[i])
      BY <1>1, <2>1 DEF Graph!KeyAt
    <3> QED BY <2>1, <3>1, <3>2, EdgeKeys
  <2>2. CASE ~(i <= n)
    <3>1. Graph!KeyAt(p, i) = <<>>
      BY <1>1, <2>2 DEF Graph!KeyAt
    <3> QED BY <2>2, <3>1
  <2> QED BY <2>1, <2>2
<1>8. \A i \in 1 .. n : i \in 1 .. 3 /\ i <= n
  OBVIOUS
<1>9. Graph!PathPriority(p) = KeyHead(p) \o p.entities \o Graph!KeyAt(p, 1) \o Graph!KeyAt(p, 2) \o Graph!KeyAt(p, 3)
  BY DEF Graph!PathPriority, KeyHead
<1> QED BY <1>2, <1>4, <1>6, <1>7, <1>8, <1>9 DEF KeyOf

\* The key of a path tells it from every other path of its seed.
LEMMA PathKeys ==
  ASSUME Asking, NEW s \in Graph!Seeds, NEW n \in 1 .. 3, NEW m \in 1 .. 3,
         NEW p \in PathsOf(s, n), NEW q \in PathsOf(s, m)
  PROVE  /\ Graph!PathPriority(p) \in Seq(Int)
         /\ Graph!PathPriority(p) = Graph!PathPriority(q) => p = q
<1>1. p.entities \in Seq(Int) /\ Len(p.entities) = n + 1 /\ p.relations \in [1 .. n -> stored]
      /\ p = [entities |-> p.entities, relations |-> p.relations]
  <2>1. n \in 0 .. 3
    OBVIOUS
  <2>2. PathOf(s, n, p)
    BY <2>1, PartsOfAPath
  <2> QED BY <2>2 DEF PathOf
<1>2. q.entities \in Seq(Int) /\ Len(q.entities) = m + 1 /\ q.relations \in [1 .. m -> stored]
      /\ q = [entities |-> q.entities, relations |-> q.relations]
  <2>1. m \in 0 .. 3
    OBVIOUS
  <2>2. PathOf(s, m, q)
    BY <2>1, PartsOfAPath
  <2> QED BY <2>2 DEF PathOf
<1> DEFINE P(i) == Graph!KeyAt(p, i)
<1> DEFINE Q(i) == Graph!KeyAt(q, i)
<1>3. /\ Graph!PathPriority(p) = KeyHead(p) \o p.entities \o P(1) \o P(2) \o P(3)
      /\ KeyHead(p) \in Seq(Int) /\ Len(KeyHead(p)) = 2 /\ KeyHead(p)[2] = n
      /\ \A i \in 1 .. 3 : P(i) \in Seq(Int)
      /\ \A i \in 1 .. 3 : Len(P(i)) = IF i <= n THEN 3 ELSE 0
      /\ \A i \in 1 .. n : P(i) = Graph!Key(p.relations[i]) /\ p.relations[i] \in stored
  <2>1. KeyOf(n, p)
    BY PartsOfAKey
  <2> QED BY <2>1 DEF KeyOf
<1>4. /\ Graph!PathPriority(q) = KeyHead(q) \o q.entities \o Q(1) \o Q(2) \o Q(3)
      /\ KeyHead(q) \in Seq(Int) /\ Len(KeyHead(q)) = 2 /\ KeyHead(q)[2] = m
      /\ \A i \in 1 .. 3 : Q(i) \in Seq(Int)
      /\ \A i \in 1 .. 3 : Len(Q(i)) = IF i <= m THEN 3 ELSE 0
      /\ \A i \in 1 .. m : Q(i) = Graph!Key(q.relations[i]) /\ q.relations[i] \in stored
  <2>1. KeyOf(m, q)
    BY PartsOfAKey
  <2> QED BY <2>1 DEF KeyOf
<1> HIDE DEF P, Q
<1> DEFINE a == KeyHead(p) \o p.entities \o P(1) \o P(2) \o P(3)
<1> DEFINE b == KeyHead(q) \o q.entities \o Q(1) \o Q(2) \o Q(3)
<1>5. /\ P(1) \in Seq(Int) /\ P(2) \in Seq(Int) /\ P(3) \in Seq(Int)
      /\ Q(1) \in Seq(Int) /\ Q(2) \in Seq(Int) /\ Q(3) \in Seq(Int) /\ Len(KeyHead(p)) = Len(KeyHead(q))
  BY <1>3, <1>4
<1>6. /\ a \in Seq(Int) /\ a[2] = n
      /\ /\ Len(p.entities) = Len(q.entities) /\ Len(P(1)) = Len(Q(1)) /\ Len(P(2)) = Len(Q(2)) /\ a = b
         => p.entities = q.entities /\ P(1) = Q(1) /\ P(2) = Q(2) /\ P(3) = Q(3)
  <2>1. /\ a \in Seq(Int) /\ \A i \in 1 .. Len(KeyHead(p)) : a[i] = KeyHead(p)[i]
        /\ Len(p.entities) = Len(q.entities) /\ Len(P(1)) = Len(Q(1)) /\ Len(P(2)) = Len(Q(2)) /\ a = b
           => p.entities = q.entities /\ P(1) = Q(1) /\ P(2) = Q(2) /\ P(3) = Q(3)
    <3> DEFINE H == KeyHead(p)
    <3> DEFINE K == KeyHead(q)
    <3> DEFINE E == p.entities
    <3> DEFINE F == q.entities
    <3>1. H \in Seq(Int) /\ K \in Seq(Int) /\ E \in Seq(Int) /\ F \in Seq(Int) /\ Len(H) = Len(K)
      BY <1>1, <1>2, <1>3, <1>4
    <3> HIDE DEF H, K, E, F
    <3>2. FiveJoined(H, E, P(1), P(2), P(3), K, F, Q(1), Q(2), Q(3))
      BY <1>5, <3>1, FiveConcatenated
    <3>3. LET c == H \o E \o P(1) \o P(2) \o P(3)
              d == K \o F \o Q(1) \o Q(2) \o Q(3) IN
          /\ c \in Seq(Int) /\ \A i \in 1 .. Len(H) : c[i] = H[i]
          /\ Len(E) = Len(F) /\ Len(P(1)) = Len(Q(1)) /\ Len(P(2)) = Len(Q(2)) /\ c = d =>
               H = K /\ E = F /\ P(1) = Q(1) /\ P(2) = Q(2) /\ P(3) = Q(3)
      BY <3>2 DEF FiveJoined
    <3> QED BY <3>3 DEF H, K, E, F
  <2> HIDE DEF a, b
  <2>2. a[2] = KeyHead(p)[2]
    BY <1>3, <2>1
  <2> QED BY <1>3, <2>1, <2>2
<1>7. b[2] = m
  <2>1. \A i \in 1 .. Len(KeyHead(q)) : b[i] = KeyHead(q)[i]
    <3> DEFINE K == KeyHead(q)
    <3> DEFINE F == q.entities
    <3>1. K \in Seq(Int) /\ F \in Seq(Int)
      BY <1>2, <1>4
    <3> HIDE DEF K, F
    <3>2. FiveJoined(K, F, Q(1), Q(2), Q(3), K, F, Q(1), Q(2), Q(3))
      BY <1>5, <3>1, FiveConcatenated
    <3>3. LET d == K \o F \o Q(1) \o Q(2) \o Q(3) IN \A i \in 1 .. Len(K) : d[i] = K[i]
      BY <3>2 DEF FiveJoined
    <3> QED BY <3>3 DEF K, F
  <2> HIDE DEF b
  <2> QED BY <1>4, <2>1
<1> HIDE DEF a, b
<1>8. ASSUME a = b PROVE p = q
  <2>1. n = m
    BY <1>6, <1>7, <1>8
  <2>2. Len(P(1)) = Len(Q(1)) /\ Len(P(2)) = Len(Q(2)) /\ Len(p.entities) = Len(q.entities)
    <3>1. \A i \in 1 .. 3 : Len(P(i)) = (IF i <= n THEN 3 ELSE 0) /\ Len(Q(i)) = (IF i <= m THEN 3 ELSE 0)
      BY <1>3, <1>4
    <3>2. \A i \in 1 .. 3 : Len(P(i)) = Len(Q(i))
      BY <2>1, <3>1
    <3>3. 1 \in 1 .. 3 /\ 2 \in 1 .. 3
      OBVIOUS
    <3>4. Len(P(1)) = Len(Q(1)) /\ Len(P(2)) = Len(Q(2))
      BY <3>2, <3>3
    <3>5. Len(p.entities) = Len(q.entities)
      BY <1>1, <1>2, <2>1
    <3> QED BY <3>4, <3>5
  <2>3. p.entities = q.entities /\ P(1) = Q(1) /\ P(2) = Q(2) /\ P(3) = Q(3)
    BY <1>6, <1>8, <2>2
  <2>4. \A i \in 1 .. n : P(i) = Q(i)
    <3>1. \A i \in 1 .. n : i = 1 \/ i = 2 \/ i = 3
      OBVIOUS
    <3> QED BY <2>3, <3>1
  <2>5. ASSUME NEW i \in 1 .. n PROVE p.relations[i] = q.relations[i]
    <3>1. P(i) = Graph!Key(p.relations[i]) /\ p.relations[i] \in stored
      BY <1>3
    <3>2. Q(i) = Graph!Key(q.relations[i]) /\ q.relations[i] \in stored
      BY <1>4, <2>1
    <3>3. Graph!Key(p.relations[i]) = Graph!Key(q.relations[i])
      BY <2>4, <3>1, <3>2
    <3> QED BY <3>1, <3>2, <3>3, EdgeKeys
  <2>6. p.relations = q.relations
    <3>1. p.relations \in [1 .. n -> stored] /\ q.relations \in [1 .. n -> stored]
      BY <1>1, <1>2, <2>1
    <3> QED BY <2>5, <3>1
  <2> QED BY <1>1, <1>2, <2>3, <2>6
<1> QED BY <1>3, <1>4, <1>6, <1>8 DEF a, b

----------------------------------------------------------------------------
\* A path with one more relation at its tip.
Grown(p, e) ==
  [entities |-> Append(p.entities, Graph!Other(e, Graph!Tip(p))), relations |-> Append(p.relations, e)]

\* The relation leads from the tip to an entity the path has not been at.
Continues(p, e) ==
  /\ Graph!Tip(p) \in {e.from, e.to}
  /\ Graph!Other(e, Graph!Tip(p)) \notin Graph!Range(p.entities)

LEMMA IsAPath ==
  ASSUME NEW s, NEW n \in Nat, NEW entities \in [1 .. n + 1 -> Graph!Entities], entities[1] = s, IsInjective(entities),
         NEW relations \in [1 .. n -> stored], Graph!Joined([entities |-> entities, relations |-> relations])
  PROVE  [entities |-> entities, relations |-> relations] \in PathsOf(s, n)
<1>1. entities \in Graph!Routes(s, n)
  BY DEF Graph!Routes, Graph!IsInjective, IsInjective
<1> QED BY <1>1 DEF PathsOf

LEMMA PathGrows ==
  ASSUME Asking, NEW s \in Graph!Seeds, NEW n \in 0 .. 2, NEW p \in PathsOf(s, n), NEW e \in stored, Continues(p, e)
  PROVE  /\ Grown(p, e) \in PathsOf(s, n + 1)
         /\ Graph!Reached(Grown(p, e)) = Graph!Reached(p) \cup {Graph!Other(e, Graph!Tip(p))}
<1> DEFINE x == Graph!Other(e, Graph!Tip(p))
<1> DEFINE E == p.entities
<1> DEFINE R == p.relations
<1> DEFINE E1 == Append(E, x)
<1> DEFINE R1 == Append(R, e)
<1>1. /\ E \in Seq(Graph!Entities) /\ Len(E) = n + 1 /\ R \in Seq(stored) /\ Len(R) = n
      /\ Graph!Tip(p) = E[n + 1] /\ E[1] = s /\ IsInjective(E) /\ Graph!Joined(p) /\ DOMAIN R = 1 .. n
  <2>1. n \in 0 .. 3
    OBVIOUS
  <2>2. PathOf(s, n, p)
    BY <2>1, PartsOfAPath
  <2> QED BY <2>2 DEF PathOf
<1>2. x \in Graph!Entities /\ {Graph!Tip(p), x} = {e.from, e.to}
  BY WhatIsStored DEF Graph!Other, Continues
<1>3. \A i \in 1 .. n + 1 : E[i] # x
  <2>1. x \notin {E[i] : i \in DOMAIN E}
    BY DEF Continues, Graph!Range
  <2> QED BY <1>1, <2>1
<1>4. n \in Nat
  OBVIOUS
<1>5. Grown(p, e) = [entities |-> E1, relations |-> R1]
  BY DEF Grown
<1>6. \A i \in 1 .. n : {E[i], E[i + 1]} = {R[i].from, R[i].to}
  BY <1>1 DEF Graph!Joined
<1> HIDE DEF x, E, R
<1>7. /\ E1 \in Seq(Graph!Entities) /\ Len(E1) = n + 2 /\ E1[n + 2] = x /\ \A i \in 1 .. n + 1 : E1[i] = E[i]
      /\ R1 \in Seq(stored) /\ Len(R1) = n + 1 /\ R1[n + 1] = e /\ \A i \in 1 .. n : R1[i] = R[i]
  BY <1>1, <1>2, <1>4
<1> HIDE DEF E1, R1
<1>8. E1 \in [1 .. (n + 1) + 1 -> Graph!Entities] /\ R1 \in [1 .. n + 1 -> stored]
  BY <1>4, <1>7
<1>9. E1[1] = s
  BY <1>1, <1>4, <1>7
<1>10. IsInjective(E1)
  <2> SUFFICES ASSUME NEW i \in DOMAIN E1, NEW j \in DOMAIN E1, E1[i] = E1[j] PROVE i = j
    BY DEF IsInjective
  <2>1. i \in 1 .. n + 2 /\ j \in 1 .. n + 2
    BY <1>8
  <2>2. CASE i \in 1 .. n + 1 /\ j \in 1 .. n + 1
    <3>1. E[i] = E[j] /\ i \in DOMAIN E /\ j \in DOMAIN E
      BY <1>1, <1>7, <2>2
    <3> QED BY <1>1, <3>1 DEF IsInjective
  <2>3. CASE i = n + 2 /\ j \in 1 .. n + 1
    BY <1>3, <1>7, <2>3
  <2>4. CASE j = n + 2 /\ i \in 1 .. n + 1
    BY <1>3, <1>7, <2>4
  <2> QED BY <1>4, <2>1, <2>2, <2>3, <2>4
<1>11. \A i \in 1 .. n + 1 : {E1[i], E1[i + 1]} = {R1[i].from, R1[i].to}
  <2> SUFFICES ASSUME NEW i \in 1 .. n + 1 PROVE {E1[i], E1[i + 1]} = {R1[i].from, R1[i].to}
    OBVIOUS
  <2>1. CASE i \in 1 .. n
    <3>1. i + 1 \in 1 .. n + 1
      BY <1>4, <2>1
    <3> QED BY <1>6, <1>7, <2>1, <3>1
  <2>2. CASE i = n + 1
    <3>1. E1[i] = Graph!Tip(p) /\ E1[i + 1] = x /\ R1[i] = e
      BY <1>1, <1>4, <1>7, <2>2
    <3> QED BY <1>2, <3>1
  <2> QED BY <1>4, <2>1, <2>2
<1>12. Graph!Joined([entities |-> E1, relations |-> R1])
  <2>1. DOMAIN R1 = 1 .. n + 1
    BY <1>8
  <2> QED BY <1>11, <2>1 DEF Graph!Joined
<1>13. [entities |-> E1, relations |-> R1] \in PathsOf(s, n + 1)
  <2>1. n + 1 \in Nat
    BY <1>4
  <2> QED BY <1>8, <1>9, <1>10, <1>12, <2>1, IsAPath
<1>14. {E1[i] : i \in 2 .. n + 2} = {E[i] : i \in 2 .. n + 1} \cup {x}
  <2>1. \A i \in 2 .. n + 2 : i \in 2 .. n + 1 \/ i = n + 2
    BY <1>4
  <2>2. \A i \in 2 .. n + 1 : i \in 1 .. n + 1 /\ i \in 2 .. n + 2
    BY <1>4
  <2>3. n + 2 \in 2 .. n + 2
    BY <1>4
  <2> QED BY <1>7, <2>1, <2>2, <2>3
<1>15. Graph!Reached(Grown(p, e)) = Graph!Reached(p) \cup {x}
  <2>1. Graph!Reached(Grown(p, e)) = {E1[i] : i \in 2 .. n + 2}
    BY <1>5, <1>7 DEF Graph!Reached
  <2>2. Graph!Reached(p) = {E[i] : i \in 2 .. n + 1}
    BY <1>1 DEF Graph!Reached, E
  <2> QED BY <1>14, <2>1, <2>2
<1> QED BY <1>5, <1>13, <1>15 DEF x

LEMMA PathShrinks ==
  ASSUME Asking, NEW s \in Graph!Seeds, NEW n \in 0 .. 2, NEW q \in PathsOf(s, n + 1)
  PROVE  \E p \in PathsOf(s, n), e \in stored : Continues(p, e) /\ q = Grown(p, e)
<1> DEFINE F == q.entities
<1> DEFINE T == q.relations
<1> DEFINE E == [i \in 1 .. n + 1 |-> F[i]]
<1> DEFINE R == [i \in 1 .. n |-> T[i]]
<1> DEFINE p == [entities |-> E, relations |-> R]
<1> DEFINE e == T[n + 1]
<1>1. /\ q = [entities |-> F, relations |-> T]
      /\ F \in [1 .. n + 2 -> Graph!Entities] /\ T \in [1 .. n + 1 -> stored]
      /\ F[1] = s /\ IsInjective(F) /\ Graph!Joined(q)
  <2>1. n + 1 \in 0 .. 3 /\ (n + 1) + 1 = n + 2
    OBVIOUS
  <2>2. PathOf(s, n + 1, q)
    BY <2>1, PartsOfAPath
  <2> QED BY <2>1, <2>2 DEF PathOf
<1>2. n \in Nat
  OBVIOUS
<1>3. \A i \in 1 .. n + 1 : {F[i], F[i + 1]} = {T[i].from, T[i].to}
  BY <1>1 DEF Graph!Joined
<1>4. \A i, j \in 1 .. n + 2 : F[i] = F[j] => i = j
  BY <1>1 DEF IsInjective
<1> HIDE DEF F, T
<1>5. E \in [1 .. n + 1 -> Graph!Entities] /\ R \in [1 .. n -> stored] /\ e \in stored
  BY <1>1, <1>2
<1>6. E[1] = s /\ IsInjective(E)
  <2>1. \A i, j \in 1 .. n + 1 : E[i] = E[j] => i = j
    BY <1>2, <1>4
  <2> QED BY <1>1, <1>2, <2>1 DEF IsInjective
<1>7. Graph!Joined(p)
  <2>1. \A i \in 1 .. n : i \in 1 .. n + 1 /\ i + 1 \in 1 .. n + 1
    BY <1>2
  <2>2. \A i \in 1 .. n : {E[i], E[i + 1]} = {R[i].from, R[i].to}
    BY <1>3, <2>1
  <2>3. p.relations = R /\ p.entities = E /\ DOMAIN R = 1 .. n
    OBVIOUS
  <2> HIDE DEF p, E, R
  <2> QED BY <2>2, <2>3 DEF Graph!Joined
<1>8. p \in PathsOf(s, n)
  BY <1>2, <1>5, <1>6, <1>7, IsAPath
<1>9. Graph!Tip(p) = F[n + 1]
  <2>1. E \in Seq(Graph!Entities) /\ Len(E) = n + 1 /\ n + 1 \in 1 .. n + 1
    BY <1>2, <1>5
  <2> QED BY <2>1 DEF Graph!Tip
<1>10. {F[n + 1], F[n + 2]} = {e.from, e.to} /\ F[n + 1] # F[n + 2]
  <2>1. n + 1 \in 1 .. n + 1 /\ n + 1 \in 1 .. n + 2 /\ n + 2 \in 1 .. n + 2 /\ (n + 1) + 1 = n + 2 /\ n + 1 # n + 2
    BY <1>2
  <2> QED BY <1>3, <1>4, <2>1
<1>11. Graph!Other(e, Graph!Tip(p)) = F[n + 2] /\ Graph!Tip(p) \in {e.from, e.to}
  BY <1>9, <1>10 DEF Graph!Other
<1>12. Continues(p, e)
  <2>1. \A i \in 1 .. n + 1 : i \in 1 .. n + 2 /\ i # n + 2 /\ n + 2 \in 1 .. n + 2
    BY <1>2
  <2>2. \A i \in 1 .. n + 1 : E[i] # F[n + 2]
    BY <1>4, <2>1
  <2> QED BY <1>11, <2>2 DEF Continues, Graph!Range
<1>13. q = Grown(p, e)
  <2>1. Append(E, F[n + 2]) = F
    <3>1. E \in Seq(Graph!Entities) /\ Len(E) = n + 1 /\ F[n + 2] \in Graph!Entities
      BY <1>1, <1>2, <1>5
    <3> HIDE DEF E
    <3>2. Append(E, F[n + 2]) \in [1 .. n + 2 -> Graph!Entities]
      <4>1. Append(E, F[n + 2]) \in Seq(Graph!Entities) /\ Len(Append(E, F[n + 2])) = n + 2
        BY <1>2, <3>1
      <4> DEFINE L == Append(E, F[n + 2])
      <4>2. L \in Seq(Graph!Entities) /\ Len(L) = n + 2 /\ n + 2 \in Int
        BY <1>2, <4>1
      <4> HIDE DEF L
      <4>3. L \in [1 .. n + 2 -> Graph!Entities]
        BY <4>2, AsFunction
      <4> QED BY <4>3 DEF L
    <3> USE DEF E
    <3>3. \A i \in 1 .. n + 2 : Append(E, F[n + 2])[i] = F[i]
      BY <1>2, <3>1
    <3> QED BY <1>1, <3>2, <3>3
  <2>2. Append(R, e) = T
    <3>1. R \in Seq(stored) /\ Len(R) = n
      BY <1>2, <1>5
    <3> HIDE DEF R, e
    <3>2. Append(R, e) \in [1 .. n + 1 -> stored]
      <4>1. Append(R, e) \in Seq(stored) /\ Len(Append(R, e)) = n + 1
        BY <1>2, <1>5, <3>1
      <4> DEFINE L == Append(R, e)
      <4>2. L \in Seq(stored) /\ Len(L) = n + 1 /\ n + 1 \in Int
        BY <1>2, <4>1
      <4> HIDE DEF L
      <4>3. L \in [1 .. n + 1 -> stored]
        BY <4>2, AsFunction
      <4> QED BY <4>3 DEF L
    <3> USE DEF R, e
    <3>3. \A i \in 1 .. n + 1 : Append(R, e)[i] = T[i]
      BY <1>2, <1>5, <3>1
    <3> QED BY <1>1, <3>2, <3>3
  <2> QED BY <1>1, <1>11, <2>1, <2>2 DEF Grown
<1> QED BY <1>5, <1>8, <1>12, <1>13

----------------------------------------------------------------------------
\* The lists of paths, of so many relations, that a walk goes on from.
PathsListed(f, n) == \A s \in Graph!Seeds : f[s] \in Seq(PathsOf(s, n))

LEMMA SeedsAreFinite == Asking => IsFiniteSet(Graph!Seeds)
<1> SUFFICES ASSUME Asking PROVE IsFiniteSet(Graph!Seeds)
  OBVIOUS
<1>1. asked.seeds \in Seq(Int)
  BY WhatIsStored
<1>2. IsFiniteSet(DOMAIN asked.seeds)
  BY <1>1, FiniteDomain
<1> QED BY <1>2, FiniteRange DEF Graph!Seeds

LEMMA TipsAreNumbers ==
  ASSUME Asking, NEW f, NEW n \in 0 .. 3, PathsListed(f, n)
  PROVE  IsFiniteSet(Graph!Tips(f)) /\ Graph!Tips(f) \subseteq Int
<1> DEFINE tip(s) == [i \in DOMAIN f[s] |-> Graph!Tip(f[s][i])]
<1> DEFINE tips == [s \in Graph!Seeds |-> {tip(s)[i] : i \in DOMAIN f[s]}]
<1>1. ASSUME NEW s \in Graph!Seeds PROVE IsFiniteSet(tips[s]) /\ tips[s] \subseteq Int
  <2>1. f[s] \in Seq(PathsOf(s, n))
    BY DEF PathsListed
  <2>2. IsFiniteSet(DOMAIN f[s])
    BY <2>1, FiniteDomain
  <2>3. IsFiniteSet(tips[s])
    BY <2>2, FiniteRange
  <2>4. \A i \in DOMAIN f[s] : f[s][i] \in PathsOf(s, n)
    BY <2>1
  <2>5. \A p \in PathsOf(s, n) : PathOf(s, n, p)
    BY PartsOfAPath
  <2>6. \A p \in PathsOf(s, n) : Graph!Tip(p) \in Int
    BY <2>5 DEF PathOf
  <2> QED BY <2>3, <2>4, <2>6
<1>2. Graph!Tips(f) = UNION {tips[s] : s \in Graph!Seeds}
  <2>1. \A s \in Graph!Seeds : tips[s] = {Graph!Tip(f[s][i]) : i \in DOMAIN f[s]}
    OBVIOUS
  <2> HIDE DEF tips
  <2>2. {tips[s] : s \in Graph!Seeds} = {{Graph!Tip(f[s][i]) : i \in DOMAIN f[s]} : s \in Graph!Seeds}
    BY <2>1
  <2> QED BY <2>2 DEF Graph!Tips
<1> HIDE DEF tips
<1>3. IsFiniteSet({tips[s] : s \in Graph!Seeds})
  <2>1. DOMAIN tips = Graph!Seeds
    BY DEF tips
  <2> QED BY <2>1, SeedsAreFinite, FiniteRange
<1>4. \A T \in {tips[s] : s \in Graph!Seeds} : IsFiniteSet(T) /\ T \subseteq Int
  BY <1>1
<1> QED BY <1>2, <1>3, <1>4, FS_UNION

LEMMA Appended ==
  ASSUME NEW a \in Seq(Int), NEW b \in Seq(Int), NEW x \in Int, NEW y \in Int, Len(a) = Len(b)
  PROVE  /\ Append(a, x) \in Seq(Int)
         /\ Append(a, x) = Append(b, y) => a = b /\ x = y
<1>1. Append(a, x) \in Seq(Int) /\ Append(a, x)[Len(a) + 1] = x /\ \A i \in 1 .. Len(a) : Append(a, x)[i] = a[i]
  OBVIOUS
<1>2. Append(b, y)[Len(b) + 1] = y /\ \A i \in 1 .. Len(b) : Append(b, y)[i] = b[i]
  OBVIOUS
<1>3. ASSUME Append(a, x) = Append(b, y) PROVE a = b /\ x = y
  <2>1. x = y
    BY <1>1, <1>2, <1>3
  <2>2. \A i \in 1 .. Len(a) : a[i] = b[i]
    BY <1>1, <1>2, <1>3
  <2>3. a = b
    BY <2>2, SeqEqual
  <2> QED BY <2>1, <2>3
<1> QED BY <1>1, <1>3

\* The rows there are of some tips.
AllRows(tips) == {row \in tips \X stored : row[1] \in {row[2].from, row[2].to}}

LEMMA RowsAreListed ==
  ASSUME Asking, NEW tips \in SUBSET Int, IsFiniteSet(tips)
  PROVE  ListOf(Graph!Rows(tips), AllRows(tips))
<1> DEFINE rows == AllRows(tips)
<1> DEFINE key == [row \in rows |-> Append(Graph!EdgePriority(row[2]), row[1])]
<1>1. IsFiniteSet(rows)
  <2>1. IsFiniteSet(tips \X stored)
    BY WhatIsStored, FS_Product
  <2> QED BY <2>1, FS_Subset DEF AllRows
<1>2. \A row \in rows : row = <<row[1], row[2]>> /\ row[1] \in Int /\ row[2] \in stored
  <2>1. \A row \in tips \X stored : row = <<row[1], row[2]>> /\ row[1] \in tips /\ row[2] \in stored
    OBVIOUS
  <2>2. rows \subseteq tips \X stored
    BY DEF AllRows
  <2> HIDE DEF rows
  <2> QED BY <2>1, <2>2
<1>3. Graph!Rows(tips) = Graph!Sorted(rows, key)
  BY DEF Graph!Rows, AllRows
<1>4. \A row \in rows : key[row] = Append(Graph!EdgePriority(row[2]), row[1])
  OBVIOUS
<1> HIDE DEF rows, key
<1>5. \A x \in rows : key[x] \in Seq(Int)
  <2> SUFFICES ASSUME NEW x \in rows PROVE key[x] \in Seq(Int)
    OBVIOUS
  <2>1. Graph!EdgePriority(x[2]) \in Seq(Int) /\ x[1] \in Int
    BY <1>2, EdgeKeys
  <2>2. Append(Graph!EdgePriority(x[2]), x[1]) \in Seq(Int)
    BY <2>1, Appended
  <2> QED BY <1>4, <2>2
<1>6. \A x, y \in rows : key[x] = key[y] => x = y
  <2> SUFFICES ASSUME NEW x \in rows, NEW y \in rows, key[x] = key[y] PROVE x = y
    OBVIOUS
  <2>1. /\ Graph!EdgePriority(x[2]) \in Seq(Int) /\ Len(Graph!EdgePriority(x[2])) = 4 /\ x[1] \in Int /\ x[2] \in stored
        /\ Graph!EdgePriority(y[2]) \in Seq(Int) /\ Len(Graph!EdgePriority(y[2])) = 4 /\ y[1] \in Int /\ y[2] \in stored
    BY <1>2, EdgeKeys
  <2>2. Append(Graph!EdgePriority(x[2]), x[1]) = Append(Graph!EdgePriority(y[2]), y[1])
    BY <1>4
  <2>3. Graph!EdgePriority(x[2]) = Graph!EdgePriority(y[2]) /\ x[1] = y[1]
    <3> DEFINE a == Graph!EdgePriority(x[2])
    <3> DEFINE b == Graph!EdgePriority(y[2])
    <3>1. a \in Seq(Int) /\ b \in Seq(Int) /\ Len(a) = Len(b) /\ Append(a, x[1]) = Append(b, y[1])
      BY <2>1, <2>2
    <3> HIDE DEF a, b
    <3>2. a = b /\ x[1] = y[1]
      BY <2>1, <3>1, Appended
    <3> QED BY <3>2 DEF a, b
  <2>4. x[2] = y[2]
    BY <2>1, <2>3, EdgeKeys
  <2> QED BY <1>2, <2>3, <2>4
<1>7. ListOf(Graph!Sorted(rows, key), rows)
  BY <1>1, <1>5, <1>6, SortedIsAList
<1> QED BY <1>3, <1>7 DEF rows

\* The relations of some rows.
RelationsOf(rows) == {rows[i][2] : i \in DOMAIN rows}

LEMMA AdjacentAreListed ==
  ASSUME Asking, NEW rows, RelationsOf(rows) \subseteq stored, NEW tip
  PROVE  ListOf(Graph!Adjacent(rows, tip), {e \in RelationsOf(rows) : tip \in {e.from, e.to}})
<1> DEFINE S == {e \in RelationsOf(rows) : tip \in {e.from, e.to}}
<1> DEFINE key == [e \in S |-> Graph!EdgePriority(e)]
<1>1. IsFiniteSet(S) /\ S \subseteq stored
  BY WhatIsStored, FS_Subset
<1>2. Graph!Adjacent(rows, tip) = Graph!Sorted(S, key)
  BY DEF Graph!Adjacent, Graph!ByConfidence, RelationsOf
<1>3. \A e \in S : key[e] = Graph!EdgePriority(e)
  OBVIOUS
<1> HIDE DEF S, key
<1>4. \A e \in S : key[e] \in Seq(Int)
  BY <1>1, <1>3, EdgeKeys
<1>5. ASSUME NEW x \in S, NEW y \in S, key[x] = key[y] PROVE x = y
  <2>1. x \in stored /\ y \in stored /\ Graph!EdgePriority(x) = Graph!EdgePriority(y)
    BY <1>1, <1>3, <1>5
  <2> QED BY <2>1, EdgeKeys
<1>6. ListOf(Graph!Sorted(S, key), S)
  BY <1>1, <1>4, <1>5, SortedIsAList
<1> QED BY <1>2, <1>6 DEF S

----------------------------------------------------------------------------
\* A step from a path of the frontier f by a relation of the rows.
IsTry(try, f, rows) ==
  /\ try.seed \in Graph!Seeds /\ \E i \in DOMAIN f[try.seed] : try.path = f[try.seed][i]
  /\ try.edge \in RelationsOf(rows) /\ Graph!Tip(try.path) \in {try.edge.from, try.edge.to}

\* The steps are steps, and there is one of every path by every relation of the rows.
TriesFit(tries, f, rows) ==
  /\ Len(tries) \in Nat /\ DOMAIN tries = 1 .. Len(tries)
  /\ \A n \in DOMAIN tries : IsTry(tries[n], f, rows)
  /\ \A s \in Graph!Seeds : \A i \in DOMAIN f[s] : \A e \in RelationsOf(rows) :
       Graph!Tip(f[s][i]) \in {e.from, e.to} =>
         \E n \in DOMAIN tries : tries[n].seed = s /\ tries[n].path = f[s][i] /\ tries[n].edge = e

LEMMA TriesAreListed ==
  ASSUME Asking, NEW f, NEW d \in 0 .. 3, PathsListed(f, d), NEW rows, RelationsOf(rows) \subseteq stored
  PROVE  TriesFit(Graph!Tries(f, rows), f, rows)
<1> DEFINE paths(i) == f[asked.seeds[i]]
<1> DEFINE edges(i, j) == Graph!Adjacent(rows, Graph!Tip(paths(i)[j]))
<1> DEFINE at3(i, j) == {<<i, j, k>> : k \in DOMAIN edges(i, j)}
<1> DEFINE at2(i) == UNION {at3(i, j) : j \in DOMAIN paths(i)}
<1> DEFINE turns == UNION {at2(i) : i \in DOMAIN asked.seeds}
<1> DEFINE key == [turn \in turns |-> turn]
<1> DEFINE order == Graph!Sorted(turns, key)
<1> DEFINE try(turn) == [seed |-> asked.seeds[turn[1]], path |-> paths(turn[1])[turn[2]],
                         edge |-> edges(turn[1], turn[2])[turn[3]]]
<1>1. Graph!Tries(f, rows) = [n \in DOMAIN order |-> try(order[n])]
  BY DEF Graph!Tries
<1>2. asked.seeds \in Seq(Int) /\ IsFiniteSet(DOMAIN asked.seeds) /\ DOMAIN asked.seeds \subseteq Int
  <2>1. asked.seeds \in Seq(Int)
    BY WhatIsStored
  <2> QED BY <2>1, FiniteDomain
<1>3. \A i \in DOMAIN asked.seeds : asked.seeds[i] \in Graph!Seeds
  BY DEF Graph!Seeds
<1>4. ASSUME NEW i \in DOMAIN asked.seeds
      PROVE  paths(i) \in Seq(PathsOf(asked.seeds[i], d)) /\ IsFiniteSet(DOMAIN paths(i)) /\ DOMAIN paths(i) \subseteq Int
  <2>1. paths(i) \in Seq(PathsOf(asked.seeds[i], d))
    BY <1>3 DEF PathsListed
  <2> HIDE DEF paths
  <2> QED BY <2>1, FiniteDomain
<1> HIDE DEF paths
<1>5. ASSUME NEW i \in DOMAIN asked.seeds, NEW j \in DOMAIN paths(i)
      PROVE  /\ ListOf(edges(i, j), {e \in RelationsOf(rows) : Graph!Tip(paths(i)[j]) \in {e.from, e.to}})
             /\ IsFiniteSet(DOMAIN edges(i, j)) /\ DOMAIN edges(i, j) \subseteq Int
  <2>1. ListOf(edges(i, j), {e \in RelationsOf(rows) : Graph!Tip(paths(i)[j]) \in {e.from, e.to}})
    BY AdjacentAreListed
  <2>2. edges(i, j) \in Seq({e \in RelationsOf(rows) : Graph!Tip(paths(i)[j]) \in {e.from, e.to}})
    BY <2>1 DEF ListOf
  <2> HIDE DEF edges
  <2> QED BY <2>1, <2>2, FiniteDomain
<1> HIDE DEF edges
<1>6. IsFiniteSet(turns)
  <2>1. ASSUME NEW i \in DOMAIN asked.seeds PROVE IsFiniteSet(at2(i))
    <3>1. ASSUME NEW j \in DOMAIN paths(i) PROVE IsFiniteSet(at3(i, j))
      <4> DEFINE g == [k \in DOMAIN edges(i, j) |-> <<i, j, k>>]
      <4>1. at3(i, j) = {g[k] : k \in DOMAIN edges(i, j)}
        OBVIOUS
      <4>2. DOMAIN g = DOMAIN edges(i, j)
        OBVIOUS
      <4> HIDE DEF g
      <4> QED BY <1>5, <4>1, <4>2, FiniteRange
    <3> HIDE DEF at3
    <3> DEFINE g == [j \in DOMAIN paths(i) |-> at3(i, j)]
    <3>2. at2(i) = UNION {g[j] : j \in DOMAIN paths(i)}
      <4>1. {at3(i, j) : j \in DOMAIN paths(i)} = {g[j] : j \in DOMAIN paths(i)}
        OBVIOUS
      <4> QED BY <4>1
    <3>3. DOMAIN g = DOMAIN paths(i) /\ \A j \in DOMAIN paths(i) : IsFiniteSet(g[j])
      BY <3>1
    <3> HIDE DEF g, at2
    <3>4. IsFiniteSet({g[j] : j \in DOMAIN paths(i)}) /\ \A T \in {g[j] : j \in DOMAIN paths(i)} : IsFiniteSet(T)
      BY <1>4, <3>3, FiniteRange
    <3> QED BY <3>2, <3>4, FS_UNION
  <2> HIDE DEF at2
  <2> DEFINE g == [i \in DOMAIN asked.seeds |-> at2(i)]
  <2>2. turns = UNION {g[i] : i \in DOMAIN asked.seeds}
    <3>1. {at2(i) : i \in DOMAIN asked.seeds} = {g[i] : i \in DOMAIN asked.seeds}
      OBVIOUS
    <3> QED BY <3>1
  <2>3. DOMAIN g = DOMAIN asked.seeds /\ \A i \in DOMAIN asked.seeds : IsFiniteSet(g[i])
    BY <2>1
  <2> HIDE DEF g, turns
  <2>4. IsFiniteSet({g[i] : i \in DOMAIN asked.seeds}) /\ \A T \in {g[i] : i \in DOMAIN asked.seeds} : IsFiniteSet(T)
    BY <1>2, <2>3, FiniteRange
  <2> QED BY <2>2, <2>4, FS_UNION
<1>7. ASSUME NEW turn \in turns
      PROVE  \E i \in DOMAIN asked.seeds : \E j \in DOMAIN paths(i) : \E k \in DOMAIN edges(i, j) : turn = <<i, j, k>>
  <2>1. PICK i \in DOMAIN asked.seeds : turn \in at2(i)
    OBVIOUS
  <2>2. PICK j \in DOMAIN paths(i) : turn \in at3(i, j)
    BY <2>1
  <2> QED BY <2>2
<1>8. ASSUME NEW i \in DOMAIN asked.seeds, NEW j \in DOMAIN paths(i), NEW k \in DOMAIN edges(i, j)
      PROVE  <<i, j, k>> \in turns
  <2>1. <<i, j, k>> \in at3(i, j)
    OBVIOUS
  <2> HIDE DEF at3
  <2>2. <<i, j, k>> \in at2(i)
    BY <2>1
  <2> HIDE DEF at2
  <2> QED BY <2>2
<1> HIDE DEF turns
<1>9. \A turn \in turns : turn \in Seq(Int)
  <2> SUFFICES ASSUME NEW turn \in turns PROVE turn \in Seq(Int)
    OBVIOUS
  <2>1. PICK i \in DOMAIN asked.seeds : \E j \in DOMAIN paths(i) : \E k \in DOMAIN edges(i, j) : turn = <<i, j, k>>
    BY <1>7
  <2>2. PICK j \in DOMAIN paths(i) : \E k \in DOMAIN edges(i, j) : turn = <<i, j, k>>
    BY <2>1
  <2>3. PICK k \in DOMAIN edges(i, j) : turn = <<i, j, k>>
    BY <2>2
  <2>4. i \in Int /\ j \in Int /\ k \in Int
    BY <1>2, <1>4, <1>5
  <2> QED BY <2>3, <2>4
<1>10. ListOf(order, turns)
  <2>1. \A turn \in turns : key[turn] = turn
    OBVIOUS
  <2> HIDE DEF key
  <2>2. (\A x \in turns : key[x] \in Seq(Int)) /\ \A x, y \in turns : key[x] = key[y] => x = y
    BY <1>9, <2>1
  <2> QED BY <1>6, <2>2, SortedIsAList
<1> HIDE DEF order
<1>11. order \in Seq(turns) /\ Len(order) \in Nat /\ DOMAIN order = 1 .. Len(order)
       /\ \A x \in turns : \E n \in DOMAIN order : order[n] = x
  BY <1>10 DEF ListOf
<1> DEFINE tries == Graph!Tries(f, rows)
<1>12. Len(tries) = Len(order) /\ DOMAIN tries = DOMAIN order /\ \A n \in DOMAIN order : tries[n] = try(order[n])
  BY <1>1, <1>11
<1> HIDE DEF tries
<1>13. ASSUME NEW n \in DOMAIN order PROVE IsTry(tries[n], f, rows)
  <2>1. order[n] \in turns
    BY <1>11
  <2>2. PICK i \in DOMAIN asked.seeds : \E j \in DOMAIN paths(i) : \E k \in DOMAIN edges(i, j) : order[n] = <<i, j, k>>
    BY <1>7, <2>1
  <2>3. PICK j \in DOMAIN paths(i) : \E k \in DOMAIN edges(i, j) : order[n] = <<i, j, k>>
    BY <2>2
  <2>4. PICK k \in DOMAIN edges(i, j) : order[n] = <<i, j, k>>
    BY <2>3
  <2>5. tries[n] = [seed |-> asked.seeds[i], path |-> paths(i)[j], edge |-> edges(i, j)[k]]
    BY <1>12, <2>4
  <2>6. edges(i, j)[k] \in {e \in RelationsOf(rows) : Graph!Tip(paths(i)[j]) \in {e.from, e.to}}
    <3> DEFINE S == {e \in RelationsOf(rows) : Graph!Tip(paths(i)[j]) \in {e.from, e.to}}
    <3>1. ListOf(edges(i, j), S)
      BY <1>5
    <3> HIDE DEF S
    <3>2. edges(i, j)[k] \in S
      BY <3>1 DEF ListOf
    <3> QED BY <3>2 DEF S
  <2>7. paths(i) = f[asked.seeds[i]]
    BY DEF paths
  <2> QED BY <1>3, <2>5, <2>6, <2>7 DEF IsTry
<1>14. ASSUME NEW s \in Graph!Seeds, NEW m \in DOMAIN f[s], NEW e \in RelationsOf(rows),
              Graph!Tip(f[s][m]) \in {e.from, e.to}
       PROVE  \E n \in DOMAIN tries : tries[n].seed = s /\ tries[n].path = f[s][m] /\ tries[n].edge = e
  <2>1. PICK i \in DOMAIN asked.seeds : asked.seeds[i] = s
    BY DEF Graph!Seeds
  <2>2. paths(i) = f[s]
    BY <2>1 DEF paths
  <2>3. e \in {b \in RelationsOf(rows) : Graph!Tip(paths(i)[m]) \in {b.from, b.to}}
    BY <1>14, <2>2
  <2>4. PICK k \in DOMAIN edges(i, m) : edges(i, m)[k] = e
    <3> DEFINE S == {b \in RelationsOf(rows) : Graph!Tip(paths(i)[m]) \in {b.from, b.to}}
    <3>1. m \in DOMAIN paths(i)
      BY <2>2
    <3>2. ListOf(edges(i, m), S)
      BY <1>5, <3>1
    <3>3. e \in S
      BY <2>3
    <3> HIDE DEF S
    <3> QED BY <3>2, <3>3 DEF ListOf
  <2>5. PICK n \in DOMAIN order : order[n] = <<i, m, k>>
    BY <1>8, <1>11, <2>2
  <2>6. tries[n] = [seed |-> asked.seeds[i], path |-> paths(i)[m], edge |-> edges(i, m)[k]]
    BY <1>12, <2>5
  <2> QED BY <1>12, <2>1, <2>2, <2>4, <2>6
<1> QED BY <1>11, <1>12, <1>13, <1>14 DEF TriesFit, tries

----------------------------------------------------------------------------
\* What is known of the state between two steps of a depth: found are paths that are one
\* longer, of entities that count as visited.
AnyPath == UNION {PathsOf(s, n) : s \in Graph!Seeds, n \in 0 .. 3}

VisitedFits(visited) ==
  /\ visited \in SUBSET Int /\ IsFiniteSet(visited)
  /\ Cardinality(visited) <= MaxVisited \/ visited = Graph!Seeds

StageFits(state, d) ==
  /\ state \in [visited : SUBSET Int, limit : BOOLEAN, found : [Graph!Seeds -> SUBSET AnyPath]]
  /\ VisitedFits(state.visited) /\ walk.visited \subseteq state.visited
  /\ \A s \in Graph!Seeds :
       /\ state.found[s] \subseteq PathsOf(s, d + 1) /\ IsFiniteSet(state.found[s])
       /\ \A p \in state.found[s] : Graph!Reached(p) \subseteq state.visited

\* The path a step makes is among those found.
TryFound(state, try) ==
  Continues(try.path, try.edge) => Grown(try.path, try.edge) \in state.found[try.seed]

LEMMA TryKeeps ==
  ASSUME Asking, NEW d \in 0 .. 2, NEW state, StageFits(state, d), NEW try,
         try.seed \in Graph!Seeds, try.path \in PathsOf(try.seed, d), try.edge \in stored,
         Graph!Tip(try.path) \in {try.edge.from, try.edge.to}, Graph!Reached(try.path) \subseteq walk.visited
  PROVE  LET next == Graph!Tried(state, try) IN
         /\ StageFits(next, d)
         /\ \A s \in Graph!Seeds : state.found[s] \subseteq next.found[s]
         /\ ~next.limit => ~state.limit /\ TryFound(next, try)
<1> DEFINE next == Graph!Tried(state, try)
<1> DEFINE x == Graph!Other(try.edge, Graph!Tip(try.path))
<1> DEFINE g == Grown(try.path, try.edge)
<1>1. state \in [visited : SUBSET Int, limit : BOOLEAN, found : [Graph!Seeds -> SUBSET AnyPath]]
  BY DEF StageFits
<1>2. CASE x \in Graph!Range(try.path.entities)
  <2>1. next = state
    BY <1>2 DEF Graph!Tried
  <2>2. ~Continues(try.path, try.edge)
    BY <1>2 DEF Continues
  <2> HIDE DEF next
  <2> QED BY <2>1, <2>2 DEF TryFound, next
<1>3. CASE x \notin Graph!Range(try.path.entities) /\ x \notin state.visited /\ Graph!Cardinality(state.visited) >= MaxVisited
  <2>1. next = [state EXCEPT !.limit = TRUE]
    BY <1>3 DEF Graph!Tried
  <2> HIDE DEF next
  <2>2. next.visited = state.visited /\ next.limit = TRUE /\ next.found = state.found
    BY <1>1, <2>1
  <2>3. next \in [visited : SUBSET Int, limit : BOOLEAN, found : [Graph!Seeds -> SUBSET AnyPath]]
    BY <1>1, <2>1
  <2>4. StageFits(next, d)
    BY <2>2, <2>3 DEF StageFits
  <2> QED BY <2>2, <2>4 DEF next
<1>4. CASE x \notin Graph!Range(try.path.entities) /\ ~(x \notin state.visited /\ Graph!Cardinality(state.visited) >= MaxVisited)
  <2>1. next = [state EXCEPT !.visited = @ \cup {x}, !.found[try.seed] = @ \cup {g}]
    BY <1>4 DEF Graph!Tried, Grown
  <2>2. Continues(try.path, try.edge)
    BY <1>4 DEF Continues
  <2>3. g \in PathsOf(try.seed, d + 1) /\ Graph!Reached(g) = Graph!Reached(try.path) \cup {x}
    BY <2>2, PathGrows
  <2>4. x \in Int
    BY WhatIsStored DEF Graph!Other
  <2>5. g \in AnyPath
    <3>1. d + 1 \in 0 .. 3
      OBVIOUS
    <3> HIDE DEF g
    <3> QED BY <2>3, <3>1 DEF AnyPath
  <2> HIDE DEF next, x, g
  <2>6. /\ next.visited = state.visited \cup {x} /\ next.limit = state.limit
        /\ next.found = [state.found EXCEPT ![try.seed] = @ \cup {g}]
    BY <1>1, <2>1
  <2>7. next \in [visited : SUBSET Int, limit : BOOLEAN, found : [Graph!Seeds -> SUBSET AnyPath]]
    <3>1. [state.found EXCEPT ![try.seed] = @ \cup {g}] \in [Graph!Seeds -> SUBSET AnyPath]
      BY <1>1, <2>5
    <3>2. state.visited \cup {x} \in SUBSET Int
      BY <1>1, <2>4
    <3>3. next = [visited |-> state.visited \cup {x}, limit |-> state.limit,
                  found |-> [state.found EXCEPT ![try.seed] = @ \cup {g}]]
      BY <1>1, <2>1
    <3> QED BY <1>1, <3>1, <3>2, <3>3
  <2>8. /\ next.found[try.seed] = state.found[try.seed] \cup {g}
        /\ \A s \in Graph!Seeds : s # try.seed => next.found[s] = state.found[s]
    BY <1>1, <2>6
  <2>9. VisitedFits(next.visited)
    <3>1. IsFiniteSet(state.visited) /\ VisitedFits(state.visited)
      BY DEF StageFits, VisitedFits
    <3>2. Graph!Cardinality(state.visited) = Cardinality(state.visited)
      BY DEF Graph!Cardinality, Cardinality
    <3>3. MaxVisited \in Nat /\ Cardinality(state.visited) \in Nat
      BY <3>1, GraphInputs, FS_CardinalityType DEF GraphInputs
    <3>4. CASE x \in state.visited
      <4>1. next.visited = state.visited
        BY <2>6, <3>4
      <4> QED BY <3>1, <4>1
    <3>5. CASE x \notin state.visited
      <4>1. Cardinality(state.visited) < MaxVisited
        BY <1>4, <3>2, <3>3, <3>5 DEF x
      <4> DEFINE more == state.visited \cup {x}
      <4>2. IsFiniteSet(next.visited) /\ Cardinality(next.visited) = Cardinality(state.visited) + 1
        <5>1. IsFiniteSet(more) /\ Cardinality(more) = Cardinality(state.visited) + 1
          BY <3>1, <3>5, FS_AddElement
        <5>2. next.visited = more
          BY <2>6
        <5> HIDE DEF more
        <5> QED BY <5>1, <5>2
      <4>3. Cardinality(next.visited) <= MaxVisited
        BY <3>3, <4>1, <4>2
      <4>4. next.visited \in SUBSET Int
        BY <2>7
      <4> QED BY <4>2, <4>3, <4>4 DEF VisitedFits
    <3> QED BY <3>4, <3>5
  <2>10. walk.visited \subseteq next.visited /\ state.visited \subseteq next.visited
    BY <2>6 DEF StageFits
  <2>11. ASSUME NEW s \in Graph!Seeds
         PROVE  /\ next.found[s] \subseteq PathsOf(s, d + 1) /\ IsFiniteSet(next.found[s])
                /\ \A p \in next.found[s] : Graph!Reached(p) \subseteq next.visited
    <3>1. /\ state.found[s] \subseteq PathsOf(s, d + 1) /\ IsFiniteSet(state.found[s])
          /\ \A p \in state.found[s] : Graph!Reached(p) \subseteq next.visited
      BY <2>10 DEF StageFits
    <3>2. CASE s = try.seed
      <4>1. IsFiniteSet(next.found[s])
        <5>1. IsFiniteSet(state.found[s] \cup {g})
          BY <3>1, FS_AddElement
        <5>2. next.found[s] = state.found[s] \cup {g}
          BY <2>8, <3>2
        <5> QED BY <5>1, <5>2
      <4>2. Graph!Reached(g) \subseteq next.visited
        BY <2>3, <2>6, <2>10
      <4> QED BY <2>3, <2>8, <3>1, <3>2, <4>1, <4>2
    <3>3. CASE s # try.seed
      BY <2>8, <3>1, <3>3
    <3> QED BY <3>2, <3>3
  <2>12. StageFits(next, d)
    BY <2>7, <2>9, <2>10, <2>11 DEF StageFits
  <2>13. TryFound(next, try)
    BY <2>8 DEF TryFound, g
  <2>14. \A s \in Graph!Seeds : state.found[s] \subseteq next.found[s]
    BY <2>8
  <2> QED BY <2>6, <2>12, <2>13, <2>14 DEF next
<1> QED BY <1>2, <1>3, <1>4

----------------------------------------------------------------------------
\* Where a depth starts, and the states after each of its steps.
AtFirst == [visited |-> walk.visited, limit |-> FALSE, found |-> [s \in Graph!Seeds |-> {}]]

Run(run, tries, n) ==
  run = [m \in 0 .. n |-> IF m = 0 THEN AtFirst ELSE Graph!Tried(run[m - 1], tries[m])]

LEMMA RunExists ==
  ASSUME NEW tries, NEW n \in Nat
  PROVE  \E run : Run(run, tries, n)
<1> DEFINE T == {m \in Nat : ~\E run : Run(run, tries, m)}
<1> SUFFICES ASSUME T # {} PROVE FALSE
  OBVIOUS
<1>1. T \in SUBSET Nat
  OBVIOUS
<1> HIDE DEF T
<1>2. PICK k \in T : \A m \in T : k <= m
  BY <1>1, LeastNumber
<1>3. k \in Nat /\ ~\E run : Run(run, tries, k)
  BY DEF T
<1>4. CASE k = 0
  <2>1. Run([m \in 0 .. 0 |-> AtFirst], tries, 0)
    BY DEF Run
  <2> QED BY <1>3, <1>4, <2>1
<1>5. CASE k # 0
  <2>1. k - 1 \in Nat /\ k - 1 \notin T
    BY <1>2, <1>3, <1>5
  <2>2. PICK r : Run(r, tries, k - 1)
    BY <2>1 DEF T
  <2> DEFINE run == [m \in 0 .. k |-> IF m = k THEN Graph!Tried(r[k - 1], tries[k]) ELSE r[m]]
  <2>3. \A m \in 0 .. k - 1 : r[m] = IF m = 0 THEN AtFirst ELSE Graph!Tried(r[m - 1], tries[m])
    BY <2>2 DEF Run
  <2>4. \A m \in 0 .. k : run[m] = IF m = 0 THEN AtFirst ELSE Graph!Tried(run[m - 1], tries[m])
    <3> SUFFICES ASSUME NEW m \in 0 .. k PROVE run[m] = IF m = 0 THEN AtFirst ELSE Graph!Tried(run[m - 1], tries[m])
      OBVIOUS
    <3>1. CASE m = k
      <4>1. m # 0 /\ k - 1 \in 0 .. k /\ k - 1 # k
        BY <1>3, <1>5, <3>1
      <4>2. run[k - 1] = r[k - 1]
        BY <4>1
      <4>3. run[m] = Graph!Tried(r[k - 1], tries[k])
        BY <3>1
      <4> HIDE DEF run
      <4> QED BY <3>1, <4>1, <4>2, <4>3
    <3>2. CASE m # k /\ m = 0
      <4>1. m \in 0 .. k - 1
        BY <1>3, <3>2
      <4> QED BY <2>3, <3>2, <4>1
    <3>3. CASE m # k /\ m # 0
      <4>1. m \in 0 .. k - 1 /\ m - 1 \in 0 .. k /\ m - 1 # k
        BY <1>3, <3>3
      <4>2. run[m] = r[m] /\ run[m - 1] = r[m - 1]
        BY <3>3, <4>1
      <4> HIDE DEF run
      <4> QED BY <2>3, <3>3, <4>1, <4>2
    <3> QED BY <3>1, <3>2, <3>3
  <2>5. DOMAIN run = 0 .. k /\ run = [m \in 0 .. k |-> run[m]]
    OBVIOUS
  <2> HIDE DEF run
  <2>6. Run(run, tries, k)
    BY <2>4, <2>5 DEF Run
  <2> QED BY <1>3, <2>6
<1> QED BY <1>4, <1>5

\* The end of a run.
LEMMA FoundIsTheEnd ==
  ASSUME NEW tries, Len(tries) \in Nat
  PROVE  \E run : Run(run, tries, Len(tries)) /\ Graph!Found(tries) = run[Len(tries)]
<1> DEFINE run == CHOOSE r : Run(r, tries, Len(tries))
<1>1. Run(run, tries, Len(tries))
  BY RunExists
<1>2. Graph!Found(tries) = run[Len(tries)]
  BY DEF Graph!Found, Run, AtFirst
<1> QED BY <1>1, <1>2

\* A step a depth may take.
GoodTry(try, d) ==
  /\ try.seed \in Graph!Seeds /\ try.path \in PathsOf(try.seed, d) /\ try.edge \in stored
  /\ Graph!Tip(try.path) \in {try.edge.from, try.edge.to} /\ Graph!Reached(try.path) \subseteq walk.visited

LEMMA RunFits ==
  ASSUME Asking, NEW d \in 0 .. 2, StageFits(AtFirst, d), NEW tries, Len(tries) \in Nat,
         DOMAIN tries = 1 .. Len(tries), \A n \in DOMAIN tries : GoodTry(tries[n], d)
  PROVE  LET result == Graph!Found(tries) IN
         /\ StageFits(result, d)
         /\ ~result.limit => \A n \in DOMAIN tries : TryFound(result, tries[n])
<1> DEFINE N == Len(tries)
<1>1. PICK run : Run(run, tries, N) /\ Graph!Found(tries) = run[N]
  BY FoundIsTheEnd
<1>2. \A n \in 0 .. N : run[n] = IF n = 0 THEN AtFirst ELSE Graph!Tried(run[n - 1], tries[n])
  BY <1>1 DEF Run
<1> DEFINE Good(n) == StageFits(run[n], d) /\ (~run[n].limit => \A m \in 1 .. n : TryFound(run[n], tries[m]))
<1> DEFINE T == {n \in 0 .. N : ~Good(n)}
<1>3. T = {}
  <2> SUFFICES ASSUME T # {} PROVE FALSE
    OBVIOUS
  <2>1. T \in SUBSET Nat
    OBVIOUS
  <2> HIDE DEF T
  <2>2. PICK k \in T : \A m \in T : k <= m
    BY <2>1, LeastNumber
  <2>3. k \in 0 .. N /\ ~Good(k)
    BY DEF T
  <2>4. CASE k = 0
    <3>1. run[k] = AtFirst
      BY <1>2, <2>3, <2>4
    <3> QED BY <2>3, <2>4, <3>1
  <2>5. CASE k # 0
    <3>1. k - 1 \in 0 .. N /\ k \in 1 .. N /\ k - 1 \notin T
      BY <2>2, <2>3, <2>5
    <3>2. Good(k - 1)
      BY <3>1 DEF T
    <3> DEFINE state == run[k - 1]
    <3> DEFINE try == tries[k]
    <3> DEFINE next == Graph!Tried(state, try)
    <3>3. run[k] = next
      BY <1>2, <2>3, <2>5
    <3>4. GoodTry(try, d)
      BY <3>1
    <3> HIDE DEF state, try
    <3>5. StageFits(state, d)
      BY <3>2 DEF state
    <3>6. /\ StageFits(next, d)
          /\ \A s \in Graph!Seeds : state.found[s] \subseteq next.found[s]
          /\ ~next.limit => ~state.limit /\ TryFound(next, try)
      BY <3>4, <3>5, TryKeeps DEF GoodTry
    <3> HIDE DEF next
    <3>7. ASSUME ~next.limit, NEW m \in 1 .. k PROVE TryFound(next, tries[m])
      <4>1. CASE m = k
        BY <3>6, <3>7, <4>1 DEF try
      <4>2. CASE m # k
        <5>1. m \in 1 .. k - 1 /\ m \in DOMAIN tries
          BY <3>1, <4>2
        <5>2. TryFound(state, tries[m])
          BY <3>2, <3>6, <3>7, <5>1 DEF state
        <5>3. tries[m].seed \in Graph!Seeds
          BY <5>1 DEF GoodTry
        <5> QED BY <3>6, <5>2, <5>3 DEF TryFound
      <4> QED BY <4>1, <4>2
    <3> QED BY <2>3, <3>3, <3>6, <3>7
  <2> QED BY <2>4, <2>5
<1>4. Good(N)
  <2>1. N \in 0 .. N
    OBVIOUS
  <2> HIDE DEF Good
  <2> QED BY <1>3, <2>1
<1> QED BY <1>1, <1>4

----------------------------------------------------------------------------
\* The paths of up to so many relations.
PathsUpTo(s, n) == UNION {PathsOf(s, m) : m \in 1 .. n}

\* What a seed retains are paths of the depths so far, within the limit.
Retained(s) ==
  /\ walk.retained[s] \subseteq PathsUpTo(s, walk.depth)
  /\ IsFiniteSet(walk.retained[s]) /\ Cardinality(walk.retained[s]) <= MaxPaths
  /\ \A p \in walk.retained[s] : Graph!Reached(p) \subseteq walk.visited

\* While it goes on, the frontier lists paths of the last depth.
Going ==
  /\ walk.depth < asked.depth /\ PathsListed(walk.frontier, walk.depth)
  /\ \A s \in Graph!Seeds : \A i \in DOMAIN walk.frontier[s] : Graph!Reached(walk.frontier[s][i]) \subseteq walk.visited

\* Nothing is missing.
NothingMissed(s) ==
  /\ walk.retained[s] = PathsUpTo(s, walk.depth)
  /\ walk.going => \A p \in PathsOf(s, walk.depth) : \E i \in DOMAIN walk.frontier[s] : walk.frontier[s][i] = p
  /\ ~walk.going => \A n \in walk.depth + 1 .. asked.depth : PathsOf(s, n) = {}

WalkInv ==
  /\ Asking /\ walk.depth \in 0 .. asked.depth /\ VisitedFits(walk.visited)
  /\ walk.going => Going
  /\ \A s \in Graph!Seeds : Retained(s)
  /\ ~walk.pathLimit /\ ~walk.visitedLimit => \A s \in Graph!Seeds : NothingMissed(s)

\* One depth finds paths of the next, and all of them unless it meets a limit.
DepthOf(all) == Graph!Found(Graph!Tries(walk.frontier, Graph!First(all, MaxRows - 1)))

LEMMA DepthFinds ==
  ASSUME WalkInv, walk.going
  PROVE  LET all == Graph!Rows(Graph!Tips(walk.frontier))
             result == DepthOf(all) IN
         /\ StageFits(result, walk.depth)
         /\ ~walk.pathLimit /\ ~walk.visitedLimit /\ ~(Len(all) >= MaxRows) /\ ~result.limit =>
              \A s \in Graph!Seeds : result.found[s] = PathsOf(s, walk.depth + 1)
<1> DEFINE d == walk.depth
<1> DEFINE f == walk.frontier
<1> DEFINE tips == Graph!Tips(f)
<1> DEFINE all == Graph!Rows(tips)
<1> DEFINE rows == Graph!First(all, MaxRows - 1)
<1> DEFINE tries == Graph!Tries(f, rows)
<1> DEFINE result == Graph!Found(tries)
<1>1. Asking /\ Going /\ VisitedFits(walk.visited)
  BY DEF WalkInv
<1>2. d \in 0 .. 2 /\ d \in 0 .. 3
  <2>1. asked.depth \in 1 .. 3 /\ walk.depth \in 0 .. asked.depth /\ walk.depth < asked.depth
    BY <1>1, WhatIsStored DEF WalkInv, Going
  <2> QED BY <2>1
<1>3. PathsListed(f, d)
  BY <1>1 DEF Going
<1>4. tips \in SUBSET Int /\ IsFiniteSet(tips)
  BY <1>1, <1>2, <1>3, TipsAreNumbers
<1> HIDE DEF tips
<1>5. ListOf(all, AllRows(tips))
  BY <1>1, <1>4, RowsAreListed
<1> HIDE DEF all
<1>6. /\ all \in Seq(AllRows(tips)) /\ MaxRows - 1 \in Nat /\ Len(all) \in Nat
      /\ \A row \in AllRows(tips) : \E i \in DOMAIN all : all[i] = row
  <2>1. MaxRows - 1 \in Nat
    BY GraphInputs DEF GraphInputs
  <2> QED BY <1>5, <2>1 DEF ListOf
<1>7. rows \in Seq(AllRows(tips)) /\ (Len(all) <= MaxRows - 1 => rows = all)
  BY <1>6, FirstOfAList
<1> HIDE DEF rows
<1>8. RelationsOf(rows) \subseteq stored
  <2>1. \A row \in AllRows(tips) : row[2] \in stored
    BY DEF AllRows
  <2>2. \A i \in DOMAIN rows : rows[i] \in AllRows(tips)
    BY <1>7
  <2> QED BY <2>1, <2>2 DEF RelationsOf
<1>9. TriesFit(tries, f, rows)
  BY <1>1, <1>2, <1>3, <1>8, TriesAreListed
<1> HIDE DEF tries
<1>10. \A n \in DOMAIN tries : GoodTry(tries[n], d)
  <2> SUFFICES ASSUME NEW n \in DOMAIN tries PROVE GoodTry(tries[n], d)
    OBVIOUS
  <2> DEFINE try == tries[n]
  <2>1. IsTry(try, f, rows)
    BY <1>9 DEF TriesFit
  <2> HIDE DEF try
  <2>2. PICK i \in DOMAIN f[try.seed] : try.path = f[try.seed][i]
    BY <2>1 DEF IsTry
  <2>3. try.seed \in Graph!Seeds /\ try.edge \in stored /\ Graph!Tip(try.path) \in {try.edge.from, try.edge.to}
    BY <1>8, <2>1 DEF IsTry
  <2>4. f[try.seed] \in Seq(PathsOf(try.seed, d))
    BY <1>3, <2>3 DEF PathsListed
  <2>5. try.path \in PathsOf(try.seed, d)
    BY <2>2, <2>4
  <2>6. Graph!Reached(try.path) \subseteq walk.visited
    BY <1>1, <2>2, <2>3 DEF Going
  <2> QED BY <2>3, <2>5, <2>6 DEF GoodTry, try
<1>11. StageFits(AtFirst, d)
  <2>1. AtFirst.visited = walk.visited /\ \A s \in Graph!Seeds : AtFirst.found[s] = {}
    BY DEF AtFirst
  <2>2. AtFirst \in [visited : SUBSET Int, limit : BOOLEAN, found : [Graph!Seeds -> SUBSET AnyPath]]
    BY <1>1 DEF AtFirst, VisitedFits
  <2>3. IsFiniteSet({})
    BY FS_EmptySet
  <2> QED BY <1>1, <2>1, <2>2, <2>3 DEF StageFits
<1>12. Len(tries) \in Nat /\ DOMAIN tries = 1 .. Len(tries)
  BY <1>9 DEF TriesFit
<1>13. StageFits(result, d) /\ (~result.limit => \A n \in DOMAIN tries : TryFound(result, tries[n]))
  BY <1>1, <1>2, <1>10, <1>11, <1>12, RunFits
<1> HIDE DEF result
<1>14. ASSUME ~walk.pathLimit, ~walk.visitedLimit, ~(Len(all) >= MaxRows), ~result.limit, NEW s \in Graph!Seeds
       PROVE  result.found[s] = PathsOf(s, d + 1)
  <2>1. result.found[s] \subseteq PathsOf(s, d + 1)
    BY <1>13 DEF StageFits
  <2>2. ASSUME NEW q \in PathsOf(s, d + 1) PROVE q \in result.found[s]
    <3>1. PICK p \in PathsOf(s, d), e \in stored : Continues(p, e) /\ q = Grown(p, e)
      BY <1>1, <1>2, PathShrinks
    <3>2. PICK i \in DOMAIN f[s] : f[s][i] = p
      BY <1>14 DEF WalkInv, NothingMissed
    <3>3. Graph!Tip(p) \in {e.from, e.to}
      BY <3>1 DEF Continues
    <3>4. Graph!Tip(p) \in tips
      BY <3>2 DEF tips, Graph!Tips
    <3>5. <<Graph!Tip(p), e>> \in AllRows(tips)
      BY <3>3, <3>4 DEF AllRows
    <3>6. rows = all
      <4>1. MaxRows \in Nat
        BY GraphInputs DEF GraphInputs
      <4>2. Len(all) <= MaxRows - 1
        BY <1>6, <1>14, <4>1
      <4> QED BY <1>7, <4>2
    <3>7. e \in RelationsOf(rows)
      <4>1. PICK k \in DOMAIN all : all[k] = <<Graph!Tip(p), e>>
        BY <1>6, <3>5
      <4>2. all[k][2] = e
        BY <4>1
      <4> QED BY <3>6, <4>2 DEF RelationsOf
    <3>8. PICK n \in DOMAIN tries : tries[n].seed = s /\ tries[n].path = p /\ tries[n].edge = e
      BY <1>9, <3>2, <3>3, <3>7 DEF TriesFit
    <3>9. TryFound(result, tries[n])
      BY <1>13, <1>14
    <3> QED BY <3>1, <3>8, <3>9 DEF TryFound
  <2> QED BY <2>1, <2>2
<1> QED BY <1>13, <1>14 DEF DepthOf, result, tries, rows, all, tips

----------------------------------------------------------------------------
\* The best of some paths of a seed, no more than the limit, and all when they are no more.
Best(S) == Graph!First(Graph!ByPriority(S), MaxPaths)

BestFits(S) ==
  /\ Best(S) \in Seq(S) /\ Graph!Range(Best(S)) \subseteq S
  /\ IsFiniteSet(Graph!Range(Best(S))) /\ Cardinality(Graph!Range(Best(S))) <= MaxPaths
  /\ Cardinality(S) <= MaxPaths => \A p \in S : \E i \in DOMAIN Best(S) : Best(S)[i] = p

LEMMA BestAreKept ==
  ASSUME Asking, NEW s \in Graph!Seeds, NEW S \in SUBSET PathsUpTo(s, 3), IsFiniteSet(S)
  PROVE  BestFits(S)
<1> DEFINE key == [p \in S |-> Graph!PathPriority(p)]
<1> DEFINE list == Graph!Sorted(S, key)
<1> DEFINE begin == Graph!First(list, MaxPaths)
<1>1. \A p \in S : \E n \in 1 .. 3 : p \in PathsOf(s, n)
  BY DEF PathsUpTo
<1>2. \A p \in S : key[p] = Graph!PathPriority(p)
  OBVIOUS
<1>3. Best(S) = begin
  BY DEF Best, Graph!ByPriority
<1> HIDE DEF key
<1>4. \A p \in S : key[p] \in Seq(Int)
  BY <1>1, <1>2, PathKeys
<1>5. \A p, q \in S : key[p] = key[q] => p = q
  <2> SUFFICES ASSUME NEW p \in S, NEW q \in S, key[p] = key[q] PROVE p = q
    OBVIOUS
  <2>1. PICK n \in 1 .. 3 : p \in PathsOf(s, n)
    BY <1>1
  <2>2. PICK m \in 1 .. 3 : q \in PathsOf(s, m)
    BY <1>1
  <2>3. Graph!PathPriority(p) = Graph!PathPriority(q)
    BY <1>2
  <2> QED BY <2>1, <2>2, <2>3, PathKeys
<1>6. ListOf(list, S)
  BY <1>4, <1>5, SortedIsAList
<1> HIDE DEF list
<1>7. /\ list \in Seq(S) /\ Len(list) = Cardinality(S)
      /\ \A p \in S : \E i \in DOMAIN list : list[i] = p
  BY <1>6 DEF ListOf
<1>8. MaxPaths \in Nat
  BY GraphInputs DEF GraphInputs
<1> DEFINE m == IF Len(list) < MaxPaths THEN Len(list) ELSE MaxPaths
<1>9. /\ m \in Nat /\ m <= MaxPaths
      /\ begin \in Seq(S) /\ DOMAIN begin = 1 .. m
      /\ Len(list) <= MaxPaths => begin = list
  BY <1>7, <1>8, FirstOfAList
<1> HIDE DEF m, begin
<1>10. Graph!Range(begin) = {begin[i] : i \in 1 .. m}
  BY <1>9 DEF Graph!Range
<1>11. IsFiniteSet(1 .. m) /\ Cardinality(1 .. m) = m
  <2>1. 1 \in Int /\ m \in Int /\ (IF 1 > m THEN 0 ELSE m - 1 + 1) = m
    BY <1>9
  <2> QED BY <2>1, FS_Interval
<1>12. IsFiniteSet(Graph!Range(begin)) /\ Cardinality(Graph!Range(begin)) <= Cardinality(1 .. m)
  <2> DEFINE g == [i \in 1 .. m |-> begin[i]]
  <2>1. g \in Surjection(1 .. m, Graph!Range(begin))
    BY <1>10 DEF Surjection
  <2> HIDE DEF g
  <2> QED BY <1>11, <2>1, FS_Surjection
<1>13. Cardinality(Graph!Range(begin)) <= MaxPaths
  <2>1. Cardinality(Graph!Range(begin)) \in Nat
    BY <1>12, FS_CardinalityType
  <2> QED BY <1>8, <1>9, <1>11, <1>12, <2>1
<1>14. Graph!Range(begin) \subseteq S
  BY <1>9, <1>10
<1> QED BY <1>3, <1>7, <1>9, <1>12, <1>13, <1>14 DEF BestFits

\* Where there is no path there is no longer one.
LEMMA NoneIsLonger ==
  ASSUME Asking, NEW s \in Graph!Seeds, NEW n \in 1 .. 3, NEW m \in n .. 3, PathsOf(s, n) = {}
  PROVE  PathsOf(s, m) = {}
<1>1. \A k \in 0 .. 2 : PathsOf(s, k) = {} => PathsOf(s, k + 1) = {}
  BY PathShrinks
<1>2. /\ PathsOf(s, 1) = {} => PathsOf(s, 2) = {}
      /\ PathsOf(s, 2) = {} => PathsOf(s, 3) = {}
  <2>1. 1 \in 0 .. 2 /\ 2 \in 0 .. 2 /\ 1 + 1 = 2 /\ 2 + 1 = 3
    OBVIOUS
  <2>2. (PathsOf(s, 1) = {} => PathsOf(s, 1 + 1) = {}) /\ (PathsOf(s, 2) = {} => PathsOf(s, 2 + 1) = {})
    BY <1>1, <2>1
  <2> QED BY <2>1, <2>2
<1>3. (n = 1 \/ n = 2 \/ n = 3) /\ (m = 1 \/ m = 2 \/ m = 3) /\ n <= m
  OBVIOUS
<1> QED BY <1>2, <1>3

LEMMA UpToTheNext ==
  ASSUME NEW s, NEW d \in 0 .. 2
  PROVE  PathsUpTo(s, d + 1) = PathsUpTo(s, d) \cup PathsOf(s, d + 1)
<1>1. \A m : m \in 1 .. d + 1 <=> m \in 1 .. d \/ m = d + 1
  OBVIOUS
<1> QED BY <1>1 DEF PathsUpTo

LEMMA UpToMore ==
  ASSUME NEW s, NEW n \in 0 .. 3, NEW m \in n .. 3
  PROVE  PathsUpTo(s, n) \subseteq PathsUpTo(s, m)
<1>1. \A k \in 1 .. n : k \in 1 .. m
  OBVIOUS
<1> QED BY <1>1 DEF PathsUpTo

\* What one depth makes of a walk.
LEMMA WalkContinues ==
  ASSUME WalkInv, Graph!Deepen
  PROVE  WalkInv'
<1> DEFINE d == walk.depth
<1> DEFINE all == Graph!Rows(Graph!Tips(walk.frontier))
<1> DEFINE r == DepthOf(all)
<1> DEFINE cutoff == Len(all) >= MaxRows
<1> DEFINE best(s) == Best(r.found[s])
<1> DEFINE kept(s) == walk.retained[s] \cup Graph!Range(best(s))
<1> DEFINE more == \E s \in Graph!Seeds : r.found[s] # {}
<1>1. /\ walk.going /\ UNCHANGED <<stored, asked>>
      /\ walk' = Graph!Deepened(walk, r, cutoff)
  BY DEF Graph!Deepen, DepthOf
<1>2. /\ StageFits(r, d)
      /\ ~walk.pathLimit /\ ~walk.visitedLimit /\ ~cutoff /\ ~r.limit =>
           \A s \in Graph!Seeds : r.found[s] = PathsOf(s, d + 1)
  BY <1>1, DepthFinds
<1>3. Asking /\ Going /\ \A s \in Graph!Seeds : Retained(s)
  BY <1>1 DEF WalkInv
<1>4. d \in 0 .. 2 /\ d + 1 \in 0 .. asked.depth /\ asked.depth \in 1 .. 3 /\ d \in 0 .. asked.depth
  <2>1. asked.depth \in 1 .. 3 /\ walk.depth \in 0 .. asked.depth /\ walk.depth < asked.depth
    BY <1>3, WhatIsStored DEF WalkInv, Going
  <2> QED BY <2>1
<1> HIDE DEF r, cutoff
<1>5. /\ walk'.depth = IF more THEN d + 1 ELSE d
      /\ walk'.going <=> more /\ d + 1 < asked.depth
      /\ walk'.visited = r.visited
      /\ walk'.frontier = [s \in Graph!Seeds |-> best(s)]
      /\ walk'.retained = [s \in Graph!Seeds |-> Graph!Range(Best(kept(s)))]
      /\ ~walk'.pathLimit => /\ ~cutoff /\ ~walk.pathLimit
                            /\ \A s \in Graph!Seeds : /\ ~(Cardinality(r.found[s]) > MaxPaths)
                                                      /\ ~(Cardinality(kept(s)) > MaxPaths)
      /\ ~walk'.visitedLimit => ~r.limit /\ ~walk.visitedLimit
  <2>1. \A S : Graph!Cardinality(S) = Cardinality(S)
    BY DEF Graph!Cardinality, Cardinality
  <2> DEFINE w == Graph!Continued(walk, r)
  <2>2. /\ w.depth = IF more THEN d + 1 ELSE d
        /\ w.going <=> more /\ d + 1 < asked.depth
        /\ w.visited = r.visited
        /\ w.frontier = [s \in Graph!Seeds |-> best(s)]
        /\ w.retained = [s \in Graph!Seeds |-> Graph!Range(Best(kept(s)))]
        /\ w.pathLimit <=> \E s \in Graph!Seeds : Cardinality(r.found[s]) > MaxPaths \/ Cardinality(kept(s)) > MaxPaths
        /\ w.visitedLimit = r.limit
    BY <2>1 DEF Graph!Continued, Best
  <2>3. DOMAIN w = {"depth", "going", "visited", "frontier", "retained", "pathLimit", "visitedLimit"}
    BY DEF Graph!Continued
  <2>4. walk' = [w EXCEPT !.pathLimit = (@ \/ cutoff \/ walk.pathLimit), !.visitedLimit = (@ \/ walk.visitedLimit)]
    BY <1>1 DEF Graph!Deepened
  <2> HIDE DEF w, best, kept, more
  <2>5. /\ walk'.depth = w.depth /\ walk'.going = w.going /\ walk'.visited = w.visited
        /\ walk'.frontier = w.frontier /\ walk'.retained = w.retained
        /\ walk'.pathLimit = (w.pathLimit \/ cutoff \/ walk.pathLimit)
        /\ walk'.visitedLimit = (w.visitedLimit \/ walk.visitedLimit)
    BY <2>3, <2>4
  <2> QED BY <2>2, <2>5
<1>6. Graph!Seeds' = Graph!Seeds /\ Asking' /\ asked' = asked /\ \A s, n : PathsOf(s, n)' = PathsOf(s, n)
  <2>1. Graph!Seeds' = Graph!Seeds
    BY <1>1 DEF Graph!Seeds
  <2>2. Graph!Entities' = Graph!Entities
    BY <1>1, <2>1 DEF Graph!Entities
  <2>3. ASSUME NEW s, NEW n PROVE PathsOf(s, n)' = PathsOf(s, n)
    BY <1>1, <2>2 DEF PathsOf, Graph!Routes, Graph!Joined
  <2> QED BY <1>1, <1>3, <2>1, <2>3 DEF Asking
<1> HIDE DEF best, kept, more
<1>7. ASSUME NEW s \in Graph!Seeds
      PROVE  /\ r.found[s] \subseteq PathsOf(s, d + 1) /\ BestFits(r.found[s])
             /\ kept(s) \subseteq PathsUpTo(s, walk'.depth) /\ BestFits(kept(s))
             /\ \A p \in kept(s) : Graph!Reached(p) \subseteq r.visited
  <2>1. /\ r.found[s] \subseteq PathsOf(s, d + 1) /\ IsFiniteSet(r.found[s])
        /\ \A p \in r.found[s] : Graph!Reached(p) \subseteq r.visited
        /\ walk.visited \subseteq r.visited
    BY <1>2 DEF StageFits
  <2>2. PathsUpTo(s, d + 1) = PathsUpTo(s, d) \cup PathsOf(s, d + 1)
    BY <1>4, UpToTheNext
  <2>3. PathsUpTo(s, d + 1) \subseteq PathsUpTo(s, 3) /\ PathsUpTo(s, d) \subseteq PathsUpTo(s, 3)
    <3>1. d + 1 \in 0 .. 3 /\ 3 \in d + 1 .. 3 /\ d \in 0 .. 3 /\ 3 \in d .. 3
      BY <1>4
    <3> QED BY <3>1, UpToMore
  <2>4. BestFits(r.found[s])
    <3>1. r.found[s] \in SUBSET PathsUpTo(s, 3)
      BY <2>1, <2>2, <2>3
    <3> QED BY <1>3, <2>1, <3>1, BestAreKept
  <2>5. /\ Graph!Range(best(s)) \subseteq r.found[s] /\ IsFiniteSet(Graph!Range(best(s)))
    BY <2>4 DEF BestFits, best
  <2>6. /\ walk.retained[s] \subseteq PathsUpTo(s, d) /\ IsFiniteSet(walk.retained[s])
        /\ \A p \in walk.retained[s] : Graph!Reached(p) \subseteq walk.visited
    BY <1>3 DEF Retained
  <2>7. IsFiniteSet(kept(s)) /\ \A p \in kept(s) : p \in walk.retained[s] \/ p \in r.found[s]
    BY <2>5, <2>6, FS_Union DEF kept
  <2>8. kept(s) \subseteq PathsUpTo(s, walk'.depth)
    <3>1. CASE more
      BY <1>5, <2>1, <2>2, <2>6, <2>7, <3>1
    <3>2. CASE ~more
      <4>1. r.found[s] = {}
        BY <3>2 DEF more
      <4> QED BY <1>5, <2>6, <2>7, <3>2, <4>1
    <3> QED BY <3>1, <3>2
  <2>9. kept(s) \in SUBSET PathsUpTo(s, 3)
    BY <2>1, <2>2, <2>3, <2>6, <2>7
  <2>10. BestFits(kept(s))
    BY <1>3, <2>7, <2>9, BestAreKept
  <2>11. \A p \in kept(s) : Graph!Reached(p) \subseteq r.visited
    BY <2>1, <2>6, <2>7
  <2> QED BY <2>1, <2>4, <2>8, <2>10, <2>11
<1>8. \A s, n : PathsUpTo(s, n)' = PathsUpTo(s, n)
  BY <1>6 DEF PathsUpTo
<1>9. ASSUME NEW s \in Graph!Seeds PROVE Retained(s)'
  <2>1. walk'.retained[s] = Graph!Range(Best(kept(s)))
    BY <1>5
  <2>2. /\ Graph!Range(Best(kept(s))) \subseteq kept(s) /\ IsFiniteSet(Graph!Range(Best(kept(s))))
        /\ Cardinality(Graph!Range(Best(kept(s)))) <= MaxPaths
    BY <1>7 DEF BestFits
  <2>3. PathsUpTo(s, walk.depth)' = PathsUpTo(s, walk'.depth)
    BY <1>6 DEF PathsUpTo
  <2>4. walk'.retained[s] \subseteq PathsUpTo(s, walk'.depth)
    BY <1>7, <2>1, <2>2
  <2>5. \A p \in walk'.retained[s] : Graph!Reached(p) \subseteq walk'.visited
    BY <1>5, <1>7, <2>1, <2>2
  <2> QED BY <2>1, <2>2, <2>3, <2>4, <2>5 DEF Retained
<1>10. ASSUME walk'.going PROVE Going'
  <2>1. walk'.depth = d + 1 /\ d + 1 < asked.depth
    BY <1>5, <1>10
  <2>2. ASSUME NEW s \in Graph!Seeds
        PROVE  /\ walk'.frontier[s] \in Seq(PathsOf(s, d + 1))
               /\ \A i \in DOMAIN walk'.frontier[s] : Graph!Reached(walk'.frontier[s][i]) \subseteq walk'.visited
    <3>1. walk'.frontier[s] = Best(r.found[s])
      BY <1>5 DEF best
    <3>2. Best(r.found[s]) \in Seq(r.found[s])
      BY <1>7 DEF BestFits
    <3> DEFINE b == Best(r.found[s])
    <3> DEFINE F == r.found[s]
    <3>3. b \in Seq(F) /\ F \subseteq PathsOf(s, d + 1) /\ \A p \in F : Graph!Reached(p) \subseteq r.visited
      BY <1>2, <1>7, <3>2 DEF StageFits
    <3> HIDE DEF b, F
    <3>4. \A i \in DOMAIN b : b[i] \in F
      BY <3>3
    <3>5. b \in Seq(PathsOf(s, d + 1))
      BY <3>3
    <3>6. walk'.frontier[s] = b /\ walk'.visited = r.visited
      BY <1>5, <3>1 DEF b
    <3> QED BY <3>3, <3>4, <3>5, <3>6
  <2>3. PathsListed(walk.frontier, walk.depth)'
    <3>1. \A s : PathsOf(s, walk.depth)' = PathsOf(s, walk'.depth)
      BY <1>6 DEF PathsOf
    <3> QED BY <1>6, <2>1, <2>2, <3>1 DEF PathsListed
  <2> QED BY <1>6, <2>1, <2>2, <2>3 DEF Going
<1>11. ASSUME ~walk'.pathLimit, ~walk'.visitedLimit, NEW s \in Graph!Seeds
       PROVE  NothingMissed(s)'
  <2>1. /\ ~walk.pathLimit /\ ~walk.visitedLimit /\ ~cutoff /\ ~r.limit
        /\ ~(Cardinality(r.found[s]) > MaxPaths) /\ ~(Cardinality(kept(s)) > MaxPaths)
    BY <1>5, <1>11
  <2>2. \A q \in Graph!Seeds : r.found[q] = PathsOf(q, d + 1)
    BY <1>2, <2>1
  <2>3. /\ IsFiniteSet(r.found[s]) /\ IsFiniteSet(kept(s))
        /\ Graph!Range(best(s)) \subseteq r.found[s]
    <3>1. IsFiniteSet(r.found[s])
      BY <1>2 DEF StageFits
    <3>2. Graph!Range(best(s)) \subseteq r.found[s] /\ IsFiniteSet(Graph!Range(best(s)))
      BY <1>7 DEF BestFits, best
    <3>3. IsFiniteSet(walk.retained[s])
      BY <1>3 DEF Retained
    <3> QED BY <3>1, <3>2, <3>3, FS_Union DEF kept
  <2>4. Cardinality(r.found[s]) <= MaxPaths /\ Cardinality(kept(s)) <= MaxPaths
    <3>1. Cardinality(r.found[s]) \in Nat /\ Cardinality(kept(s)) \in Nat /\ MaxPaths \in Nat
      BY <2>3, FS_CardinalityType, GraphInputs DEF GraphInputs
    <3> QED BY <2>1, <3>1
  <2>5. \A q \in PathsOf(s, d + 1) : \E i \in DOMAIN walk'.frontier[s] : walk'.frontier[s][i] = q
    <3>1. walk'.frontier[s] = Best(r.found[s])
      BY <1>5 DEF best
    <3>2. \A q \in r.found[s] : \E i \in DOMAIN Best(r.found[s]) : Best(r.found[s])[i] = q
      BY <1>7, <2>4 DEF BestFits
    <3> QED BY <2>2, <3>1, <3>2
  <2>6. Graph!Range(best(s)) = PathsOf(s, d + 1)
    <3>1. \A q \in PathsOf(s, d + 1) : q \in Graph!Range(best(s))
      <4>1. walk'.frontier[s] = best(s)
        BY <1>5
      <4> QED BY <2>5, <4>1 DEF Graph!Range
    <3> QED BY <2>2, <2>3, <3>1
  <2>7. NothingMissed(s)
    BY <1>3, <2>1 DEF WalkInv
  <2>8. kept(s) = PathsUpTo(s, d + 1)
    <3>1. walk.retained[s] = PathsUpTo(s, d)
      BY <2>7 DEF NothingMissed
    <3>2. PathsUpTo(s, d + 1) = PathsUpTo(s, d) \cup PathsOf(s, d + 1)
      BY <1>4, UpToTheNext
    <3> QED BY <2>6, <3>1, <3>2 DEF kept
  <2>9. walk'.retained[s] = kept(s)
    <3>1. walk'.retained[s] = Graph!Range(Best(kept(s)))
      BY <1>5
    <3>2. Graph!Range(Best(kept(s))) \subseteq kept(s)
      BY <1>7 DEF BestFits
    <3>3. \A q \in kept(s) : q \in Graph!Range(Best(kept(s)))
      <4>1. \A q \in kept(s) : \E i \in DOMAIN Best(kept(s)) : Best(kept(s))[i] = q
        BY <1>7, <2>4 DEF BestFits
      <4> DEFINE b == Best(kept(s))
      <4>2. \A q \in kept(s) : \E i \in DOMAIN b : b[i] = q
        BY <4>1
      <4> HIDE DEF b
      <4>3. Graph!Range(b) = {b[i] : i \in DOMAIN b}
        BY DEF Graph!Range
      <4>4. \A q \in kept(s) : q \in Graph!Range(b)
        BY <4>2, <4>3
      <4> QED BY <4>4 DEF b
    <3> QED BY <3>1, <3>2, <3>3
  <2>10. walk'.retained[s] = PathsUpTo(s, walk'.depth)
    <3>1. CASE more
      BY <1>5, <2>8, <2>9, <3>1
    <3>2. CASE ~more
      <4>1. PathsOf(s, d + 1) = {}
        BY <2>2, <3>2 DEF more
      <4>2. PathsUpTo(s, d + 1) = PathsUpTo(s, d)
        BY <1>4, <4>1, UpToTheNext
      <4> QED BY <1>5, <2>8, <2>9, <3>2, <4>2
    <3> QED BY <3>1, <3>2
  <2>11. walk'.going => walk'.depth = d + 1
    BY <1>5
  <2>12. ASSUME ~walk'.going, NEW n \in walk'.depth + 1 .. asked.depth PROVE PathsOf(s, n) = {}
    <3>1. CASE more
      <4>1. walk'.depth = d + 1 /\ ~(d + 1 < asked.depth)
        BY <1>5, <2>12, <3>1
      <4> QED BY <1>4, <4>1
    <3>2. CASE ~more
      <4>1. PathsOf(s, d + 1) = {} /\ walk'.depth = d
        BY <1>5, <2>2, <3>2 DEF more
      <4>2. n \in d + 1 .. asked.depth
        BY <4>1
      <4>3. d + 1 \in 1 .. 3 /\ n \in d + 1 .. 3
        BY <1>4, <4>2
      <4> QED BY <1>3, <4>1, <4>3, NoneIsLonger DEF Going
    <3> QED BY <3>1, <3>2
  <2>13. PathsUpTo(s, walk.depth)' = PathsUpTo(s, walk'.depth) /\ \A n : PathsOf(s, n)' = PathsOf(s, n)
    BY <1>6 DEF PathsUpTo
  <2>14. PathsOf(s, walk.depth)' = PathsOf(s, walk'.depth)
    BY <1>6 DEF PathsOf
  <2>15. walk'.going => \A q \in PathsOf(s, walk.depth)' : \E i \in DOMAIN walk'.frontier[s] : walk'.frontier[s][i] = q
    BY <2>5, <2>11, <2>14
  <2>16. ~walk'.going => \A n \in walk'.depth + 1 .. asked'.depth : PathsOf(s, n)' = {}
    BY <1>6, <2>12, <2>13
  <2> QED BY <2>10, <2>13, <2>15, <2>16 DEF NothingMissed
<1>12. walk'.depth \in 0 .. asked'.depth /\ VisitedFits(walk.visited)'
  <2>1. walk'.depth \in 0 .. asked'.depth
    BY <1>4, <1>5, <1>6
  <2>2. VisitedFits(r.visited)
    BY <1>2 DEF StageFits
  <2> QED BY <1>5, <1>6, <2>1, <2>2 DEF VisitedFits
<1>13. (\A s \in Graph!Seeds : Retained(s))' /\ (~walk.pathLimit /\ ~walk.visitedLimit => \A s \in Graph!Seeds : NothingMissed(s))'
  BY <1>6, <1>9, <1>11
<1> QED BY <1>6, <1>10, <1>12, <1>13 DEF WalkInv

\* Where a walk begins.
LEMMA WalkBegins ==
  ASSUME Graph!Init
  PROVE  WalkInv
<1> DEFINE start(s) == [entities |-> <<s>>, relations |-> <<>>]
<1>1. Asking
  BY DEF Graph!Init, Asking
<1>2. /\ walk.depth = 0 /\ (walk.going <=> Len(asked.seeds) > 0) /\ walk.visited = Graph!Seeds
      /\ walk.frontier = [s \in Graph!Seeds |-> <<start(s)>>]
      /\ walk.retained = [s \in Graph!Seeds |-> {}]
  BY DEF Graph!Init
<1>3. asked.depth \in 1 .. 3 /\ asked.seeds \in Seq(Int) /\ Graph!Seeds \subseteq Int /\ Graph!Seeds \subseteq Graph!Entities
  BY <1>1, WhatIsStored
<1>4. VisitedFits(walk.visited)
  BY <1>1, <1>2, <1>3, SeedsAreFinite DEF VisitedFits
<1>5. \A s : PathsUpTo(s, 0) = {}
  <2>1. 1 .. 0 = {}
    OBVIOUS
  <2> QED BY <2>1 DEF PathsUpTo
<1>6. ASSUME NEW s \in Graph!Seeds
      PROVE  /\ PathsOf(s, 0) = {start(s)} /\ Graph!Reached(start(s)) = {}
             /\ walk.frontier[s] = <<start(s)>> /\ walk.retained[s] = {}
  <2>1. start(s) \in PathsOf(s, 0)
    <3>1. <<s>> \in [1 .. 0 + 1 -> Graph!Entities] /\ <<s>>[1] = s /\ IsInjective(<<s>>)
      BY <1>3 DEF IsInjective
    <3>2. <<>> \in [1 .. 0 -> stored]
      OBVIOUS
    <3>3. Graph!Joined(start(s))
      BY DEF Graph!Joined
    <3> QED BY <3>1, <3>2, <3>3, IsAPath
  <2>2. ASSUME NEW p \in PathsOf(s, 0) PROVE p = start(s)
    <3>1. 0 \in 0 .. 3
      OBVIOUS
    <3>2. PathOf(s, 0, p)
      BY <1>1, <3>1, PartsOfAPath
    <3>3. p.entities \in Seq(Int) /\ Len(p.entities) = 1 /\ p.entities[1] = s
      BY <3>2 DEF PathOf
    <3>4. p.relations \in Seq(stored) /\ Len(p.relations) = 0
      BY <3>2 DEF PathOf
    <3>5. p.entities = <<s>> /\ p.relations = <<>>
      BY <3>3, <3>4
    <3>6. p = [entities |-> p.entities, relations |-> p.relations]
      BY <3>2 DEF PathOf
    <3> QED BY <3>5, <3>6
  <2>3. Graph!Reached(start(s)) = {}
    <3>1. Len(start(s).entities) = 1 /\ 2 .. 1 = {}
      OBVIOUS
    <3> QED BY <3>1 DEF Graph!Reached
  <2> QED BY <1>2, <2>1, <2>2, <2>3
<1> HIDE DEF start
<1>7. ASSUME NEW s \in Graph!Seeds PROVE Retained(s)
  <2>1. IsFiniteSet({}) /\ Cardinality({}) = 0
    BY FS_EmptySet
  <2>2. MaxPaths \in Nat
    BY GraphInputs DEF GraphInputs
  <2> DEFINE kept == walk.retained[s]
  <2>3. kept = {}
    BY <1>6
  <2> HIDE DEF kept
  <2>4. kept \subseteq PathsUpTo(s, walk.depth) /\ \A p \in kept : Graph!Reached(p) \subseteq walk.visited
    BY <2>3
  <2>5. IsFiniteSet(kept) /\ Cardinality(kept) <= MaxPaths
    BY <2>1, <2>2, <2>3
  <2> QED BY <2>4, <2>5 DEF Retained, kept
<1>8. ASSUME walk.going PROVE Going
  <2>1. walk.depth < asked.depth
    BY <1>2, <1>3
  <2>2. \A s \in Graph!Seeds : walk.frontier[s] \in Seq(PathsOf(s, walk.depth))
    BY <1>2, <1>6
  <2>3. \A s \in Graph!Seeds : \A i \in DOMAIN walk.frontier[s] : Graph!Reached(walk.frontier[s][i]) \subseteq walk.visited
    BY <1>6
  <2> QED BY <2>1, <2>2, <2>3 DEF Going, PathsListed
<1>9. ASSUME NEW s \in Graph!Seeds PROVE NothingMissed(s)
  <2>1. walk.going
    <3>1. asked.seeds # <<>>
      BY DEF Graph!Seeds
    <3> QED BY <1>2, <1>3, <3>1
  <2>2. \A p \in PathsOf(s, walk.depth) : \E i \in DOMAIN walk.frontier[s] : walk.frontier[s][i] = p
    <3>1. walk.frontier[s][1] = start(s) /\ 1 \in DOMAIN walk.frontier[s]
      BY <1>6
    <3> QED BY <1>2, <1>6, <3>1
  <2> QED BY <1>2, <1>5, <1>6, <2>1, <2>2 DEF NothingMissed
<1>10. walk.depth \in 0 .. asked.depth
  BY <1>2, <1>3
<1> QED BY <1>1, <1>4, <1>7, <1>8, <1>9, <1>10 DEF WalkInv

\* The answer is what the walk that has ended is ranked to.
GraphInv == WalkInv /\ (answer.at = "ranked" => answer.hits = Graph!Ranked)

LEMMA WalkStays ==
  ASSUME WalkInv, UNCHANGED <<stored, asked, walk>>
  PROVE  WalkInv' /\ Graph!Ranked' = Graph!Ranked
<1>1. WalkInv'
  <2>1. Graph!Seeds' = Graph!Seeds
    BY DEF Graph!Seeds
  <2>2. Graph!Entities' = Graph!Entities
    BY <2>1 DEF Graph!Entities
  <2>3. \A s, n : PathsOf(s, n)' = PathsOf(s, n)
    BY <2>2 DEF PathsOf, Graph!Routes, Graph!Joined
  <2>4. \A s, n : PathsUpTo(s, n)' = PathsUpTo(s, n)
    BY <2>3 DEF PathsUpTo
  <2>5. \A s : PathsUpTo(s, walk.depth)' = PathsUpTo(s, walk.depth) /\ PathsOf(s, walk.depth)' = PathsOf(s, walk.depth)
    BY <2>2 DEF PathsUpTo, PathsOf, Graph!Routes, Graph!Joined
  <2>6. \A s : Retained(s)' <=> Retained(s)
    BY <2>5 DEF Retained
  <2>7. \A s : NothingMissed(s)' <=> NothingMissed(s)
    BY <2>3, <2>5 DEF NothingMissed
  <2>8. Going' <=> Going
    BY <2>1, <2>5 DEF Going, PathsListed
  <2>9. VisitedFits(walk.visited)' <=> VisitedFits(walk.visited)
    BY <2>1 DEF VisitedFits
  <2>10. Asking' <=> Asking
    BY DEF Asking
  <2> QED BY <2>1, <2>6, <2>7, <2>8, <2>9, <2>10 DEF WalkInv
<1>2. Graph!Ranked' = Graph!Ranked
  BY DEF Graph!Ranked, Graph!Recovered, Graph!Score, Graph!Mentioned, Graph!Relevant, Graph!Paths, Graph!Seeds
<1> QED BY <1>1, <1>2

LEMMA GraphSteps ==
  /\ Graph!Init => GraphInv
  /\ GraphInv /\ [Graph!Next]_graphVars => GraphInv'
<1>1. ASSUME Graph!Init PROVE GraphInv
  <2>1. answer.at = "walk"
    BY <1>1 DEF Graph!Init
  <2> QED BY <1>1, <2>1, WalkBegins DEF GraphInv
<1>2. ASSUME GraphInv, [Graph!Next]_graphVars PROVE GraphInv'
  <2>1. CASE Graph!Deepen
    <3>1. WalkInv'
      BY <1>2, <2>1, WalkContinues DEF GraphInv
    <3>2. answer' = answer /\ answer.at = "walk"
      BY <2>1 DEF Graph!Deepen
    <3> QED BY <3>1, <3>2 DEF GraphInv
  <2>2. CASE Graph!Rank
    <3>1. UNCHANGED <<stored, asked, walk>> /\ answer'.hits = Graph!Ranked
      BY <2>2 DEF Graph!Rank
    <3> QED BY <1>2, <3>1, WalkStays DEF GraphInv
  <2>3. CASE UNCHANGED graphVars
    <3>1. UNCHANGED <<stored, asked, walk>> /\ answer' = answer
      BY <2>3 DEF graphVars
    <3> QED BY <1>2, <3>1, WalkStays DEF GraphInv
  <2>4. CASE Graph!Answered
    <3>1. UNCHANGED graphVars
      BY <2>4 DEF Graph!Answered, Graph!vars, graphVars
    <3> QED BY <2>3, <3>1
  <2> QED BY <1>2, <2>1, <2>2, <2>3, <2>4 DEF Graph!Next
<1> QED BY <1>1, <1>2

\* What the walk keeps is what the definition of a path says.
LEMMA WalkIsHonest ==
  ASSUME WalkInv
  PROVE  Graph!TraversalHonest
<1>1. Asking /\ asked.depth \in 1 .. 3 /\ walk.depth \in 0 .. asked.depth
  BY WhatIsStored DEF WalkInv
<1>2. \A S : Graph!Cardinality(S) = Cardinality(S)
  BY DEF Graph!Cardinality, Cardinality
<1>3. \A s : Graph!PathsFrom(s) = PathsUpTo(s, asked.depth)
  BY DEF Graph!PathsFrom, PathsUpTo, PathsOf
<1>4. ASSUME NEW s \in Graph!Seeds
      PROVE  /\ walk.retained[s] \subseteq Graph!PathsFrom(s) /\ Cardinality(walk.retained[s]) <= MaxPaths
             /\ \A p \in walk.retained[s] : Graph!Reached(p) \subseteq walk.visited
  <2>1. Retained(s)
    BY DEF WalkInv
  <2>2. walk.depth \in 0 .. 3 /\ asked.depth \in walk.depth .. 3
    BY <1>1
  <2>3. PathsUpTo(s, walk.depth) \subseteq PathsUpTo(s, asked.depth)
    BY <2>2, UpToMore
  <2> QED BY <1>3, <2>1, <2>3 DEF Retained
<1>5. UNION {Graph!Reached(p) : p \in Graph!Paths} \subseteq walk.visited
  <2>1. \A p \in Graph!Paths : \E s \in Graph!Seeds : p \in walk.retained[s]
    BY DEF Graph!Paths
  <2>2. \A p \in Graph!Paths : Graph!Reached(p) \subseteq walk.visited
    BY <1>4, <2>1
  <2> QED BY <2>2
<1>6. ASSUME ~walk.going, ~walk.pathLimit, ~walk.visitedLimit, NEW s \in Graph!Seeds
      PROVE  walk.retained[s] = Graph!PathsFrom(s)
  <2>1. NothingMissed(s)
    BY <1>6 DEF WalkInv
  <2>2. walk.retained[s] = PathsUpTo(s, walk.depth) /\ \A n \in walk.depth + 1 .. asked.depth : PathsOf(s, n) = {}
    BY <1>6, <2>1 DEF NothingMissed
  <2>3. \A n \in 1 .. asked.depth : n \in 1 .. walk.depth \/ n \in walk.depth + 1 .. asked.depth
    BY <1>1
  <2>4. PathsUpTo(s, asked.depth) \subseteq PathsUpTo(s, walk.depth)
    BY <2>2, <2>3 DEF PathsUpTo
  <2> QED BY <1>3, <1>4, <2>2, <2>4
<1>7. Cardinality(walk.visited) <= MaxVisited \/ walk.visited = Graph!Seeds
  BY DEF WalkInv, VisitedFits
<1> QED BY <1>2, <1>4, <1>5, <1>6, <1>7 DEF Graph!TraversalHonest

----------------------------------------------------------------------------
\* A finite set of numbers has a greatest one.
LEMMA Greatest ==
  ASSUME NEW S \in SUBSET Int, IsFiniteSet(S), S # {}
  PROVE  \E n \in S : \A m \in S : m <= n
<1> DEFINE above == [x \in S |-> {y \in S : y < x}]
<1>1. above \in [S -> SUBSET S] /\ \A x, y \in S : y \in above[x] <=> y < x
  OBVIOUS
<1> HIDE DEF above
<1>2. \A x \in S : x \notin above[x]
  BY <1>1
<1>3. \A x, y \in S : y \in above[x] => above[y] \subseteq above[x]
  <2> SUFFICES ASSUME NEW x \in S, NEW y \in S, y \in above[x], NEW z \in above[y] PROVE z \in above[x]
    OBVIOUS
  <2>1. z \in S /\ z < y /\ y < x
    BY <1>1
  <2>2. x \in Int /\ y \in Int /\ z \in Int
    BY <2>1
  <2>3. z < x
    BY <2>1, <2>2
  <2> QED BY <1>1, <2>1, <2>3
<1>4. \A x, y \in S : x # y => x \in above[y] \/ y \in above[x]
  BY <1>1
<1> DEFINE n == Cardinality(S)
<1> DEFINE c(x) == Cardinality(above[x])
<1>5. /\ n \in Nat
      /\ \A x, y \in S : y \in above[x] => c(y) < c(x)
      /\ \A x \in S : c(x) \in 0 .. n - 1
      /\ \A i \in 1 .. n : \E x \in S : c(x) = i - 1
  BY <1>1, <1>2, <1>3, <1>4, Standings
<1>6. n # 0
  BY FS_EmptySet
<1> HIDE DEF n, c
<1>7. n \in 1 .. n
  BY <1>5, <1>6
<1>8. PICK x \in S : c(x) = n - 1
  BY <1>5, <1>7
<1>9. \A y \in S : ~(x < y)
  <2> SUFFICES ASSUME NEW y \in S, x < y PROVE FALSE
    OBVIOUS
  <2>1. c(x) < c(y) /\ c(y) \in 0 .. n - 1
    BY <1>1, <1>5
  <2> QED BY <1>5, <1>8, <2>1
<1> QED BY <1>9

LEMMA PathsAreFinite ==
  ASSUME WalkInv
  PROVE  /\ IsFiniteSet(Graph!Paths)
         /\ \A p \in Graph!Paths : \E s \in Graph!Seeds, n \in 1 .. 3 : p \in PathsOf(s, n)
<1>1. Asking /\ \A s \in Graph!Seeds : Retained(s)
  BY DEF WalkInv
<1>2. walk.depth \in 0 .. 3
  BY <1>1, WhatIsStored DEF WalkInv
<1>3. IsFiniteSet(Graph!Paths)
  <2> DEFINE kept == [s \in Graph!Seeds |-> walk.retained[s]]
  <2>1. Graph!Paths = UNION {kept[s] : s \in Graph!Seeds}
    <3>1. \A s \in Graph!Seeds : kept[s] = walk.retained[s]
      OBVIOUS
    <3> HIDE DEF kept
    <3>2. {kept[s] : s \in Graph!Seeds} = {walk.retained[s] : s \in Graph!Seeds}
      BY <3>1
    <3> QED BY <3>2 DEF Graph!Paths
  <2>2. DOMAIN kept = Graph!Seeds /\ \A s \in Graph!Seeds : IsFiniteSet(kept[s])
    BY <1>1 DEF Retained
  <2> HIDE DEF kept
  <2>3. IsFiniteSet({kept[s] : s \in Graph!Seeds})
    BY <1>1, <2>2, SeedsAreFinite, FiniteRange
  <2>4. \A T \in {kept[s] : s \in Graph!Seeds} : IsFiniteSet(T)
    BY <2>2
  <2> QED BY <2>1, <2>3, <2>4, FS_UNION
<1>4. ASSUME NEW p \in Graph!Paths PROVE \E s \in Graph!Seeds, n \in 1 .. 3 : p \in PathsOf(s, n)
  <2>1. PICK s \in Graph!Seeds : p \in walk.retained[s]
    BY DEF Graph!Paths
  <2>2. p \in PathsUpTo(s, walk.depth)
    BY <1>1, <2>1 DEF Retained
  <2>3. PICK n \in 1 .. walk.depth : p \in PathsOf(s, n)
    BY <2>2 DEF PathsUpTo
  <2>4. n \in 1 .. 3
    BY <1>2
  <2> QED BY <2>3, <2>4
<1> QED BY <1>3, <1>4

\* The chunks that are reached are finitely many, and each mentions what was reached.
LEMMA RecoveredFits ==
  ASSUME Asking
  PROVE  /\ IsFiniteSet(Graph!Recovered) /\ Graph!Recovered \subseteq Int
         /\ \A c \in Graph!Recovered : Graph!Mentioned(c) # {}
<1> DEFINE chunks == {c \in {e.chunk : e \in stored} : Graph!Mentioned(c) # {}}
<1> DEFINE key == [c \in chunks |-> <<c>>]
<1> DEFINE list == Graph!Sorted(chunks, key)
<1> DEFINE begin == Graph!First(list, MaxChunks)
<1>1. /\ IsFiniteSet(stored) /\ \A e \in stored : e.chunk \in Int
  BY WhatIsStored
<1>2. IsFiniteSet(chunks)
  <2> DEFINE f == [e \in stored |-> e.chunk]
  <2>1. DOMAIN f = stored /\ {f[e] : e \in stored} = {e.chunk : e \in stored}
    OBVIOUS
  <2> HIDE DEF f
  <2>2. IsFiniteSet({f[e] : e \in stored})
    BY <1>1, <2>1, FiniteRange
  <2>3. chunks \subseteq {f[e] : e \in stored}
    BY <2>1
  <2> QED BY <2>2, <2>3, FS_Subset
<1>3. chunks \subseteq Int
  BY <1>1
<1>4. \A c \in chunks : Graph!Mentioned(c) # {}
  OBVIOUS
<1>5. Graph!Recovered = Graph!Range(begin)
  BY DEF Graph!Recovered
<1> HIDE DEF chunks
<1>6. \A c \in chunks : key[c] = <<c>>
  OBVIOUS
<1> HIDE DEF key
<1>7. ListOf(list, chunks)
  <2>1. ASSUME NEW c \in chunks PROVE key[c] \in Seq(Int)
    <3>1. c \in Int /\ key[c] = <<c>>
      BY <1>3, <1>6
    <3> QED BY <3>1
  <2>2. \A c, d \in chunks : key[c] = key[d] => c = d
    BY <1>6
  <2> QED BY <1>2, <2>1, <2>2, SortedIsAList
<1> HIDE DEF list
<1>8. list \in Seq(chunks) /\ MaxChunks \in Nat
  BY <1>7, GraphInputs DEF ListOf, GraphInputs
<1>9. begin \in Seq(chunks)
  BY <1>8, FirstOfAList
<1> HIDE DEF begin
<1>10. Graph!Range(begin) \subseteq chunks
  BY <1>9 DEF Graph!Range
<1> QED BY <1>2, <1>3, <1>4, <1>5, <1>10, FS_Subset

LEMMA ScoresAreNumbers ==
  ASSUME WalkInv, NEW c \in Graph!Recovered
  PROVE  Graph!Score(c) \in Int
<1> DEFINE relevant == Graph!Relevant(c)
<1> DEFINE contributing == {p.entities[1] : p \in relevant}
<1> DEFINE score(p) == (1620 * Graph!Cardinality(contributing)) \div Graph!Cardinality(Graph!Seeds)
                         + (1260 + 72 * Graph!Confidence(p)) \div Graph!Hops(p)
<1> DEFINE scores == {score(p) : p \in relevant}
<1>1. Asking
  BY DEF WalkInv
<1>2. relevant # {}
  <2>1. Graph!Mentioned(c) # {}
    BY <1>1, RecoveredFits
  <2>2. PICK x : x \in Graph!Mentioned(c)
    BY <2>1
  <2>3. PICK p \in Graph!Paths : x \in Graph!Reached(p)
    <3>1. x \in UNION {Graph!Reached(p) : p \in Graph!Paths}
      BY <2>2 DEF Graph!Mentioned
    <3> QED BY <3>1
  <2>4. p \in relevant
    BY <2>2, <2>3 DEF Graph!Relevant
  <2> QED BY <2>4
<1>3. relevant \subseteq Graph!Paths
  BY DEF Graph!Relevant
<1>4. IsFiniteSet(relevant)
  BY <1>3, PathsAreFinite, FS_Subset
<1>5. Graph!Score(c) = CHOOSE n \in scores : \A m \in scores : m <= n
  BY DEF Graph!Score
<1> HIDE DEF relevant
<1>6. Graph!Cardinality(contributing) \in Nat
  <2> DEFINE f == [p \in relevant |-> p.entities[1]]
  <2>1. DOMAIN f = relevant /\ {f[p] : p \in relevant} = contributing
    OBVIOUS
  <2> HIDE DEF f, contributing
  <2>2. IsFiniteSet(contributing)
    <3>1. IsFiniteSet({f[p] : p \in relevant})
      BY <1>4, <2>1, FiniteRange
    <3> QED BY <2>1, <3>1
  <2>3. Cardinality(contributing) \in Nat
    BY <2>2, FS_CardinalityType
  <2> QED BY <2>3 DEF Graph!Cardinality, Cardinality
<1> HIDE DEF contributing
<1>7. Graph!Cardinality(Graph!Seeds) \in Nat /\ Graph!Cardinality(Graph!Seeds) > 0
  <2>1. IsFiniteSet(Graph!Seeds)
    BY <1>1, SeedsAreFinite
  <2>2. Graph!Seeds # {}
    BY <1>2, <1>3, PathsAreFinite
  <2>3. Cardinality(Graph!Seeds) \in Nat /\ Cardinality(Graph!Seeds) # 0
    BY <2>1, <2>2, FS_CardinalityType, FS_EmptySet
  <2>4. Cardinality(Graph!Seeds) \in Nat /\ Cardinality(Graph!Seeds) > 0
    BY <2>3
  <2> QED BY <2>4 DEF Graph!Cardinality, Cardinality
<1>8. ASSUME NEW p \in relevant PROVE score(p) \in Int
  <2>1. PICK s \in Graph!Seeds, n \in 1 .. 3 : p \in PathsOf(s, n)
    BY <1>3, PathsAreFinite
  <2>2. KeyOf(n, p)
    BY <1>1, <2>1, PartsOfAKey
  <2>3. n \in 0 .. 3
    OBVIOUS
  <2>4. PathOf(s, n, p)
    BY <1>1, <2>1, <2>3, PartsOfAPath
  <2>5. Graph!Confidence(p) \in Nat /\ Graph!Hops(p) = n
    BY <2>2, <2>4 DEF KeyOf, PathOf
  <2>6. (1620 * Graph!Cardinality(contributing)) \div Graph!Cardinality(Graph!Seeds) \in Int
    BY <1>6, <1>7
  <2>7. (1260 + 72 * Graph!Confidence(p)) \div Graph!Hops(p) \in Int
    BY <2>5
  <2> QED BY <2>6, <2>7
<1> HIDE DEF score
<1>9. IsFiniteSet(scores)
  <2> DEFINE f == [p \in relevant |-> score(p)]
  <2>1. DOMAIN f = relevant /\ {f[p] : p \in relevant} = scores
    OBVIOUS
  <2> HIDE DEF f
  <2> QED BY <1>4, <2>1, FiniteRange
<1>10. scores \in SUBSET Int /\ scores # {}
  BY <1>2, <1>8
<1> HIDE DEF scores
<1>11. \E n \in scores : \A m \in scores : m <= n
  BY <1>9, <1>10, Greatest
<1> QED BY <1>5, <1>10, <1>11

\* The answer is the best of what was reached.
LEMMA AnswerIsHonest ==
  ASSUME GraphInv
  PROVE  Graph!RankedHonest
<1> SUFFICES ASSUME answer.at = "ranked" PROVE Graph!RankedHonest
  BY DEF Graph!RankedHonest
<1> DEFINE R == Graph!Recovered
<1> DEFINE key == [c \in R |-> <<-Graph!Score(c), c>>]
<1> DEFINE list == Graph!Sorted(R, key)
<1> DEFINE hits == Graph!First(list, TopK)
<1>1. WalkInv /\ Asking /\ answer.hits = hits
  BY DEF GraphInv, WalkInv, Graph!Ranked
<1>2. IsFiniteSet(R) /\ R \subseteq Int /\ Cardinality(R) \in Nat
  BY <1>1, RecoveredFits, FS_CardinalityType
<1>3. \A c \in R : Graph!Score(c) \in Int
  BY <1>1, ScoresAreNumbers
<1>4. \A c \in R : key[c] = <<-Graph!Score(c), c>>
  OBVIOUS
<1> HIDE DEF key
<1>5. SortedBy(list, R, key)
  <2>1. ASSUME NEW c \in R PROVE key[c] \in Seq(Int)
    <3>1. c \in Int /\ -Graph!Score(c) \in Int
      BY <1>2, <1>3
    <3>2. key[c] = <<-Graph!Score(c), c>>
      BY <1>4
    <3> HIDE DEF R
    <3> QED BY <3>1, <3>2
  <2>2. \A c, d \in R : key[c] = key[d] => c = d
    BY <1>4
  <2> HIDE DEF R
  <2> QED BY <1>2, <2>1, <2>2, SortedLists
<1> HIDE DEF list
<1>6. /\ list \in Seq(R) /\ Len(list) = Cardinality(R)
      /\ \A i, j \in DOMAIN list : list[i] = list[j] => i = j
      /\ \A c \in R : \E i \in DOMAIN list : list[i] = c
      /\ \A i, j \in DOMAIN list : Graph!Less(key[list[i]], key[list[j]]) => i < j
  BY <1>5 DEF SortedBy
<1>7. TopK \in Nat
  BY GraphInputs DEF GraphInputs
<1> DEFINE m == IF Len(list) < TopK THEN Len(list) ELSE TopK
<1>8. /\ m \in Nat /\ hits \in Seq(R) /\ Len(hits) = m /\ DOMAIN hits = 1 .. m
      /\ \A i \in 1 .. m : i \in DOMAIN list /\ hits[i] = list[i]
  BY <1>6, <1>7, FirstOfAList
<1> HIDE DEF hits
<1>9. Len(hits) = IF Graph!Cardinality(R) < TopK THEN Graph!Cardinality(R) ELSE TopK
  <2>1. Graph!Cardinality(R) = Cardinality(R)
    BY DEF Graph!Cardinality, Cardinality
  <2> QED BY <1>6, <1>8, <2>1
<1> HIDE DEF m
<1>10. Graph!IsInjective(hits)
  BY <1>6, <1>8 DEF Graph!IsInjective
<1>11. Graph!Range(hits) \subseteq R
  BY <1>8 DEF Graph!Range
<1>12. ASSUME NEW i \in DOMAIN hits, NEW c \in R, Graph!Score(c) > Graph!Score(hits[i])
       PROVE  \E j \in DOMAIN hits : j < i /\ hits[j] = c
  <2>1. i \in 1 .. m /\ i \in DOMAIN list /\ hits[i] = list[i] /\ hits[i] \in R
    BY <1>8
  <2>2. PICK j \in DOMAIN list : list[j] = c
    BY <1>6
  <2>3. Graph!Less(key[c], key[hits[i]])
    <3>1. -Graph!Score(c) < -Graph!Score(hits[i])
      BY <1>3, <1>12, <2>1
    <3>2. key[c][1] < key[hits[i]][1] /\ 1 \in DOMAIN key[hits[i]] /\ 1 .. 1 - 1 = {}
      BY <1>4, <2>1, <3>1
    <3> QED BY <3>2 DEF Graph!Less
  <2>4. j < i
    BY <1>6, <2>1, <2>2, <2>3
  <2>5. j \in 1 .. m
    BY <1>6, <1>8, <2>1, <2>4
  <2> QED BY <1>8, <2>2, <2>4, <2>5
<1> QED BY <1>1, <1>9, <1>10, <1>11, <1>12 DEF Graph!RankedHonest

\* A walk keeps paths of the corpus, within its limits and with the entities of each
\* counted as visited; one that meets no limit ends with all the paths there are; and the
\* answer is the best of the chunks that were reached.  For any corpus, question and
\* limits (traverse_bounded, rank_graph_chunks).
THEOREM TraversalIsHonest == MCSpec => []GraphTraversal
<1> DEFINE Inv == part = "graph" => GraphInv
<1>1. MCInit => Inv
  <2>1. MCInit /\ part = "graph" => Graph!Init
    BY DEF MCInit
  <2> QED BY <2>1, GraphSteps
<1>2. Inv /\ [MCNext]_allVars => Inv'
  BY PartsMoveAlone, GraphSteps
<1>3. Inv => GraphTraversal
  BY WalkIsHonest, AnswerIsHonest DEF GraphTraversal, GraphInv
<1> HIDE DEF Inv
<1> QED BY <1>1, <1>2, <1>3, PTL DEF MCSpec, allVars
=============================================================================
