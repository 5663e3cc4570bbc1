----------------------------- MODULE EngineBuild -----------------------------
(***************************************************************************)
(* How a serving process gets its engine (api/runtime.py): the environment *)
(* names one of four profiles, the builder of the profile reads the active *)
(* pointer and the stage manifests, compares them, opens the clients of    *)
(* the stores, asks the stores for the corpus, and makes the engine.  An   *)
(* operator may meanwhile stage, activate and discard corpora; any step    *)
(* may fail, and every await may be cancelled.                             *)
(*                                                                         *)
(* A manifest is the corpus it is of.                                      *)
(***************************************************************************)
EXTENDS Integers, Sequences, FiniteSets

CONSTANTS
  Corpora,
  NoCorpus       \* what a file holds that is not there

VARIABLES
  pointer,               \* the active corpus
  vectorFile, graphFile, \* the stage manifests at the configured paths
  sealed,                \* the sealed corpora in each store
  profile, at,           \* the profile that is built, and its step
  active, vector, graph, \* what the builder has read
  open, closing,         \* the clients that are open, those that are still to be closed
  outcome,               \* "" while it builds, then "serving", "no engine" or "failed"
  named,                 \* history: the corpora the pointer has named since it began
  raised,                \* history: the client whose close has raised, if any
  rewritten              \* history: whether a manifest was replaced since it began

vars == <<pointer, vectorFile, graphFile, sealed, profile, at, active, vector, graph, open,
          closing, outcome, named, raised, rewritten>>

corpusVars == <<pointer, vectorFile, graphFile, sealed, named, rewritten>>
readVars == <<active, vector, graph>>

Stages == {"stage3", "stage4", "stage5", "stage6"}
Clients == {"qdrant", "neo4j"}

Init ==
  /\ pointer \in Corpora \cup {NoCorpus}
  /\ vectorFile \in Corpora \cup {NoCorpus} /\ graphFile \in Corpora \cup {NoCorpus}
  /\ sealed = [c \in Clients |-> {pointer, vectorFile, graphFile} \cap Corpora]
  /\ profile = "" /\ at = 0
  /\ active = NoCorpus /\ vector = NoCorpus /\ graph = NoCorpus
  /\ open = {} /\ closing = <<>> /\ outcome = ""
  /\ named = {pointer} /\ raised = {} /\ rewritten = FALSE

----------------------------------------------------------------------------
(* The steps of the builders.                                               *)

Steps(p) ==
  CASE p = "stage3" -> <<"read vector", "models", "open qdrant", "verify qdrant", "engine">>
    [] p = "stage4" -> <<"read pointer", "read vector", "match",
                         "read vector", "models", "open qdrant", "verify qdrant", "engine">>
    [] p = "stage5" -> <<"read pointer", "read graph", "match", "models",
                         "open neo4j", "verify neo4j", "engine">>
    [] p = "stage6" -> <<"read pointer", "read vector", "read graph", "models", "match",
                         "open qdrant", "open neo4j", "verify qdrant", "verify neo4j", "engine">>
    [] OTHER -> <<>>

\* A profile is built when it alone has all its variables; one with some of them, or two
\* profiles, are refused.
Choose(environment) ==
  LET complete == {s \in Stages : environment[s] = "complete"} IN
  /\ profile = "" /\ outcome = ""
  /\ CASE (\E s \in Stages : environment[s] = "partial") \/ Cardinality(complete) > 1 ->
            outcome' = "failed" /\ UNCHANGED <<profile, at>>
       [] complete = {} -> outcome' = "no engine" /\ UNCHANGED <<profile, at>>
       [] OTHER -> profile' \in complete /\ at' = 1 /\ UNCHANGED outcome
  /\ UNCHANGED <<corpusVars, readVars, open, closing, raised>>

AtStep(step) == outcome = "" /\ at \in DOMAIN Steps(profile) /\ Steps(profile)[at] = step

Proceed == at' = at + 1 /\ UNCHANGED <<outcome, closing>>

\* The step raises, and its handler begins with the clients it closes.
Fail(handler) == outcome' = "failed" /\ closing' = handler /\ UNCHANGED at

\* The handlers around opening: the dual builder closes the client it has.
OpenHandlerNeglected == <<>>

OpenHandler == IF profile = "stage6" THEN <<"qdrant">> ELSE <<>>

\* The handler around the verification and the engine's constructor.
BuiltHandler ==
  CASE profile = "stage5" -> <<"neo4j">>
    [] profile = "stage6" -> <<"qdrant", "neo4j">>
    [] OTHER -> <<"qdrant">>

\* Whether what was read is of the active corpus; one that forgets the graph.
MatchesVector == profile \in {"stage4", "stage6"} => vector = active

Matches ==
  /\ profile \in {"stage4", "stage6"} => vector = active
  /\ profile \in {"stage5", "stage6"} => graph = active

ReadPointer ==
  /\ AtStep("read pointer")
  /\ active' = pointer
  /\ IF pointer = NoCorpus THEN Fail(<<>>) ELSE Proceed
  /\ UNCHANGED <<corpusVars, vector, graph, profile, open, raised>>

ReadVector ==
  /\ AtStep("read vector")
  /\ vector' = vectorFile
  /\ IF vectorFile = NoCorpus THEN Fail(<<>>) ELSE Proceed
  /\ UNCHANGED <<corpusVars, active, graph, profile, open, raised>>

ReadGraph ==
  /\ AtStep("read graph")
  /\ graph' = graphFile
  /\ IF graphFile = NoCorpus THEN Fail(<<>>) ELSE Proceed
  /\ UNCHANGED <<corpusVars, active, vector, profile, open, raised>>

Match ==
  /\ AtStep("match")
  /\ IF Matches THEN Proceed ELSE Fail(<<>>)
  /\ UNCHANGED <<corpusVars, readVars, profile, open, raised>>

\* The embedding model and the extractor are those of the manifests, or not.
LoadModels(fits) ==
  /\ AtStep("models")
  /\ IF fits THEN Proceed ELSE Fail(<<>>)
  /\ UNCHANGED <<corpusVars, readVars, profile, open, raised>>

\* The client is there before the configuration of its manager is looked at.
OpenQdrant(valid) ==
  /\ AtStep("open qdrant")
  /\ open' = open \cup {"qdrant"}
  /\ IF valid THEN Proceed ELSE Fail(OpenHandler)
  /\ UNCHANGED <<corpusVars, readVars, profile, raised>>

OpenNeo4j(valid) ==
  /\ AtStep("open neo4j")
  /\ IF valid THEN open' = open \cup {"neo4j"} /\ Proceed
     ELSE Fail(OpenHandler) /\ UNCHANGED open
  /\ UNCHANGED <<corpusVars, readVars, profile, raised>>

\* A store that does not answer and a cancellation are the same to the handler.
VerifyQdrant(answers) ==
  /\ AtStep("verify qdrant")
  /\ IF answers /\ vector \in sealed["qdrant"] THEN Proceed ELSE Fail(BuiltHandler)
  /\ UNCHANGED <<corpusVars, readVars, profile, open, raised>>

VerifyNeo4j(answers) ==
  /\ AtStep("verify neo4j")
  /\ IF answers /\ active \in sealed["neo4j"] THEN Proceed ELSE Fail(BuiltHandler)
  /\ UNCHANGED <<corpusVars, readVars, profile, open, raised>>

\* The constructor; the dual engine's compares the manifests once more.
MakeEngine(valid) ==
  /\ AtStep("engine")
  /\ IF valid /\ (profile = "stage6" => Matches)
     THEN outcome' = "serving" /\ UNCHANGED <<at, closing>>
     ELSE Fail(BuiltHandler)
  /\ UNCHANGED <<corpusVars, readVars, profile, open, raised>>

\* The next close of a handler; one that raises or is cancelled leaves the handler.
Close(raises) ==
  /\ closing # <<>>
  /\ IF raises THEN closing' = <<>> /\ raised' = {Head(closing)} /\ UNCHANGED open
     ELSE closing' = Tail(closing) /\ open' = open \ {Head(closing)} /\ UNCHANGED raised
  /\ UNCHANGED <<corpusVars, readVars, profile, at, outcome>>

----------------------------------------------------------------------------
(* The operator's commands.                                                 *)

builderVars == <<profile, at, active, vector, graph, open, closing, outcome, raised>>

\* A corpus is staged, and its manifest put in the place of another one.
StageVector(c) ==
  /\ outcome = ""
  /\ sealed' = [sealed EXCEPT !["qdrant"] = @ \cup {c}] /\ vectorFile' = c /\ rewritten' = TRUE
  /\ UNCHANGED <<pointer, graphFile, named, builderVars>>

StageGraph(c) ==
  /\ outcome = ""
  /\ sealed' = [sealed EXCEPT !["neo4j"] = @ \cup {c}] /\ graphFile' = c /\ rewritten' = TRUE
  /\ UNCHANGED <<pointer, vectorFile, named, builderVars>>

Activate(c) ==
  /\ outcome = "" /\ c \in sealed["qdrant"] \cap sealed["neo4j"]
  /\ pointer' = c /\ named' = named \cup {c}
  /\ UNCHANGED <<vectorFile, graphFile, sealed, rewritten, builderVars>>

\* One of the two stores; the other one may follow, or the command fails between them.
Discard(c, store) ==
  /\ outcome = "" /\ c # pointer
  /\ sealed' = [sealed EXCEPT ![store] = @ \ {c}]
  /\ UNCHANGED <<pointer, vectorFile, graphFile, named, rewritten, builderVars>>

Settled == outcome # "" /\ closing = <<>> /\ UNCHANGED vars

Next ==
  \/ \E environment \in [Stages -> {"unset", "partial", "complete"}] : Choose(environment)
  \/ ReadPointer \/ ReadVector \/ ReadGraph \/ Match
  \/ \E good \in BOOLEAN :
       \/ LoadModels(good) \/ OpenQdrant(good) \/ OpenNeo4j(good)
       \/ VerifyQdrant(good) \/ VerifyNeo4j(good) \/ MakeEngine(good) \/ Close(~good)
  \/ \E c \in Corpora :
       \/ StageVector(c) \/ StageGraph(c) \/ Activate(c)
       \/ \E s \in Clients : Discard(c, s)
  \/ Settled

Spec == Init /\ [][Next]_vars

----------------------------------------------------------------------------
(* The properties.                                                          *)

\* An engine that calls its corpus active serves one corpus from all its stores, and one
\* that the pointer named while the engine was built, whatever an operator did meanwhile.
\* The exception is the builder of stage 4, which reads the vector manifest a second time
\* and compares only the first reading with the pointer.
ServesOneActiveCorpus ==
  outcome = "serving" =>
    /\ profile # "stage3" => active \in named
    /\ profile = "stage6" => vector = active
    /\ profile \in {"stage5", "stage6"} => graph = active
    /\ profile = "stage4" /\ ~rewritten => vector = active

\* A builder that fails leaves no client open, but for a client whose close raised, what
\* the handler had still to close after it, and the Qdrant client that the single-store
\* builder has made when it learns that its configuration is not valid.
NothingLeftOpen ==
  outcome = "failed" /\ closing = <<>> =>
    \/ open = {}
    \/ raised # {} /\ (raised = {"neo4j"} => open = {"neo4j"})
    \/ /\ profile \in {"stage3", "stage4"} /\ open = {"qdrant"}
       /\ Steps(profile)[at] = "open qdrant"
=============================================================================
