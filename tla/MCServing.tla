----------------------------- MODULE MCServing -----------------------------
(***************************************************************************)
(* The parts of a serving process beside the scheduler, for TLC: a         *)
(* behaviour is one of the vector searches, one of the service's counters  *)
(* and traces, one search of the graph, one fusion of two branches, or the *)
(* making of an engine while an operator changes the corpora.              *)
(***************************************************************************)
EXTENDS VectorSearch, TLC

CONSTANTS
  Received,            \* requests
  QueueCapacity,
  Stores, Questions, MaxPaths, MaxVisited, MaxRows, MaxChunks, TopK,   \* of Retrieval
  Hits, BranchAnswers, Weights, Whole, TopKs,       \* of Fusion
  Corpora, NoCorpus

VARIABLES
  part,                \* which of them it is
  life, engine, request, metrics, writer, queue, file, told, fate,
  stored, asked, walk, answer,
  branches, fused,
  pointer, vectorFile, graphFile, sealed, profile, at, active, vector, graph, open, closing,
  outcome, named, raised, rewritten

\* The end mark is None, which no handler tells the writer of.
ASSUME EndMarkIsNoRequest == "end" \notin Received

Service == INSTANCE Observability
  WITH Requests <- Received, Capacity <- QueueCapacity, End <- "end"

serviceVars == <<life, engine, request, metrics, writer, queue, file, told, fate>>

\* A chunk that names a pair twice, a triangle, and a part that is not connected
\* to the seeds of every question.
Says(from, to, confidence, chunk) ==
  [from |-> from, to |-> to, confidence |-> confidence, chunk |-> chunk]
Facts == {Says(1, 2, 9, 1), Says(2, 3, 5, 1), Says(1, 3, 9, 2), Says(4, 3, 5, 3), Says(1, 2, 5, 2)}

SomeStores == SUBSET Facts
SomeQuestions ==
  [seeds : {<<>>, <<1, 4>>, <<4, 1>>, <<2, 3>>} \cup {<<s>> : s \in 1 .. 4}, depth : 1 .. 3]

\* A corpus is finite and has one relation of a key, of which relation_id of core/ids.py
\* makes its id; a plan's depth is 1 to 3, and the limits of retrieval/graph.py are positive.
ASSUME GraphInputs ==
  /\ \A corpus \in Stores :
       /\ IsFiniteSet(corpus)
       /\ \A e \in corpus : e.from \in Int /\ e.to \in Int /\ e.chunk \in Int /\ e.confidence \in Nat
       /\ \A e, f \in corpus : e.from = f.from /\ e.to = f.to /\ e.chunk = f.chunk => e = f
  /\ \A question \in Questions : question.seeds \in Seq(Int) /\ question.depth \in 1 .. 3
  /\ MaxPaths \in Nat \ {0} /\ MaxVisited \in Nat \ {0} /\ MaxRows \in Nat \ {0}
  /\ MaxChunks \in Nat \ {0} /\ TopK \in Nat \ {0}

Graph == INSTANCE Retrieval

graphVars == <<stored, asked, walk, answer>>

\* Every list of up to three of four chunks, one that names a chunk twice, two in which
\* a chunk has another text, and no answer.
Hit(chunk, text) == [chunk |-> chunk, text |-> text]
SomeHits == {Hit(c, t) : c \in 1 .. 4, t \in {"text", "other"}}
Lists == {list \in UNION {[1 .. n -> {Hit(c, "text") : c \in 1 .. 4}] : n \in 0 .. 3} :
            \A i, j \in DOMAIN list : list[i] = list[j] => i = j}
OddLists == {<<Hit(1, "text"), Hit(1, "text")>>, <<Hit(1, "other")>>, <<Hit(2, "text"), Hit(1, "other")>>}
SomeAnswers == [available : {TRUE}, hits : Lists \cup OddLists] \cup {[available |-> FALSE, hits |-> <<>>]}

Merging == INSTANCE Fusion

\* _validate_weights, the bounds of top_k, and the models of a hit and of a branch's
\* result: one that is not available has no hits.
ASSUME FusionInputs ==
  /\ \A hit \in Hits : hit.chunk \in Int
  /\ \A reply \in BranchAnswers :
       /\ reply.available \in BOOLEAN /\ reply.hits \in Seq(Hits)
       /\ ~reply.available => reply.hits = <<>>
  /\ Whole \in Nat \ {0} /\ Weights \subseteq 0 .. Whole
  /\ TopKs \subseteq Nat \ {0}

mergingVars == <<branches, fused>>

Builder == INSTANCE EngineBuild

buildVars == <<pointer, vectorFile, graphFile, sealed, profile, at, active, vector, graph, open,
               closing, outcome, named, raised, rewritten>>

MCInit ==
  /\ part \in {"vector", "service", "graph", "fusion", "build"}
  /\ Init /\ Service!Init
  /\ IF part = "graph" THEN Graph!Init
     ELSE stored = {} /\ asked = <<>> /\ walk = <<>> /\ answer = <<>>
  /\ IF part = "fusion" THEN Merging!Init ELSE branches = <<>> /\ fused = <<>>
  /\ IF part = "build" THEN Builder!Init
     ELSE /\ pointer = NoCorpus /\ vectorFile = NoCorpus /\ graphFile = NoCorpus /\ sealed = {}
          /\ profile = "" /\ at = 0 /\ active = NoCorpus /\ vector = NoCorpus /\ graph = NoCorpus
          /\ open = {} /\ closing = <<>> /\ outcome = "" /\ named = {} /\ raised = {}
          /\ rewritten = FALSE

MCNext ==
  /\ UNCHANGED part
  /\ \/ part = "vector" /\ Next /\ UNCHANGED <<serviceVars, graphVars, mergingVars, buildVars>>
     \/ part = "service" /\ Service!Next /\ UNCHANGED <<vars, graphVars, mergingVars, buildVars>>
     \/ part = "graph" /\ Graph!Next /\ UNCHANGED <<vars, serviceVars, mergingVars, buildVars>>
     \/ part = "fusion" /\ Merging!Next /\ UNCHANGED <<vars, serviceVars, graphVars, buildVars>>
     \/ part = "build" /\ Builder!Next /\ UNCHANGED <<vars, serviceVars, graphVars, mergingVars>>

MCSpec == MCInit /\ [][MCNext]_<<part, vars, serviceVars, graphVars, mergingVars, buildVars>>

\* Neither searches nor names of operations are told apart.
Symmetry == Permutations(Searches) \cup Permutations(Tasks)

\* /metrics adds up (record_request, record_success and record_error).
ServiceCounts == Service!OutcomesAddUp

\* Every event the writer was told of is accounted for, and none is left when it is closed
\* (RedactedTraceWriter: _enqueue, _run and close).
ServiceTraces == Service!TraceAccounted /\ Service!ClosedIsDrained

\* The operations left running are bounded (_within_deadline).
SearchesBounded == TypeOK /\ AbandonedBounded

\* A walk keeps paths of the corpus within its limits, and all of them unless it
\* reports a limit, and the best chunks it reaches are the answer (traverse_bounded,
\* rank_graph_chunks).
GraphTraversal == part = "graph" => Graph!TraversalHonest /\ Graph!RankedHonest

\* The fused list is of the branches' chunks, each once, in an order that no branch
\* speaks against, with what the branches say of them (weighted_rrf_v1).
FusedInOrder == part = "fusion" => Merging!FusionRespectsBranches

\* An engine serves one corpus, which the pointer has named (the builders of runtime.py).
EngineServesActive == part = "build" => Builder!ServesOneActiveCorpus

\* A failed start leaves no client open but those the code has no handler for.
EngineLeavesNothing == part = "build" => Builder!NothingLeftOpen
=============================================================================
