----------------------------- MODULE MCStaging -----------------------------
(***************************************************************************)
(* The two stagings, for TLC: a behaviour is one of Qdrant, one of Neo4j   *)
(* with processes that share a version, one with processes whose versions  *)
(* share an entity, one with processes that stage two contents under one   *)
(* version, or the cutting of one document beforehand.                     *)
(***************************************************************************)
EXTENDS GraphStaging

CONSTANTS
  one, two,                             \* processes
  old, new,                             \* corpus versions
  chunk, left, right,                   \* rows of the graph
  Passages, Artifacts, Exact, Inputs,   \* of VectorStaging
  Documents, Text(_), NoText, Configs   \* of Chunker

VARIABLES
  part,                               \* which of the five it is
  collection, points, vwriter, vsettled,
  document, size, overlap, start, position, windows, chunks, done

\* Two entities with a relation, and one that shares an entity with them.
Related ==
  [documents |-> {chunk}, chunks |-> {chunk}, entities |-> {left, right},
   mentions |-> {<<chunk, left>>, <<chunk, right>>}, relations |-> {<<left, right>>}]
Sharing ==
  [documents |-> {chunk}, chunks |-> {chunk}, entities |-> {right},
   mentions |-> {<<chunk, right>>}, relations |-> {}]
TwoContents == {Related, Sharing}

Job(w, op, v, content) == [writer |-> w, op |-> op, version |-> v, content |-> content]

\* A new version is staged while the old one is staged, recovered, discarded.
SharedEntity ==
  {Job(one, "stage", new, Related), Job(two, "stage", old, Sharing),
   Job(one, "recover", old, Sharing)}

\* Both stage the version that is discarded now and then.
SameVersion ==
  {Job(one, "stage", old, Sharing), Job(two, "stage", old, Sharing),
   Job(one, "recover", old, Sharing)}

\* They stage the other one with different contents, and the marker decides.
SameName ==
  {Job(one, "stage", new, Related), Job(two, "stage", new, Sharing),
   Job(two, "recover", new, Sharing)}

AllJobs == SharedEntity \cup SameVersion \cup SameName

\* The processes begin nothing but these.
Within(jobs) ==
  \A w \in Writers : writer[w] = Idle /\ writer'[w] # Idle =>
    Job(w, writer'[w].op, writer'[w].version, writer'[w].content) \in jobs

\* A corpus, a part of it, and the corpus embedded by another artifact.
Embedded(ids, artifact) == [chunks |-> ids, artifact |-> artifact]
ThreeInputs ==
  {Embedded({left, right}, "first"), Embedded({right}, "first"), Embedded({left, right}, "second")}

Vector == INSTANCE VectorStaging
  WITH Chunks <- Passages, writer <- vwriter, settled <- vsettled

vectorVars == <<collection, points, vwriter, vsettled>>

\* Documents of up to six tokens, one of them a blank, and every small configuration.
SixTokens == UNION {[1 .. n -> {"a", "b", "blank"}] : n \in 0 .. 6}
Visible(tokens) == SelectSeq(tokens, LAMBDA t : t # "blank")
Nothing == <<>>
UpToFour == [size : 0 .. 4, overlap : 0 .. 4]

ASSUME DocumentsValid == \A d \in Documents : Len(d) \in Nat

Cut == INSTANCE Chunker WITH Empty <- NoText

cutVars == <<document, size, overlap, start, position, windows, chunks, done>>

MCInit ==
  /\ part \in {"vector", "same version", "shared entity", "same name", "cut"}
  /\ Init /\ Vector!Init
  /\ IF part = "cut" THEN Cut!Init
     ELSE /\ document = <<>> /\ size = 1 /\ overlap = 0 /\ start = 0 /\ position = 0
          /\ windows = {} /\ chunks = {} /\ done = TRUE

MCNext ==
  /\ UNCHANGED part
  /\ \/ part = "vector" /\ Vector!Next /\ UNCHANGED <<vars, cutVars>>
     \/ /\ Next /\ UNCHANGED <<vectorVars, cutVars>>
        /\ \/ part = "same version" /\ Within(SameVersion)
           \/ part = "shared entity" /\ Within(SharedEntity)
           \/ part = "same name" /\ Within(SameName)
     \/ part = "cut" /\ Cut!Next /\ UNCHANGED <<vars, vectorVars>>

MCSpec == MCInit /\ [][MCNext]_<<part, vars, vectorVars, cutVars>>

\* What a vector staging reported while nobody else wrote is whole and stays so
\* (QdrantVectorWriter.write_chunks: a non-empty version is immutable).
VectorKeepsContract == Vector!KeepsContract

\* The same of a graph staging or recovery, for every version of the database
\* (Neo4jGraphWriter.stage_graph, recover_stage).
GraphKeepsContract == KeepsContract

\* A retry finds what was written before it (stage_graph and its MERGE statements).
GraphRetries == TypeOK /\ RetryRepairs

\* No passage shorter than the overlap is cut in all chunks (chunk_document).
ChunksKeepPassages == part = "cut" => Cut!PassagesKept
=============================================================================
