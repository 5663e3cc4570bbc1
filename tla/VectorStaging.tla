--------------------------- MODULE VectorStaging ---------------------------
(***************************************************************************)
(* The staging of one corpus version in Qdrant (backends/vector/qdrant.py):*)
(* QdrantVectorWriter.stage_chunks as the ingestion command runs it, and   *)
(* QdrantCollectionManager.discard_version.  A version has a collection of *)
(* its own, so versions do not meet here; the commands on one do.          *)
(*                                                                         *)
(* An action is one request to Qdrant together with what the command does  *)
(* with the answer.  Every error, failed check and kill ends a command the *)
(* same way, without touching the store: that is Fails, and the guards of  *)
(* the other actions are the checks that must pass.  A request that failed *)
(* after it was applied is its action followed by Fails.                   *)
(***************************************************************************)
EXTENDS Naturals, FiniteSets

CONSTANTS
  Writers,      \* ingestion commands for the version
  Chunks,       \* canonical chunk ids
  Artifacts,    \* embedding artifact manifests
  Exact,        \* the chunks whose vectors Qdrant's normalisation leaves alone
  Inputs        \* what commands are run with, see Corpora

VARIABLES
  collection,   \* absent, created without its indexes yet, or complete
  points,       \* the points by canonical id
  writer,       \* writer[w]: the command of process w and where it is
  settled       \* the content reported while nobody else was writing, or none: a set

vars == <<collection, points, writer, settled>>

\* What a command can stage: its chunks, and the artifact it embedded them by.
Corpora ==
  {input \in Inputs : /\ input \in [chunks : (SUBSET Chunks) \ {{}}, artifact : Artifacts]
                      /\ IsFiniteSet(input.chunks)}

\* A point: the artifact stands for it and for the vector it produced, and
\* declared for the checksum in the payload: of the stored vector of an
\* artifact, or of a vector as it was before Qdrant normalised it.
Points == [artifact : Artifacts, declared : Artifacts \cup {"raw"}]

Sealed(ps) == \A c \in DOMAIN ps : ps[c].declared = ps[c].artifact

Idle == [at |-> "idle"]

\* Where a command is, by the request it is to make.
Steps == {"exists", "create", "index", "check_new", "check_old", "count", "read", "upsert",
          "recount", "reread", "seal", "read_sealed", "read_evidence", "require",
          "verify_count", "verify_read"}

\* left: the chunks still to upsert or to seal; count: the last count;
\* evidence: the artifacts of the points for the manifest; cached: the
\* collection manager of the process has validated the collection.
Commands ==
  [at : Steps, content : Corpora, left : SUBSET Chunks, count : Nat,
   evidence : UNION {[cs -> Artifacts] : cs \in SUBSET Chunks}, cached : BOOLEAN]

TypeOK ==
  /\ collection \in {"absent", "bare", "complete"}
  /\ points \in UNION {[cs -> Points] : cs \in SUBSET Chunks}
  /\ writer \in [Writers -> Commands \cup {Idle}]
  /\ settled \subseteq Corpora

NoPoints == [c \in {} |-> [artifact |-> "none", declared |-> "raw"]]

Init ==
  /\ collection = "absent"
  /\ points = NoPoints
  /\ writer = [w \in Writers |-> Idle]
  /\ settled = {}

----------------------------------------------------------------------------
(* The commands.                                                            *)

\* Command w is about to make the request `step` of the store.
At(w, step) == writer[w].at = step

Exists == collection # "absent"

Goes(w, step) == writer' = [writer EXCEPT ![w].at = step]

\* ingest_vector_corpus: a new process, with nothing validated.
Begin(w) ==
  /\ writer[w] = Idle
  /\ \E content \in Corpora :
       writer' = [writer EXCEPT ![w] =
         [at |-> "exists", content |-> content, left |-> {}, count |-> 0,
          evidence |-> [c \in {} |-> content.artifact], cached |-> FALSE]]
  /\ UNCHANGED <<collection, points, settled>>

\* ensure_collection.
LooksForCollection(w) ==
  /\ At(w, "exists")
  /\ Goes(w, IF Exists THEN "check_old" ELSE "create")
  /\ UNCHANGED <<collection, points, settled>>

\* Qdrant refuses to create a collection that exists.
CreatesCollection(w) ==
  /\ At(w, "create") /\ ~Exists
  /\ collection' = "bare"
  /\ Goes(w, "index")
  /\ UNCHANGED <<points, settled>>

\* The last of the payload indexes; before it the collection is still bare.
CreatesIndexes(w) ==
  /\ At(w, "index") /\ Exists
  /\ collection' = "complete"
  /\ Goes(w, "check_new")
  /\ UNCHANGED <<points, settled>>

\* _validate_collection_info; only a collection created here is remembered.
ChecksCollection(w) ==
  /\ At(w, "check_new") \/ At(w, "check_old")
  /\ collection = "complete"
  /\ writer' = [writer EXCEPT ![w].at = "count", ![w].cached = At(w, "check_new")]
  /\ UNCHANGED <<collection, points, settled>>

\* write_chunks.  The count of the version and that of the collection are of
\* the same points, since every point of the collection bears the version.
Counts(w, step, next) ==
  /\ At(w, step) /\ Exists
  /\ writer' = [writer EXCEPT ![w].at = next, ![w].count = Cardinality(DOMAIN points)]
  /\ UNCHANGED <<collection, points, settled>>

\* _require_expected_vectors.
Expected(content) ==
  /\ DOMAIN points = content.chunks
  /\ \A c \in DOMAIN points : points[c].artifact = content.artifact

\* FindsEmpty without the comparison of what was counted and what was read.
FindsEmptyUnread(w) ==
  /\ At(w, "read") /\ Exists
  /\ writer[w].count = 0
  /\ writer' = [writer EXCEPT ![w].at = "upsert", ![w].left = writer[w].content.chunks]
  /\ UNCHANGED <<collection, points, settled>>

\* The version was empty when it was counted and is so still: write it.
FindsEmpty(w) ==
  /\ At(w, "read") /\ Exists
  /\ writer[w].count = 0
  /\ Cardinality(DOMAIN points) = writer[w].count
  /\ writer' = [writer EXCEPT ![w].at = "upsert", ![w].left = writer[w].content.chunks]
  /\ UNCHANGED <<collection, points, settled>>

\* It was not: then it must be sealed and be just what would be written.
FindsWritten(w) ==
  /\ At(w, "read") /\ Exists
  /\ writer[w].count > 0
  /\ Cardinality(DOMAIN points) = writer[w].count
  /\ Sealed(points)
  /\ Expected(writer[w].content)
  /\ Goes(w, "read_evidence")
  /\ UNCHANGED <<collection, points, settled>>

\* The point as it is written: the declared checksum is that of the vector
\* before the store normalises it.
Provisional(c, artifact) ==
  [artifact |-> artifact, declared |-> IF c \in Exact THEN artifact ELSE "raw"]

\* A batch is any part of what is left.
UpsertsBatch(w) ==
  /\ At(w, "upsert") /\ Exists
  /\ \E batch \in (SUBSET writer[w].left) \ {{}} :
       /\ points' = [c \in DOMAIN points \cup batch |->
                       IF c \in batch THEN Provisional(c, writer[w].content.artifact)
                       ELSE points[c]]
       /\ writer' = [writer EXCEPT ![w].left = @ \ batch,
                                   ![w].at = IF writer[w].left = batch THEN "recount" ELSE @]
  /\ UNCHANGED <<collection, settled>>

\* The read-back: sealed or not, it must be what was written.  What is to be
\* sealed is settled here, from the checksums that were read.
ReadsBack(w) ==
  /\ At(w, "reread") /\ Exists
  /\ Expected(writer[w].content)
  /\ LET unsealed == {c \in DOMAIN points : points[c].declared # points[c].artifact} IN
       writer' = [writer EXCEPT ![w].left = unsealed,
                                ![w].at = IF unsealed = {} THEN "read_sealed" ELSE "seal"]
  /\ UNCHANGED <<collection, points, settled>>

\* _seal_vector_provenance: the checksum that was read is set in the payload of
\* a batch of points, of those that are still there.
SealsBatch(w) ==
  /\ At(w, "seal") /\ Exists
  /\ \E batch \in (SUBSET writer[w].left) \ {{}} :
       /\ points' = [c \in DOMAIN points |->
                       IF c \in batch
                       THEN [points[c] EXCEPT !.declared = writer[w].content.artifact]
                       ELSE points[c]]
       /\ writer' = [writer EXCEPT ![w].left = @ \ batch,
                                   ![w].at = IF writer[w].left = batch THEN "read_sealed" ELSE @]
  /\ UNCHANGED <<collection, settled>>

ReadsSealed(w) ==
  /\ At(w, "read_sealed") /\ Exists
  /\ Sealed(points)
  /\ DOMAIN points = writer[w].content.chunks
  /\ writer[w].count = Cardinality(writer[w].content.chunks)
  /\ Goes(w, "read_evidence")
  /\ UNCHANGED <<collection, points, settled>>

\* stage_chunks: the manifest's embedding checksum is of what is stored now.
ReadsEvidence(w) ==
  /\ At(w, "read_evidence") /\ Exists
  /\ Sealed(points)
  /\ writer' = [writer EXCEPT ![w].at = "require",
                              ![w].evidence = [c \in DOMAIN points |-> points[c].artifact]]
  /\ UNCHANGED <<collection, points, settled>>

\* verify_stage: require_collection, which asks only when it has not validated.
RequiresCollection(w) ==
  /\ At(w, "require")
  /\ writer[w].cached \/ collection = "complete"
  /\ writer' = [writer EXCEPT ![w].at = "verify_count", ![w].cached = TRUE]
  /\ UNCHANGED <<collection, points, settled>>

\* Committed commands have found the version empty and write it yet.
Committed(w) == writer[w].at \in {"upsert", "recount", "reread", "seal"}

\* The last read: it must be sealed and agree with the manifest in everything.
\* The command then reports.  The version is settled if no other command
\* can still write it.
Reports(w) ==
  LET content == writer[w].content IN
  /\ At(w, "verify_read") /\ Exists
  /\ Sealed(points)
  /\ writer[w].count = Cardinality(content.chunks)
  /\ Expected(content)
  /\ [c \in DOMAIN points |-> points[c].artifact] = writer[w].evidence
  /\ writer' = [writer EXCEPT ![w] = Idle]
  /\ settled' = IF \A u \in Writers : ~Committed(u) THEN {content} ELSE settled
  /\ UNCHANGED <<collection, points>>

\* An error, a check that does not pass, or a kill.
Fails(w) ==
  /\ writer[w] # Idle
  /\ writer' = [writer EXCEPT ![w] = Idle]
  /\ UNCHANGED <<collection, points, settled>>

\* discard_version, by a command of its own.
Discard ==
  /\ Exists
  /\ collection' = "absent"
  /\ points' = NoPoints
  /\ settled' = {}
  /\ UNCHANGED writer

Writes(w) ==
  \/ Begin(w) \/ LooksForCollection(w) \/ CreatesCollection(w) \/ CreatesIndexes(w)
  \/ ChecksCollection(w) \/ Counts(w, "count", "read") \/ FindsEmpty(w) \/ FindsWritten(w)
  \/ UpsertsBatch(w) \/ Counts(w, "recount", "reread") \/ ReadsBack(w) \/ SealsBatch(w)
  \/ ReadsSealed(w) \/ ReadsEvidence(w) \/ RequiresCollection(w)
  \/ Counts(w, "verify_count", "verify_read") \/ Reports(w) \/ Fails(w)

Next == Discard \/ \E w \in Writers : Writes(w)

Spec == Init /\ [][Next]_vars

----------------------------------------------------------------------------
\* The content that the collection holds whole and sealed, if any.
Held == {content \in Corpora : Expected(content) /\ Sealed(points)}

Contract == INSTANCE StageContract WITH held <- Held, Contents <- Corpora

\* Commands of any content on one version, overlapping, killed anywhere and
\* run again, with discards between any two requests: what was reported while
\* no other command was writing is whole, and nobody but a discard changes it
\* (the comment on a non-empty version in write_chunks).
KeepsContract == Contract!Spec
=============================================================================
