---------------------------- MODULE GraphStaging ----------------------------
(***************************************************************************)
(* The staging of corpus versions in one Neo4j database                    *)
(* (backends/graph/neo4j.py): Neo4jGraphWriter.stage_graph, verify_stage,  *)
(* recover_stage and discard_version, each run by commands that may be     *)
(* killed anywhere.  Versions share the database and its entities.         *)
(*                                                                         *)
(* Each statement is one transaction.  A chunk is taken to be the only one *)
(* of its document.  Every check that does not pass and every error of a   *)
(* statement is Fails; the guards of the other actions are what must hold. *)
(* A statement that failed after it was committed is its action and Fails. *)
(***************************************************************************)
EXTENDS Naturals, FiniteSets, Sequences

CONSTANTS
  Writers,      \* ingestion and recovery commands
  Versions,     \* corpus versions
  Chunks, Entities,
  Contents,     \* what versions are staged with, see Valid
  Jobs,         \* what each process may be asked for, see Asked
  Inactive      \* the versions that are discarded now and then

VARIABLES
  marker,       \* marker[v]: the CorpusVersion node of a version
  rows,         \* rows[v]: its documents, chunks, mentions and relations
  entities,     \* the Entity nodes, of all versions
  writer,       \* writer[w]: the command of process w and where it is
  discarding,   \* the discard under way
  settled,      \* settled[v]: the content reported while nothing disturbed it: a set
  disturbed     \* disturbed[w]: whether a discard has met the command: "no", one of
                \* its "own" version, or of an "other" only

vars == <<marker, rows, entities, writer, discarding, settled, disturbed>>
storeVars == <<marker, rows, entities>>

Kinds == {"documents", "chunks", "entities", "mentions", "relations"}

\* A document is named by its chunk, a mention joins a chunk and an entity, and
\* a relation two entities.
Row ==
  [documents |-> Chunks, chunks |-> Chunks, entities |-> Entities,
   mentions |-> Chunks \X Entities, relations |-> Entities \X Entities]

\* _validate_graph_inputs: what a content must be to be staged at all.
Valid(content) ==
  /\ content.chunks # {} /\ content.documents = content.chunks
  /\ content.mentions \subseteq content.chunks \X content.entities
  /\ content.relations \subseteq content.entities \X content.entities
  /\ \A r \in content.relations : \E c \in content.chunks :
       {<<c, r[1]>>, <<c, r[2]>>} \subseteq content.mentions
  /\ content.entities = {m[2] : m \in content.mentions}

ASSUME ContentsValid ==
  \A content \in Contents :
    /\ \A kind \in Kinds : content[kind] \subseteq Row[kind]
    /\ IsFiniteSet(content.chunks) /\ IsFiniteSet(content.entities)
    /\ Valid(content)

Asked == [writer : Writers, op : {"stage", "recover"}, version : Versions, content : Contents]

\* What version v is staged with.  A version that is discarded is staged again with what
\* it had; one that is not may be asked for with anything, and its marker decides.
StagedWith(v) == {job.content : job \in {j \in Jobs : j.op = "stage" /\ j.version = v}}

ASSUME JobsValid ==
  /\ Jobs \subseteq Asked /\ Inactive \subseteq Versions
  /\ \A v \in Inactive : \A a, b \in StagedWith(v) : a = b

None == [status |-> "none"]

\* The marker keeps the checksum of the content it was created for and, once
\* sealed, the counts of the content it was sealed with.
Markers == [status : {"writing", "failed", "graph_staged"}, content : Contents,
            counts : SUBSET Contents]

Idle == [at |-> "idle"]

Reads == {"read_marker", "read_chunks", "read_documents", "read_entities",
          "read_mentions", "read_relations"}

\* content is what the checksum of the expected manifest is of, counts what its
\* counts are of; left are the rows of a kind still to be written.
Commands ==
  [at : Kinds \cup Reads \cup {"upsert", "seal", "failing", "look"},
   op : {"stage", "check", "recover"}, version : Versions, content : Contents, counts : Contents,
   left : SUBSET UNION {Row[k] : k \in Kinds}]

TypeOK ==
  /\ marker \in [Versions -> Markers \cup {None}]
  /\ rows \in [Versions -> [documents : SUBSET Chunks, chunks : SUBSET Chunks,
                            mentions : SUBSET Row.mentions, relations : SUBSET Row.relations]]
  /\ entities \in SUBSET Entities
  /\ writer \in [Writers -> Commands \cup {Idle}]
  /\ discarding \in [at : {"relations", "nodes", "orphans"}, version : Versions] \cup {Idle}
  /\ settled \in [Versions -> SUBSET Contents]
  /\ disturbed \in [Writers -> {"no", "other", "own"}]

Empty == [documents |-> {}, chunks |-> {}, mentions |-> {}, relations |-> {}]

Init ==
  /\ marker = [v \in Versions |-> None]
  /\ rows = [v \in Versions |-> Empty]
  /\ entities = {}
  /\ writer = [w \in Writers |-> Idle]
  /\ discarding = Idle
  /\ settled = [v \in Versions |-> {}]
  /\ disturbed = [w \in Writers |-> "no"]

----------------------------------------------------------------------------
(* The commands.                                                            *)

At(w, step) == writer[w].at = step

Goes(w, step) == writer' = [writer EXCEPT ![w].at = step]

Ends(w) ==
  /\ writer' = [writer EXCEPT ![w] = Idle]
  /\ disturbed' = [disturbed EXCEPT ![w] = "no"]

Begin(w, op, v, content, step) ==
  /\ writer[w] = Idle
  /\ writer' = [writer EXCEPT ![w] = [at |-> step, op |-> op, version |-> v,
                                      content |-> content, counts |-> content, left |-> {}]]
  /\ UNCHANGED <<marker, rows, entities, discarding, settled, disturbed>>

BeginStage(w) ==
  \E job \in Jobs : /\ job.writer = w /\ job.op = "stage"
                    /\ Begin(w, "stage", job.version, job.content, "upsert")

\* recover_stage is given the version alone; the content is a placeholder.
BeginRecover(w) ==
  \E job \in Jobs : /\ job.writer = w /\ job.op = "recover"
                    /\ Begin(w, "recover", job.version, job.content, "look")

\* The order of stage_graph.
Order == <<"documents", "chunks", "entities", "mentions", "relations">>

\* A command that has written the first n kinds goes on to the next of which it
\* has rows, or to the seal.
After(cmd, n) ==
  LET more == {i \in n + 1 .. 5 : cmd.content[Order[i]] # {}}
      i == CHOOSE i \in more : \A j \in more : i <= j IN
  IF more = {} THEN [cmd EXCEPT !.at = "seal", !.left = {}]
  ELSE [cmd EXCEPT !.at = Order[i], !.left = cmd.content[Order[i]]]

\* _UPSERT_MARKER and the check of what it returns: the marker is created, or
\* it is that of the same content.  A sealed version is only verified.
UpsertsMarker(w) ==
  LET cmd == writer[w]
      fresh == [status |-> "writing", content |-> cmd.content, counts |-> {}]
      found == IF marker[cmd.version] = None THEN fresh ELSE marker[cmd.version] IN
  /\ At(w, "upsert")
  /\ marker' = [marker EXCEPT ![cmd.version] = found]
  /\ writer' = [writer EXCEPT ![w] =
       IF found.content # cmd.content THEN [cmd EXCEPT !.at = "failing"]
       ELSE IF found.status = "graph_staged" THEN [cmd EXCEPT !.op = "check", !.at = "read_marker"]
       ELSE After(cmd, 0)]
  /\ UNCHANGED <<rows, entities, discarding, settled, disturbed>>

\* Lands for a marker that must still be that of a first attempt.
LandsInFirstAttempt(v, kind, row) ==
  CASE kind = "documents" -> marker[v].status = "writing"
    [] kind = "chunks"    -> row \in rows[v].documents
    [] kind = "entities"  -> TRUE
    [] kind = "mentions"  -> row[1] \in rows[v].chunks /\ row[2] \in entities
    [] kind = "relations" -> row[1] \in entities /\ row[2] \in entities

\* The MATCH clauses: a row whose ends are not there is left out silently.
Lands(v, kind, row) ==
  CASE kind = "documents" -> marker[v] # None
    [] kind = "chunks"    -> row \in rows[v].documents
    [] kind = "entities"  -> TRUE
    [] kind = "mentions"  -> row[1] \in rows[v].chunks /\ row[2] \in entities
    [] kind = "relations" -> row[1] \in entities /\ row[2] \in entities

\* _write_batches: a batch is any part of the rows left.
WritesBatch(w, n) ==
  LET v == writer[w].version
      kind == Order[n] IN
  /\ At(w, kind)
  /\ \E batch \in (SUBSET writer[w].left) \ {{}} :
       LET landing == {row \in batch : Lands(v, kind, row)} IN
       /\ writer' = [writer EXCEPT ![w] = IF writer[w].left = batch THEN After(writer[w], n)
                                          ELSE [writer[w] EXCEPT !.left = @ \ batch]]
       /\ IF kind = "entities"
          THEN entities' = entities \cup landing /\ UNCHANGED rows
          ELSE rows' = [rows EXCEPT ![v][kind] = @ \cup landing] /\ UNCHANGED entities
  /\ UNCHANGED <<marker, discarding, settled, disturbed>>

\* _SEAL_MARKER, whatever the status is; its result is not looked at.
Seals(w) ==
  LET v == writer[w].version IN
  /\ At(w, "seal")
  /\ marker' = [marker EXCEPT ![v] =
       IF @ = None THEN @
       ELSE [@ EXCEPT !.status = "graph_staged", !.counts = {writer[w].content}]]
  /\ Goes(w, "read_marker")
  /\ UNCHANGED <<rows, entities, discarding, settled, disturbed>>

\* recover_stage: the marker tells what to expect.
Looks(w) ==
  LET found == marker[writer[w].version] IN
  /\ At(w, "look") /\ found.status = "graph_staged"
  /\ \E counts \in found.counts :
       writer' = [writer EXCEPT ![w].at = "read_marker", ![w].content = found.content,
                                ![w].counts = counts]
  /\ UNCHANGED <<storeVars, discarding, settled, disturbed>>

SameCount(these, those) == Cardinality(these) = Cardinality(those)

\* What verify_stage reads, statement by statement, agrees with the manifest.
Agrees(cmd, read) ==
  LET found == rows[cmd.version] IN
  CASE read = "read_marker" ->
         /\ marker[cmd.version].status = "graph_staged"
         /\ marker[cmd.version].content = cmd.content
         /\ marker[cmd.version].counts = {cmd.counts}
    [] read = "read_chunks" -> found.chunks = cmd.counts.chunks
    [] read = "read_documents" -> SameCount(found.documents, cmd.counts.documents)
    [] read = "read_entities"  -> SameCount({m[2] : m \in found.mentions}, cmd.counts.entities)
    [] read = "read_mentions"  -> SameCount(found.mentions, cmd.counts.mentions)
    [] read = "read_relations" -> SameCount(found.relations, cmd.counts.relations)

\* The code compares when it has read everything; a command that will not agree
\* fails at once here, since what remains only reads.
Verifies(w, read, next) ==
  /\ At(w, read) /\ Agrees(writer[w], read)
  /\ Goes(w, next)
  /\ UNCHANGED <<storeVars, discarding, settled, disturbed>>

\* A command that no discard of its version has met, and that meets none.
Undisturbed(w) == disturbed[w] # "own"

AtWorkOn(v) == {w \in Writers : writer[w] # Idle /\ writer[w].version = v}

\* The manifest is reported.  The version is settled if no discard of it meets
\* a command that is at work on it.
Reports(w) ==
  LET v == writer[w].version IN
  /\ At(w, "read_relations") /\ Agrees(writer[w], "read_relations")
  /\ settled' = [settled EXCEPT ![v] =
       IF \A u \in AtWorkOn(v) : Undisturbed(u) THEN {writer[w].content} ELSE @]
  /\ Ends(w)
  /\ UNCHANGED <<storeVars, discarding>>

\* An error, or a check that does not pass.  stage_graph marks the version as
\* failed once it has begun with it, recover_stage just ends.
Fails(w) ==
  /\ writer[w] # Idle /\ writer[w].op # "recover" /\ ~At(w, "failing")
  /\ Goes(w, "failing")
  /\ UNCHANGED <<storeVars, discarding, settled, disturbed>>

\* MarksFailed without its WHERE clause.
MarksFailedSealed(w) ==
  LET v == writer[w].version IN
  /\ At(w, "failing")
  /\ marker' = [marker EXCEPT ![v] = IF @ = None THEN @ ELSE [@ EXCEPT !.status = "failed"]]
  /\ Ends(w)
  /\ UNCHANGED <<rows, entities, discarding, settled>>

\* _FAIL_MARKER: no more than a note on a version that is not sealed, whoever
\* is writing it.
MarksFailed(w) ==
  LET v == writer[w].version IN
  /\ At(w, "failing")
  /\ marker' = [marker EXCEPT ![v] =
       IF @ # None /\ @.status # "graph_staged" THEN [@ EXCEPT !.status = "failed"] ELSE @]
  /\ Ends(w)
  /\ UNCHANGED <<rows, entities, discarding, settled>>

\* A kill; an error before the marker, of recover_stage, or of _mark_failed.
Dies(w) ==
  /\ writer[w] # Idle
  /\ Ends(w)
  /\ UNCHANGED <<storeVars, discarding, settled>>

----------------------------------------------------------------------------
(* discard_version, by a command of its own.                                *)

\* A discard of v is seen by every command that is at work meanwhile.
Disturbs(v) ==
  /\ settled' = [settled EXCEPT ![v] = {}]
  /\ disturbed' = [w \in Writers |->
       IF writer[w] = Idle THEN "no"
       ELSE IF writer[w].version = v \/ disturbed[w] = "own" THEN "own" ELSE "other"]

BeginsDiscard(v) ==
  /\ discarding = Idle
  /\ discarding' = [at |-> "relations", version |-> v]
  /\ Disturbs(v)
  /\ UNCHANGED <<storeVars, writer>>

DropsRelations ==
  /\ discarding.at = "relations"
  /\ rows' = [rows EXCEPT ![discarding.version].mentions = {},
                          ![discarding.version].relations = {}]
  /\ discarding' = [discarding EXCEPT !.at = "nodes"]
  /\ Disturbs(discarding.version)
  /\ UNCHANGED <<marker, entities, writer>>

\* DETACH DELETE: the mentions of a chunk go with it.
DropsNodes ==
  LET v == discarding.version IN
  /\ discarding.at = "nodes"
  /\ marker' = [marker EXCEPT ![v] = None]
  /\ rows' = [rows EXCEPT ![v] = [Empty EXCEPT !.relations = rows[v].relations]]
  /\ discarding' = [discarding EXCEPT !.at = "orphans"]
  /\ Disturbs(v)
  /\ UNCHANGED <<entities, writer>>

\* The entities that nothing of any version mentions or relates.
DropsOrphans ==
  /\ discarding.at = "orphans"
  /\ entities' = UNION {{m[2] : m \in rows[v].mentions} \cup UNION {{r[1], r[2]} : r \in rows[v].relations}
                         : v \in Versions}
  /\ discarding' = Idle
  /\ Disturbs(discarding.version)
  /\ UNCHANGED <<marker, rows, writer>>

DiscardDies ==
  /\ discarding # Idle
  /\ discarding' = Idle
  /\ UNCHANGED <<storeVars, writer, settled, disturbed>>

Writes(w) ==
  \/ BeginStage(w) \/ UpsertsMarker(w)
  \/ \E n \in 1 .. 5 : WritesBatch(w, n)
  \/ Seals(w)
  \/ BeginRecover(w) \/ Looks(w)
  \/ Verifies(w, "read_marker", "read_chunks") \/ Verifies(w, "read_chunks", "read_documents")
  \/ Verifies(w, "read_documents", "read_entities")
  \/ Verifies(w, "read_entities", "read_mentions")
  \/ Verifies(w, "read_mentions", "read_relations")
  \/ Reports(w) \/ Fails(w) \/ MarksFailed(w) \/ Dies(w)

Discards ==
  \/ \E v \in Inactive : BeginsDiscard(v)
  \/ DropsRelations \/ DropsNodes \/ DropsOrphans \/ DiscardDies

Next == Discards \/ \E w \in Writers : Writes(w)

Spec == Init /\ [][Next]_vars

----------------------------------------------------------------------------
\* The content that version v holds whole under a sealed marker, if any.
Held(v) ==
  {content \in Contents :
     /\ marker[v] = [status |-> "graph_staged", content |-> content, counts |-> {content}]
     /\ \A kind \in Kinds \ {"entities"} : rows[v][kind] = content[kind]
     /\ content.entities \subseteq entities}

Contract(v) == INSTANCE StageContract WITH held <- Held(v), settled <- settled[v]

\* The same promise for every version in the shared database.
KeepsContract ==
  /\ \A v \in Versions : Contract(v)!Init
  /\ [][\A v \in Versions : UNCHANGED <<Held(v), settled[v]>> \/ Contract(v)!Next]_vars

\* A command that has written everything, with no discard under way since it
\* began, finds what it wrote: what killed and failed commands left behind, and
\* other commands of the version, never make a retry fail.
Wrote(w) == writer[w].at \in Reads /\ writer[w].op = "stage"
RetryRepairs ==
  \A w \in Writers : Wrote(w) /\ disturbed[w] = "no" =>
    \A read \in Reads : Agrees(writer[w], read)

\* The same with discards of other versions: "Delete one explicit inactive/failed
\* graph version" (discard_version).
DiscardIsScoped ==
  \A w \in Writers : Wrote(w) /\ Undisturbed(w) =>
    \A read \in Reads : Agrees(writer[w], read)
=============================================================================
