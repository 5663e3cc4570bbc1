--------------------------- MODULE StagingProofs ---------------------------
(***************************************************************************)
(* The two stagings and the cutting of a document, as MCStaging composes   *)
(* them, for every number of commands, versions, contents and passages.    *)
(*                                                                         *)
(* Of Neo4j: a version goes by one content, that of its marker, or the one *)
(* that it is always staged with if it is discarded now and then.  Every   *)
(* row it has and every command past the marker is of that content, so     *)
(* that commands, the dead ones too, can only add what others add as well, *)
(* and counting is as good as comparing.  A discard is what takes away; it *)
(* leaves the entities that another version mentions, which are all that a *)
(* held version needs, and it is seen by every command that it may meet.   *)
(***************************************************************************)
EXTENDS MCStaging, FiniteSetTheorems, TLAPS

\* c is what version v goes by: what it is staged with, as its marker says.
Stands(v, c) ==
  c \in StagedWith(v) /\ (v \in Inactive \/ (marker[v] # None /\ marker[v].content = c))

\* The command has found its marker, and has not failed.
Past(w) == writer[w] # Idle /\ writer[w].at \notin {"upsert", "look", "failing"}

Tables == Kinds \ {"entities"}

\* A marker is of a content that the version is staged with, and is sealed with its counts.
MarkersStand ==
  \A v \in Versions : marker[v] # None =>
    /\ marker[v].content \in StagedWith(v)
    /\ marker[v].counts \subseteq {marker[v].content}
    /\ marker[v].status = "graph_staged" => marker[v].counts = {marker[v].content}

\* A version has no rows but those of the content it goes by.
RowsStand ==
  \A v \in Versions, kind \in Tables : \A row \in rows[v][kind] :
    \E c \in Contents : Stands(v, c) /\ row \in c[kind]

\* What is mentioned is there: the one discard that deletes entities leaves it.
MentionsStand ==
  \A v \in Versions : \A m \in rows[v].mentions : m[2] \in entities

\* A command works for the content that its version goes by.
WritersStand ==
  \A w \in Writers : writer[w] # Idle =>
    /\ writer[w].op = "recover" => writer[w].at \in Reads \cup {"look"}
    /\ At(w, "look") => writer[w].op = "recover"
    /\ writer[w].op # "recover" =>
         writer[w].content \in StagedWith(writer[w].version) /\ writer[w].counts = writer[w].content
    /\ Past(w) =>
         Stands(writer[w].version, writer[w].content) /\ writer[w].counts = writer[w].content
    /\ \A kind \in Kinds : At(w, kind) => writer[w].left \subseteq writer[w].content[kind]

SealedFor(v, c) == marker[v] = [status |-> "graph_staged", content |-> c, counts |-> {c}]

\* What a command that no discard has met has read is so still.
ReadSoFar ==
  \A w \in Writers : Undisturbed(w) =>
    LET v == writer[w].version
        c == writer[w].content IN
    /\ writer[w].at \in Reads \ {"read_marker"} => SealedFor(v, c)
    /\ writer[w].at \in Reads \ {"read_marker", "read_chunks"} => rows[v].chunks = c.chunks
    /\ writer[w].at \in {"read_entities", "read_mentions", "read_relations"} =>
         rows[v].documents = c.documents
    /\ At(w, "read_relations") => rows[v].mentions = c.mentions

\* The kinds that a command writes after one.
Later(at) ==
  CASE at = "documents" -> Kinds \ {"documents"}
    [] at = "chunks"    -> {"entities", "mentions", "relations"}
    [] at = "entities"  -> {"mentions", "relations"}
    [] at = "mentions"  -> {"relations"}
    [] OTHER            -> {}

ToWrite(cmd, kind) ==
  IF kind = cmd.at THEN cmd.left ELSE IF kind \in Later(cmd.at) THEN cmd.content[kind] ELSE {}

Stored(v, kind) == IF kind = "entities" THEN entities ELSE rows[v][kind]

\* What a command that no discard at all has met has written is there.
WrittenSoFar ==
  \A w \in Writers : Past(w) /\ writer[w].op = "stage" /\ disturbed[w] = "no" =>
    /\ marker[writer[w].version] # None
    /\ \A kind \in Kinds :
         writer[w].content[kind] \ ToWrite(writer[w], kind) \subseteq Stored(writer[w].version, kind)
    /\ writer[w].at \in Reads => SealedFor(writer[w].version, writer[w].content)

SettledHeld == \A v \in Versions : settled[v] \subseteq Held(v)

DiscardsInactive == discarding # Idle => discarding.version \in Inactive

Standing == MarkersStand /\ RowsStand /\ MentionsStand /\ WritersStand /\ DiscardsInactive
IInv == TypeOK /\ Standing /\ ReadSoFar /\ WrittenSoFar /\ SettledHeld

LEMMA OrderIs ==
  /\ Order[1] = "documents" /\ Order[2] = "chunks" /\ Order[3] = "entities"
  /\ Order[4] = "mentions" /\ Order[5] = "relations"
BY DEF Order

LEMMA OrderKinds ==
  ASSUME NEW n \in 1 .. 5
  PROVE  Order[n] \in Kinds
<1>1. n = 1 \/ n = 2 \/ n = 3 \/ n = 4 \/ n = 5
  OBVIOUS
<1>. QED
  BY <1>1, OrderIs, Zenon DEF Kinds

LEMMA AfterLater ==
  ASSUME NEW cmd, NEW n \in 0 .. 5,
         NEW kind \in Kinds, n = 0 \/ kind \in Later(Order[n])
  PROVE  \E i \in n + 1 .. 5 : kind = Order[i]
<1>1. CASE n = 0
  <2>1. \A i \in 1 .. 5 : i \in n + 1 .. 5
    BY <1>1
  <2>2. 1 \in 1 .. 5 /\ 2 \in 1 .. 5 /\ 3 \in 1 .. 5 /\ 4 \in 1 .. 5 /\ 5 \in 1 .. 5
    OBVIOUS
  <2>. QED
    BY <2>1, <2>2, OrderIs, Zenon DEF Kinds
<1>2. CASE n # 0
  <2>1. kind \in Later(Order[n])
    BY <1>2
  <2>2. n \in 1 .. 5 /\ (n = 1 \/ n = 2 \/ n = 3 \/ n = 4 \/ n = 5)
    BY <1>2
  <2>3. /\ n = 1 => 2 \in n + 1 .. 5 /\ 3 \in n + 1 .. 5 /\ 4 \in n + 1 .. 5 /\ 5 \in n + 1 .. 5
        /\ n = 2 => 3 \in n + 1 .. 5 /\ 4 \in n + 1 .. 5 /\ 5 \in n + 1 .. 5
        /\ n = 3 => 4 \in n + 1 .. 5 /\ 5 \in n + 1 .. 5
        /\ n = 4 => 5 \in n + 1 .. 5
    OBVIOUS
  <2>4. CASE n = 1
    <3>1. kind \in {"chunks", "entities", "mentions", "relations"}
      BY <2>1, <2>4, OrderIs DEF Later, Kinds
    <3>. QED
      BY <2>3, <2>4, <3>1, OrderIs, Zenon
  <2>5. CASE n = 2
    <3>1. kind \in {"entities", "mentions", "relations"}
      BY <2>1, <2>5, OrderIs DEF Later
    <3>. QED
      BY <2>3, <2>5, <3>1, OrderIs, Zenon
  <2>6. CASE n = 3
    <3>1. kind \in {"mentions", "relations"}
      BY <2>1, <2>6, OrderIs DEF Later
    <3>. QED
      BY <2>3, <2>6, <3>1, OrderIs, Zenon
  <2>7. CASE n = 4
    <3>1. kind \in {"relations"}
      BY <2>1, <2>7, OrderIs DEF Later
    <3>. QED
      BY <2>3, <2>7, <3>1, OrderIs, Zenon
  <2>8. CASE n = 5
    BY <2>1, <2>8, OrderIs DEF Later
  <2>. QED
    BY <2>2, <2>4, <2>5, <2>6, <2>7, <2>8
<1>. QED
  BY <1>1, <1>2

\* The kinds in the order of stage_graph: those behind one are later.
LEMMA OrderedLater ==
  ASSUME NEW i \in 1 .. 5, NEW j \in 1 .. 5, i < j
  PROVE  Order[j] \in Later(Order[i])
<1>1. \/ i = 1 /\ j \in {2, 3, 4, 5}
      \/ i = 2 /\ j \in {3, 4, 5}
      \/ i = 3 /\ j \in {4, 5}
      \/ i = 4 /\ j = 5
  OBVIOUS
<1>2. CASE i = 1 /\ j \in {2, 3, 4, 5}
  <2>1. Order[i] = "documents" /\ Order[j] \in {"chunks", "entities", "mentions", "relations"}
    BY <1>2, OrderIs, Zenon
  <2>. QED
    BY <2>1 DEF Later, Kinds
<1>3. CASE i = 2 /\ j \in {3, 4, 5}
  <2>1. Order[i] = "chunks" /\ Order[j] \in {"entities", "mentions", "relations"}
    BY <1>3, OrderIs, Zenon
  <2>. QED
    BY <2>1 DEF Later
<1>4. CASE i = 3 /\ j \in {4, 5}
  <2>1. Order[i] = "entities" /\ Order[j] \in {"mentions", "relations"}
    BY <1>4, OrderIs, Zenon
  <2>. QED
    BY <2>1 DEF Later
<1>5. CASE i = 4 /\ j = 5
  <2>1. Order[i] = "mentions" /\ Order[j] = "relations"
    BY <1>5, OrderIs, Zenon
  <2>. QED
    BY <2>1 DEF Later
<1>. QED
  BY <1>1, <1>2, <1>3, <1>4, <1>5

\* A command goes on to the next kind of which it has rows, so that none is passed over.
LEMMA AfterIs ==
  ASSUME NEW cmd \in Commands, NEW n \in 0 .. 5,
         NEW next, next = After(cmd, n)
  PROVE  \E at \in Kinds \cup {"seal"} :
           /\ next = [cmd EXCEPT !.at = at,
                                 !.left = IF at = "seal" THEN {} ELSE cmd.content[at]]
           /\ \A kind \in Kinds : (n = 0 \/ kind \in Later(Order[n])) /\ cmd.content[kind] # {}
                => kind = at \/ kind \in Later(at)
<1> DEFINE more == {i \in n + 1 .. 5 : cmd.content[Order[i]] # {}}
           i == CHOOSE i \in more : \A j \in more : i <= j
<1>1. CASE more = {}
  <2>1. next = [cmd EXCEPT !.at = "seal", !.left = {}]
    BY <1>1 DEF After
  <2>2. \A kind \in Kinds : (n = 0 \/ kind \in Later(Order[n])) => cmd.content[kind] = {}
    BY <1>1, AfterLater
  <2>. QED
    BY <2>1, <2>2
<1>2. CASE more # {}
  <2>1. PICK k \in more : \A j \in more : k <= j
    <3>1. more \subseteq 1 .. 5
      OBVIOUS
    <3>. HIDE DEF more
    <3>2. CASE 1 \in more
      BY <3>1, <3>2
    <3>3. CASE 1 \notin more /\ 2 \in more
      <4>1. \A j \in more : 2 <= j
        BY <3>1, <3>3
      <4>. QED
        BY <3>3, <4>1
    <3>4. CASE 1 \notin more /\ 2 \notin more /\ 3 \in more
      <4>1. \A j \in more : 3 <= j
        BY <3>1, <3>4
      <4>. QED
        BY <3>4, <4>1
    <3>5. CASE 1 \notin more /\ 2 \notin more /\ 3 \notin more /\ 4 \in more
      <4>1. \A j \in more : 4 <= j
        BY <3>1, <3>5
      <4>. QED
        BY <3>5, <4>1
    <3>6. CASE 1 \notin more /\ 2 \notin more /\ 3 \notin more /\ 4 \notin more
      <4>1. \A j \in more : j = 5
        BY <3>1, <3>6
      <4>. QED
        BY <1>2, <4>1
    <3>. QED
      BY <3>2, <3>3, <3>4, <3>5, <3>6
  <2>2. i \in more /\ \A j \in more : i <= j
    BY <2>1, Zenon
  <2>3. next = [cmd EXCEPT !.at = Order[i], !.left = cmd.content[Order[i]]]
    BY <1>2 DEF After
  <2>4. i \in 1 .. 5 /\ \A j \in more : j \in 1 .. 5 /\ (j = i \/ i < j)
    <3>1. more \subseteq 1 .. 5
      OBVIOUS
    <3> HIDE DEF i, more
    <3>. QED
      BY <2>2, <3>1
  <2>5. Order[i] \in Kinds /\ Order[i] # "seal"
    <3>1. Order[i] \in Kinds
      BY <2>4, OrderKinds
    <3>. QED
      BY <3>1 DEF Kinds
  <2>6. ASSUME NEW kind \in Kinds, n = 0 \/ kind \in Later(Order[n]), cmd.content[kind] # {}
        PROVE  kind = Order[i] \/ kind \in Later(Order[i])
    <3>1. PICK j \in n + 1 .. 5 : kind = Order[j]
      BY <2>6, AfterLater
    <3>2. j \in more
      BY <2>6, <3>1
    <3>. QED
      BY <2>4, <3>1, <3>2, OrderedLater
  <2>. HIDE DEF i
  <2>. QED
    BY <2>3, <2>5, <2>6
<1>. QED
  BY <1>1, <1>2

----------------------------------------------------------------------------
RowRecords == [documents : SUBSET Chunks, chunks : SUBSET Chunks,
               mentions : SUBSET Row.mentions, relations : SUBSET Row.relations]

LEMMA ContentTyped ==
  ASSUME NEW c \in Contents
  PROVE  /\ c.documents \subseteq Chunks /\ c.chunks \subseteq Chunks /\ c.entities \subseteq Entities
         /\ c.mentions \subseteq Row.mentions /\ c.relations \subseteq Row.relations
         /\ \A kind \in Kinds : c[kind] \subseteq Row[kind]
         /\ Valid(c) /\ IsFiniteSet(c.chunks) /\ IsFiniteSet(c.entities)
<1>1. \A kind \in Kinds : c[kind] \subseteq Row[kind]
  BY ContentsValid
<1>2. Row.documents = Chunks /\ Row.chunks = Chunks /\ Row.entities = Entities
  BY DEF Row
<1>. QED
  BY <1>1, <1>2, ContentsValid DEF Kinds

LEMMA StagedContents ==
  ASSUME NEW v \in Versions
  PROVE  StagedWith(v) \subseteq Contents
BY JobsValid DEF StagedWith, Asked

\* A process that is somewhere runs a command.
LEMMA CommandAt ==
  ASSUME TypeOK, NEW w \in Writers, writer[w] # Idle
  PROVE  /\ writer[w] \in Commands
         /\ writer[w].version \in Versions
         /\ writer[w].content \in Contents /\ writer[w].counts \in Contents
<1>1. writer[w] \in Commands
  BY DEF TypeOK
<1>. QED
  BY <1>1 DEF Commands

LEMMA AtMeansCommand ==
  ASSUME TypeOK, NEW w \in Writers, NEW step, At(w, step), step # "idle"
  PROVE  writer[w] # Idle
BY DEF At, Idle

\* One process goes on, and the others stay where they are.
LEMMA OneMoves ==
  ASSUME TypeOK, NEW w \in Writers, NEW cmd \in Commands \cup {Idle},
         writer' = [writer EXCEPT ![w] = cmd]
  PROVE  /\ writer' \in [Writers -> Commands \cup {Idle}]
         /\ writer'[w] = cmd
         /\ \A u \in Writers \ {w} : writer'[u] = writer[u]
BY DEF TypeOK

\* A version goes by one content.
LEMMA StandsForOne ==
  ASSUME NEW v \in Versions, NEW a, NEW b, Stands(v, a), Stands(v, b)
  PROVE  a = b
BY JobsValid DEF Stands

LEMMA MarkerStands ==
  ASSUME MarkersStand, NEW v \in Versions, marker[v] # None
  PROVE  Stands(v, marker[v].content)
BY DEF MarkersStand, Stands

\* The rows of a version are of the content that it goes by.
LEMMA RowsWithin ==
  ASSUME RowsStand, NEW v \in Versions, NEW c, Stands(v, c), NEW kind \in Tables
  PROVE  rows[v][kind] \subseteq c[kind]
BY StandsForOne DEF RowsStand

LEMMA RowsGrow ==
  ASSUME NEW r \in RowRecords, NEW kind \in Tables, NEW more \in SUBSET Row[kind]
  PROVE  LET s == [r EXCEPT ![kind] = @ \cup more] IN
         /\ s \in RowRecords
         /\ s[kind] = r[kind] \cup more
         /\ \A k \in Tables \ {kind} : s[k] = r[k]
<1>1. Row.documents = Chunks /\ Row.chunks = Chunks
  BY DEF Row
<1>2. CASE kind = "documents"
  BY <1>1, <1>2 DEF RowRecords, Tables, Kinds
<1>3. CASE kind = "chunks"
  BY <1>1, <1>3 DEF RowRecords, Tables, Kinds
<1>4. CASE kind = "mentions"
  BY <1>1, <1>4 DEF RowRecords, Tables, Kinds
<1>5. CASE kind = "relations"
  BY <1>1, <1>5 DEF RowRecords, Tables, Kinds
<1>. QED
  BY <1>2, <1>3, <1>4, <1>5 DEF Tables, Kinds

\* A batch adds the rows of it that land, and nothing else changes.
LEMMA BatchStores ==
  ASSUME TypeOK, WritersStand, NEW w \in Writers, NEW n \in 1 .. 5, WritesBatch(w, n)
  PROVE  LET v == writer[w].version
             kind == Order[n] IN
         \E batch \in SUBSET writer[w].left :
           /\ writer' = [writer EXCEPT ![w] = IF writer[w].left = batch THEN After(writer[w], n)
                                              ELSE [writer[w] EXCEPT !.left = @ \ batch]]
           /\ \A u \in Versions, k \in Kinds :
                Stored(u, k)' = IF k = kind /\ (u = v \/ kind = "entities")
                                THEN Stored(u, k) \cup {row \in batch : Lands(v, kind, row)}
                                ELSE Stored(u, k)
           /\ rows' \in [Versions -> RowRecords]
           /\ entities' \in SUBSET Entities
<1> DEFINE v == writer[w].version
           kind == Order[n]
<1>1. PICK batch \in (SUBSET writer[w].left) \ {{}} :
        /\ writer' = [writer EXCEPT ![w] = IF writer[w].left = batch THEN After(writer[w], n)
                                           ELSE [writer[w] EXCEPT !.left = @ \ batch]]
        /\ IF kind = "entities"
           THEN entities' = entities \cup {row \in batch : Lands(v, kind, row)} /\ UNCHANGED rows
           ELSE /\ rows' = [rows EXCEPT ![v][kind] = @ \cup {row \in batch : Lands(v, kind, row)}]
                /\ UNCHANGED entities
  BY Zenon DEF WritesBatch
<1>2. kind \in Kinds /\ writer[w] # Idle /\ At(w, kind)
  <2>1. kind \in Kinds /\ At(w, kind)
    BY OrderKinds DEF WritesBatch
  <2>. QED
    BY <2>1, AtMeansCommand DEF Kinds
<1>3. writer[w] \in Commands /\ v \in Versions /\ writer[w].content \in Contents
  BY <1>2, CommandAt
<1> DEFINE landing == {row \in batch : Lands(v, kind, row)}
<1>4. landing \subseteq Row[kind]
  <2>1. writer[w].left \subseteq writer[w].content[kind]
    BY <1>2 DEF WritersStand
  <2>. QED
    BY <1>2, <1>3, <2>1, ContentTyped
<1>5. rows \in [Versions -> RowRecords] /\ entities \in SUBSET Entities
  BY DEF TypeOK, RowRecords
<1>7. CASE kind = "entities"
  <2>1. entities' = entities \cup landing /\ rows' = rows
    BY <1>1, <1>7
  <2>2. Row[kind] = Entities
    BY <1>7 DEF Row
  <2>3. ASSUME NEW u \in Versions, NEW k \in Kinds
        PROVE  Stored(u, k)' = IF k = kind /\ (u = v \/ kind = "entities")
                                THEN Stored(u, k) \cup landing ELSE Stored(u, k)
    BY <1>7, <2>1 DEF Stored
  <2>. QED
    BY <1>4, <1>1, <1>5, <2>1, <2>2, <2>3
<1>8. CASE kind # "entities"
  <2>1. rows' = [rows EXCEPT ![v] = [rows[v] EXCEPT ![kind] = @ \cup landing]] /\ entities' = entities
    BY <1>1, <1>8
  <2>2. kind \in Tables
    BY <1>2, <1>8 DEF Tables
  <2> HIDE DEF landing
  <2>3. /\ rows'[v] \in RowRecords
        /\ rows'[v][kind] = rows[v][kind] \cup landing
        /\ \A k \in Tables \ {kind} : rows'[v][k] = rows[v][k]
        /\ \A u \in Versions \ {v} : rows'[u] = rows[u]
    <3>1. rows[v] \in RowRecords
      BY <1>3, <1>5
    <3>2. rows'[v] = [rows[v] EXCEPT ![kind] = @ \cup landing]
      BY <1>3, <1>5, <2>1
    <3>3. /\ rows'[v] \in RowRecords
          /\ rows'[v][kind] = rows[v][kind] \cup landing
          /\ \A k \in Tables \ {kind} : rows'[v][k] = rows[v][k]
      BY <1>4, <2>2, <3>1, <3>2, RowsGrow
    <3>4. \A u \in Versions \ {v} : rows'[u] = rows[u]
      BY <1>5, <2>1
    <3>. QED
      BY <3>3, <3>4
  <2>4. rows' \in [Versions -> RowRecords]
    BY <1>3, <1>5, <2>1, <2>3
  <2>5. ASSUME NEW u \in Versions, NEW k \in Kinds
        PROVE  Stored(u, k)' = IF k = kind /\ (u = v \/ kind = "entities")
                                THEN Stored(u, k) \cup landing ELSE Stored(u, k)
    <3>1. CASE k = "entities"
      BY <1>8, <2>1, <3>1 DEF Stored
    <3>2. CASE k # "entities" /\ u # v
      BY <1>8, <2>3, <3>2 DEF Stored
    <3>3. CASE k # "entities" /\ u = v
      <4>1. Stored(u, k) = rows[v][k] /\ Stored(u, k)' = rows'[v][k] /\ k \in Tables
        BY <3>3 DEF Stored, Tables
      <4>. QED
        BY <2>3, <3>3, <4>1
    <3>. QED
      BY <3>1, <3>2, <3>3
  <2>. QED
    BY <1>1, <1>5, <2>1, <2>4, <2>5 DEF landing
<1>. QED
  BY <1>7, <1>8

LEMMA LeftTyped ==
  ASSUME NEW c \in Contents, NEW kind \in Kinds
  PROVE  SUBSET c[kind] \subseteq SUBSET UNION {Row[k] : k \in Kinds}
BY ContentTyped

LEMMA AfterTyped ==
  ASSUME NEW cmd \in Commands, NEW n \in 0 .. 5
  PROVE  After(cmd, n) \in Commands
<1>1. PICK at \in Kinds \cup {"seal"} :
        After(cmd, n) = [cmd EXCEPT !.at = at, !.left = IF at = "seal" THEN {} ELSE cmd.content[at]]
  BY AfterIs
<1>2. cmd.content \in Contents
  BY DEF Commands
<1>3. (IF at = "seal" THEN {} ELSE cmd.content[at]) \in SUBSET UNION {Row[k] : k \in Kinds}
  BY <1>2, LeftTyped
<1>. QED
  BY <1>1, <1>3 DEF Commands

\* What a step of process w does to the processes.
Steps(w) ==
  /\ writer' \in [Writers -> Commands \cup {Idle}]
  /\ \A u \in Writers \ {w} : writer'[u] = writer[u]
  /\ disturbed' \in [Writers -> {"no", "other", "own"}]
  /\ \A u \in Writers \ {w} : disturbed'[u] = disturbed[u]
  /\ disturbed'[w] = disturbed[w] \/ writer'[w] = Idle

LEMMA StepsTo ==
  ASSUME TypeOK, NEW w \in Writers, NEW cmd \in Commands \cup {Idle},
         writer' = [writer EXCEPT ![w] = cmd], UNCHANGED disturbed
  PROVE  Steps(w) /\ writer'[w] = cmd
BY OneMoves DEF Steps, TypeOK

LEMMA EndsSteps ==
  ASSUME TypeOK, NEW w \in Writers, Ends(w)
  PROVE  Steps(w) /\ writer'[w] = Idle
BY OneMoves DEF Steps, TypeOK, Ends

LEMMA BeginsTo ==
  ASSUME TypeOK, NEW w \in Writers, BeginStage(w) \/ BeginRecover(w)
  PROVE  /\ Steps(w)
         /\ \E job \in Jobs :
              writer'[w] = [at |-> IF job.op = "stage" THEN "upsert" ELSE "look", op |-> job.op,
                            version |-> job.version, content |-> job.content,
                            counts |-> job.content, left |-> {}]
<1>1. PICK job \in Jobs :
        /\ writer' = [writer EXCEPT ![w] =
             [at |-> IF job.op = "stage" THEN "upsert" ELSE "look", op |-> job.op,
              version |-> job.version, content |-> job.content, counts |-> job.content, left |-> {}]]
        /\ UNCHANGED disturbed
  BY DEF BeginStage, BeginRecover, Begin
<1> DEFINE cmd == [at |-> IF job.op = "stage" THEN "upsert" ELSE "look", op |-> job.op,
                   version |-> job.version, content |-> job.content,
                   counts |-> job.content, left |-> {}]
<1>2. cmd \in Commands
  BY JobsValid DEF Commands, Asked
<1>3. Steps(w) /\ writer'[w] = cmd
  BY <1>1, <1>2, StepsTo
<1>. QED
  BY <1>3

\* Every step of a process keeps the types of the processes.
LEMMA WriterTyped ==
  ASSUME TypeOK, Standing, NEW w \in Writers, Writes(w)
  PROVE  Steps(w)
<1>1. CASE BeginStage(w) \/ BeginRecover(w)
  BY <1>1, BeginsTo
<1>2. CASE UpsertsMarker(w)
  <2> DEFINE found == IF marker[writer[w].version] = None
                      THEN [status |-> "writing", content |-> writer[w].content, counts |-> {}]
                      ELSE marker[writer[w].version]
             next == IF found.content # writer[w].content THEN [writer[w] EXCEPT !.at = "failing"]
                     ELSE IF found.status = "graph_staged"
                     THEN [writer[w] EXCEPT !.op = "check", !.at = "read_marker"]
                     ELSE After(writer[w], 0)
  <2>1. writer[w] \in Commands
    BY <1>2, AtMeansCommand, CommandAt DEF UpsertsMarker
  <2>2. next \in Commands
    <3>1. After(writer[w], 0) \in Commands
      BY <2>1, AfterTyped
    <3>2. [writer[w] EXCEPT !.at = "failing"] \in Commands
      BY <2>1 DEF Commands
    <3>3. [writer[w] EXCEPT !.op = "check", !.at = "read_marker"] \in Commands
      BY <2>1 DEF Commands, Reads
    <3>. QED
      BY <3>1, <3>2, <3>3
  <2>3. writer' = [writer EXCEPT ![w] = next] /\ UNCHANGED disturbed
    BY <1>2 DEF UpsertsMarker
  <2> HIDE DEF next
  <2>. QED
    BY <2>2, <2>3, StepsTo
<1>3. ASSUME NEW n \in 1 .. 5, WritesBatch(w, n)
      PROVE  Steps(w)
  <2>1. PICK batch \in SUBSET writer[w].left :
          writer' = [writer EXCEPT ![w] = IF writer[w].left = batch THEN After(writer[w], n)
                                          ELSE [writer[w] EXCEPT !.left = @ \ batch]]
    BY <1>3, BatchStores DEF Standing
  <2>2. writer[w] \in Commands
    <3>1. At(w, Order[n]) /\ Order[n] # "idle"
      BY <1>3, OrderKinds DEF WritesBatch, Kinds
    <3>. QED
      BY <3>1, AtMeansCommand, CommandAt
  <2> DEFINE next == IF writer[w].left = batch THEN After(writer[w], n)
                     ELSE [writer[w] EXCEPT !.left = @ \ batch]
  <2>3. next \in Commands
    BY <2>2, AfterTyped DEF Commands
  <2>4. UNCHANGED disturbed
    BY <1>3 DEF WritesBatch
  <2>. QED
    BY <2>1, <2>3, <2>4, StepsTo
<1>4. ASSUME NEW at \in {"read_marker", "failing"} \cup Reads, writer[w] # Idle, Goes(w, at), UNCHANGED disturbed
      PROVE  Steps(w)
  <2>1. [writer[w] EXCEPT !.at = at] \in Commands
    BY <1>4, CommandAt DEF Commands, Reads
  <2>2. writer' = [writer EXCEPT ![w] = [writer[w] EXCEPT !.at = at]]
    BY <1>4 DEF Goes
  <2>. QED
    BY <1>4, <2>1, <2>2, StepsTo
<1>5. CASE Seals(w) \/ Fails(w)
  BY <1>4, <1>5, AtMeansCommand DEF Seals, Fails
<1>6. ASSUME NEW read \in Reads, NEW next \in Reads, Verifies(w, read, next)
      PROVE  Steps(w)
  <2>1. read # "idle"
    BY DEF Reads
  <2>. QED
    BY <1>4, <1>6, <2>1, AtMeansCommand DEF Verifies
<1>7. CASE Looks(w)
  <2>1. PICK counts \in marker[writer[w].version].counts :
          writer' = [writer EXCEPT ![w].at = "read_marker",
                                   ![w].content = marker[writer[w].version].content,
                                   ![w].counts = counts]
    BY <1>7 DEF Looks
  <2>2. writer[w] \in Commands /\ writer[w].version \in Versions
    BY <1>7, AtMeansCommand, CommandAt DEF Looks
  <2>3. marker[writer[w].version] \in Markers
    BY <1>7, <2>2 DEF Looks, TypeOK, None
  <2> DEFINE next == [writer[w] EXCEPT !.at = "read_marker",
                                       !.content = marker[writer[w].version].content,
                                       !.counts = counts]
  <2>4. next \in Commands
    BY <2>2, <2>3 DEF Commands, Markers, Reads
  <2>5. writer' = [writer EXCEPT ![w] = next] /\ UNCHANGED disturbed
    BY <1>7, <2>1, <2>2 DEF TypeOK, Looks
  <2>. QED
    BY <2>4, <2>5, StepsTo
<1>8. CASE Reports(w) \/ MarksFailed(w) \/ Dies(w)
  BY <1>8, EndsSteps DEF Reports, MarksFailed, Dies
<1>. QED
  BY <1>1, <1>2, <1>3, <1>5, <1>6, <1>7, <1>8 DEF Writes, Reads

----------------------------------------------------------------------------
(* What a process does to the store: it adds.                               *)

StoreGrows ==
  /\ \A v \in Versions : marker[v] # None =>
       marker'[v] # None /\ marker'[v].content = marker[v].content
  /\ \A v \in Versions : \A c : SealedFor(v, c) => SealedFor(v, c)'
  /\ \A v \in Versions, kind \in Kinds : Stored(v, kind) \subseteq Stored(v, kind)'

StoreTyped ==
  /\ marker' \in [Versions -> Markers \cup {None}]
  /\ rows' \in [Versions -> RowRecords]
  /\ entities' \in SUBSET Entities

\* A new marker is of what the command stages, and so is a new row.
NewIsOf(w) ==
  /\ \A v \in Versions : marker[v] = None /\ marker'[v] # None =>
       /\ v = writer[w].version /\ writer[w].op # "recover"
       /\ marker'[v] = [status |-> "writing", content |-> writer[w].content, counts |-> {}]
  /\ \A v \in Versions, kind \in Tables : \A row \in Stored(v, kind)' :
       \/ row \in Stored(v, kind)
       \/ Past(w) /\ v = writer[w].version /\ row \in writer[w].content[kind] /\ Lands(v, kind, row)

LEMMA StoreStays ==
  ASSUME TypeOK, UNCHANGED storeVars, NEW w
  PROVE  StoreGrows /\ StoreTyped /\ NewIsOf(w)
BY DEF TypeOK, storeVars, StoreGrows, StoreTyped, NewIsOf, SealedFor, Stored, RowRecords

LEMMA RowsStay ==
  ASSUME TypeOK, UNCHANGED <<rows, entities>>, NEW w
  PROVE  /\ \A v \in Versions, kind \in Kinds : Stored(v, kind) \subseteq Stored(v, kind)'
         /\ \A v \in Versions, kind \in Tables : \A row \in Stored(v, kind)' : row \in Stored(v, kind)
         /\ rows' \in [Versions -> RowRecords] /\ entities' \in SUBSET Entities
BY DEF TypeOK, Stored, RowRecords

LEMMA MarkerStays ==
  ASSUME TypeOK, UNCHANGED marker
  PROVE  /\ \A v \in Versions : marker[v] # None =>
              marker'[v] # None /\ marker'[v].content = marker[v].content
         /\ \A v \in Versions : \A c : SealedFor(v, c) => SealedFor(v, c)'
         /\ marker' \in [Versions -> Markers \cup {None}]
         /\ \A v \in Versions : ~(marker[v] = None /\ marker'[v] # None)
BY DEF TypeOK, SealedFor

\* One marker is changed, and keeps its content.
LEMMA MarkerKept ==
  ASSUME TypeOK, NEW v \in Versions, marker[v] # None, NEW m \in Markers,
         m.content = marker[v].content, m.status # "graph_staged" => marker[v].status # "graph_staged",
         m.status = "graph_staged" /\ marker[v].status = "graph_staged" => m.counts = marker[v].counts,
         marker' = [marker EXCEPT ![v] = m]
  PROVE  /\ \A u \in Versions : marker[u] # None =>
              marker'[u] # None /\ marker'[u].content = marker[u].content
         /\ \A u \in Versions : \A c : SealedFor(u, c) => SealedFor(u, c)'
         /\ marker' \in [Versions -> Markers \cup {None}]
         /\ \A u \in Versions : ~(marker[u] = None /\ marker'[u] # None)
         /\ marker'[v] = m /\ \A u \in Versions \ {v} : marker'[u] = marker[u]
<1>1. m # None
  BY DEF Markers, None
<1>2. marker'[v] = m /\ \A u \in Versions \ {v} : marker'[u] = marker[u]
  BY DEF TypeOK
<1>3. marker' \in [Versions -> Markers \cup {None}]
  BY DEF TypeOK
<1>4. ASSUME NEW u \in Versions, NEW c, SealedFor(u, c)
      PROVE  SealedFor(u, c)'
  <2>1. CASE u = v
    <3>1. /\ marker[v].status = "graph_staged" /\ marker[v].content = c /\ marker[v].counts = {c}
      BY <1>4, <2>1 DEF SealedFor
    <3>2. m.status = "graph_staged" /\ m.content = c /\ m.counts = {c}
      BY <3>1
    <3>3. m = [status |-> "graph_staged", content |-> c, counts |-> {c}]
      BY <3>2 DEF Markers
    <3>. QED
      BY <1>2, <2>1, <3>3 DEF SealedFor
  <2>2. CASE u # v
    BY <1>2, <1>4, <2>2 DEF SealedFor
  <2>. QED
    BY <2>1, <2>2
<1>. QED
  BY <1>1, <1>2, <1>3, <1>4

LEMMA MarkerTyped ==
  ASSUME TypeOK, NEW v \in Versions, marker[v] # None
  PROVE  marker[v] \in Markers
BY DEF TypeOK

\* A command past its marker works for the version's content.
LEMMA PastStands ==
  ASSUME TypeOK, WritersStand, NEW w \in Writers, Past(w)
  PROVE  /\ Stands(writer[w].version, writer[w].content)
         /\ writer[w].counts = writer[w].content
BY DEF WritersStand, Past

LEMMA SealedRecord ==
  ASSUME NEW m \in Markers, NEW c, m.content = c
  PROVE  [m EXCEPT !.status = "graph_staged", !.counts = {c}]
           = [status |-> "graph_staged", content |-> c, counts |-> {c}]
<1> DEFINE s == [m EXCEPT !.status = "graph_staged", !.counts = {c}]
<1>1. s \in [status : {"graph_staged"}, content : {c}, counts : {{c}}]
  BY DEF Markers
<1> HIDE DEF s
<1>2. s = [status |-> "graph_staged", content |-> c, counts |-> {c}]
  BY <1>1
<1>. QED
  BY <1>2 DEF s

\* What Seals writes into a marker.
LEMMA SealMarks ==
  ASSUME TypeOK, Standing, NEW w \in Writers, Seals(w), NEW v, v = writer[w].version
  PROVE  /\ v \in Versions
         /\ marker[v] = None => marker' = marker
         /\ marker[v] # None =>
              /\ marker[v].content = writer[w].content
              /\ marker' = [marker EXCEPT ![v] = [status |-> "graph_staged", content |-> writer[w].content,
                                                  counts |-> {writer[w].content}]]
              /\ marker[v].status = "graph_staged" => marker[v].counts = {writer[w].content}
<1>1. writer[w] # Idle /\ Past(w)
  BY AtMeansCommand DEF Seals, At, Past
<1>2. v \in Versions /\ writer[w].content \in Contents
  BY <1>1, CommandAt
<1>3. marker[v] = None => marker' = marker
  BY <1>2 DEF Seals, TypeOK
<1>4. ASSUME marker[v] # None
      PROVE  marker[v].content = writer[w].content
  BY <1>1, <1>2, <1>4, PastStands, MarkerStands, StandsForOne DEF Standing
<1>5. ASSUME marker[v] # None
      PROVE  marker' = [marker EXCEPT ![v] = [status |-> "graph_staged", content |-> writer[w].content,
                                              counts |-> {writer[w].content}]]
  <2>1. marker' = [marker EXCEPT ![v] = [marker[v] EXCEPT !.status = "graph_staged",
                                                          !.counts = {writer[w].content}]]
    BY <1>5 DEF Seals
  <2>2. [marker[v] EXCEPT !.status = "graph_staged", !.counts = {writer[w].content}]
          = [status |-> "graph_staged", content |-> writer[w].content, counts |-> {writer[w].content}]
    <3>1. marker[v] \in Markers /\ marker[v].content = writer[w].content
      BY <1>2, <1>4, <1>5, MarkerTyped
    <3>. QED
      BY <3>1, SealedRecord
  <2>. QED
    BY <2>1, <2>2
<1>6. ASSUME marker[v] # None, marker[v].status = "graph_staged"
      PROVE  marker[v].counts = {writer[w].content}
  BY <1>2, <1>4, <1>6 DEF Standing, MarkersStand
<1>. QED
  BY <1>2, <1>3, <1>4, <1>5, <1>6

LEMMA WriterGrows ==
  ASSUME TypeOK, Standing, NEW w \in Writers, Writes(w)
  PROVE  StoreGrows /\ StoreTyped /\ NewIsOf(w)
<1>1. CASE UpsertsMarker(w)
  <2> DEFINE v == writer[w].version
             fresh == [status |-> "writing", content |-> writer[w].content, counts |-> {}]
  <2>1. writer[w] # Idle /\ v \in Versions /\ writer[w].content \in Contents /\ writer[w].op # "recover"
    <3>1. writer[w] # Idle /\ At(w, "upsert")
      BY <1>1, AtMeansCommand DEF UpsertsMarker
    <3>. QED
      BY <3>1, CommandAt DEF Standing, WritersStand, At, Reads
  <2>2. UNCHANGED <<rows, entities>>
    BY <1>1 DEF UpsertsMarker
  <2>3. CASE marker[v] # None
    <3>1. marker' = marker
      BY <1>1, <2>1, <2>3 DEF UpsertsMarker, TypeOK
    <3>. QED
      BY <2>2, <3>1, RowsStay, MarkerStays DEF StoreGrows, StoreTyped, NewIsOf
  <2>4. CASE marker[v] = None
    <3>1. marker' = [marker EXCEPT ![v] = fresh]
      BY <1>1, <2>4 DEF UpsertsMarker
    <3>2. fresh \in Markers /\ fresh # None
      BY <2>1 DEF Markers, None
    <3>3. marker'[v] = fresh /\ \A u \in Versions \ {v} : marker'[u] = marker[u]
      BY <2>1, <3>1 DEF TypeOK
    <3>4. marker' \in [Versions -> Markers \cup {None}]
      BY <2>1, <3>1, <3>2 DEF TypeOK
    <3>5. \A u \in Versions : \A c : SealedFor(u, c) => SealedFor(u, c)'
      BY <2>4, <3>3 DEF SealedFor, None
    <3>6. \A u \in Versions : marker[u] # None => marker'[u] # None /\ marker'[u].content = marker[u].content
      BY <2>4, <3>3
    <3>7. \A u \in Versions : marker[u] = None /\ marker'[u] # None => u = v /\ marker'[u] = fresh
      BY <3>3
    <3>. QED
      BY <2>1, <2>2, <3>4, <3>5, <3>6, <3>7, RowsStay DEF StoreGrows, StoreTyped, NewIsOf
  <2>. QED
    BY <2>3, <2>4
<1>2. ASSUME NEW n \in 1 .. 5, WritesBatch(w, n)
      PROVE  StoreGrows /\ StoreTyped /\ NewIsOf(w)
  <2> DEFINE v == writer[w].version
             kind == Order[n]
  <2>1. PICK batch \in SUBSET writer[w].left :
          /\ writer' = [writer EXCEPT ![w] = IF writer[w].left = batch THEN After(writer[w], n)
                                             ELSE [writer[w] EXCEPT !.left = @ \ batch]]
          /\ \A u \in Versions, k \in Kinds :
               Stored(u, k)' = IF k = kind /\ (u = v \/ kind = "entities")
                               THEN Stored(u, k) \cup {row \in batch : Lands(v, kind, row)}
                               ELSE Stored(u, k)
          /\ rows' \in [Versions -> RowRecords]
          /\ entities' \in SUBSET Entities
    <3>1. WritersStand
      BY DEF Standing
    <3>. QED
      BY <1>2, <3>1, BatchStores, Zenon
  <2>2. UNCHANGED marker
    BY <1>2 DEF WritesBatch
  <2>3. kind \in Kinds /\ At(w, kind)
    BY <1>2, OrderKinds DEF WritesBatch
  <2>4. writer[w] # Idle /\ Past(w) /\ writer[w].left \subseteq writer[w].content[kind]
    <3>1. writer[w] # Idle
      BY <2>3, AtMeansCommand DEF Kinds
    <3>2. Past(w)
      BY <2>3, <3>1 DEF Past, At, Kinds
    <3>. QED
      BY <2>3, <3>1, <3>2 DEF Standing, WritersStand
  <2> HIDE DEF kind
  <2>5. \A u \in Versions, k \in Kinds : Stored(u, k) \subseteq Stored(u, k)'
    BY <2>1
  <2>6. \A u \in Versions, k \in Tables : \A row \in Stored(u, k)' :
          \/ row \in Stored(u, k)
          \/ Past(w) /\ u = v /\ row \in writer[w].content[k] /\ Lands(v, k, row)
    BY <2>1, <2>4 DEF Tables
  <2>. QED
    BY <2>1, <2>2, <2>5, <2>6, MarkerStays DEF StoreGrows, StoreTyped, NewIsOf
<1>3. CASE Seals(w)
  <2>0. UNCHANGED <<rows, entities>>
    BY <1>3 DEF Seals
  <2> DEFINE v == writer[w].version
             m == [status |-> "graph_staged", content |-> writer[w].content, counts |-> {writer[w].content}]
  <2>1. CASE marker[v] = None
    <3>1. marker' = marker
      BY <1>3, <2>1, SealMarks
    <3>. QED
      BY <2>0, <3>1, RowsStay, MarkerStays DEF StoreGrows, StoreTyped, NewIsOf
  <2>2. CASE marker[v] # None
    <3>1. /\ v \in Versions
          /\ marker[v].content = writer[w].content
          /\ marker' = [marker EXCEPT ![v] = m]
          /\ marker[v].status = "graph_staged" => marker[v].counts = {writer[w].content}
      BY <1>3, <2>2, SealMarks
    <3>2. m \in Markers
      <4>1. marker[v].content \in Contents
        BY <2>2, <3>1, MarkerTyped DEF Markers
      <4>. QED
        BY <3>1, <4>1 DEF Markers
    <3>3. m.content = marker[v].content /\ m.status = "graph_staged" /\ m.counts = {writer[w].content}
      BY <3>1
    <3> HIDE DEF m
    <3>4. /\ \A u \in Versions : marker[u] # None =>
                marker'[u] # None /\ marker'[u].content = marker[u].content
          /\ \A u \in Versions : \A c : SealedFor(u, c) => SealedFor(u, c)'
          /\ marker' \in [Versions -> Markers \cup {None}]
          /\ \A u \in Versions : ~(marker[u] = None /\ marker'[u] # None)
      BY <2>2, <3>1, <3>2, <3>3, MarkerKept
    <3>. QED
      BY <2>0, <3>4, RowsStay DEF StoreGrows, StoreTyped, NewIsOf
  <2>. QED
    BY <2>1, <2>2
<1>4. CASE MarksFailed(w)
  <2>0. UNCHANGED <<rows, entities>>
    BY <1>4 DEF MarksFailed
  <2> DEFINE v == writer[w].version
             m == [marker[v] EXCEPT !.status = "failed"]
  <2>1. v \in Versions
    BY <1>4, AtMeansCommand, CommandAt DEF MarksFailed
  <2>2. CASE ~(marker[v] # None /\ marker[v].status # "graph_staged")
    <3>1. marker' = marker
      BY <1>4, <2>1, <2>2 DEF MarksFailed, TypeOK
    <3>. QED
      BY <2>0, <3>1, RowsStay, MarkerStays DEF StoreGrows, StoreTyped, NewIsOf
  <2>3. CASE marker[v] # None /\ marker[v].status # "graph_staged"
    <3>1. marker' = [marker EXCEPT ![v] = m]
      BY <1>4, <2>3 DEF MarksFailed
    <3>2. m \in Markers /\ m.content = marker[v].content /\ m.status = "failed"
      BY <2>1, <2>3, MarkerTyped DEF Markers
    <3> HIDE DEF m
    <3>4. /\ \A u \in Versions : marker[u] # None =>
                marker'[u] # None /\ marker'[u].content = marker[u].content
          /\ \A u \in Versions : \A c : SealedFor(u, c) => SealedFor(u, c)'
          /\ marker' \in [Versions -> Markers \cup {None}]
          /\ \A u \in Versions : ~(marker[u] = None /\ marker'[u] # None)
      BY <2>1, <2>3, <3>1, <3>2, MarkerKept
    <3>. QED
      BY <2>0, <3>4, RowsStay DEF StoreGrows, StoreTyped, NewIsOf
  <2>. QED
    BY <2>2, <2>3
<1>5. CASE UNCHANGED storeVars
  BY <1>5, StoreStays
<1>. QED
  BY <1>1, <1>2, <1>3, <1>4, <1>5
     DEF Writes, BeginStage, BeginRecover, Begin, Looks, Verifies, Reports, Fails, Dies, storeVars

----------------------------------------------------------------------------
(* What a discard does: it takes away, and everybody sees it.               *)

Shrinks(v) ==
  /\ v \in Inactive /\ UNCHANGED writer /\ Disturbs(v)
  /\ \A u \in Versions \ {v} : marker'[u] = marker[u] /\ rows'[u] = rows[u]
  /\ marker'[v] \in {marker[v], None}
  /\ \A kind \in Tables : rows'[v][kind] \subseteq rows[v][kind]
  /\ \A u \in Versions : \A m \in rows'[u].mentions : m[2] \in entities'
  /\ discarding' # Idle => discarding'.version = v
  /\ StoreTyped
  /\ discarding' \in [at : {"relations", "nodes", "orphans"}, version : Versions] \cup {Idle}

LEMMA InactiveVersions == Inactive \subseteq Versions
BY JobsValid

LEMMA DiscardingTyped ==
  ASSUME TypeOK, Standing, discarding # Idle
  PROVE  /\ discarding \in [at : {"relations", "nodes", "orphans"}, version : Versions]
         /\ discarding.version \in Inactive /\ discarding.version \in Versions
BY DEF TypeOK, Standing, DiscardsInactive

LEMMA Mentioned ==
  ASSUME TypeOK
  PROVE  UNION {{m[2] : m \in rows[v].mentions} \cup UNION {{r[1], r[2]} : r \in rows[v].relations}
                  : v \in Versions} \subseteq Entities
<1>1. ASSUME NEW v \in Versions
      PROVE  /\ \A m \in rows[v].mentions : m[2] \in Entities
             /\ \A r \in rows[v].relations : r[1] \in Entities /\ r[2] \in Entities
  <2>1. rows[v].mentions \subseteq Chunks \X Entities /\ rows[v].relations \subseteq Entities \X Entities
    BY DEF TypeOK, Row
  <2>. QED
    BY <2>1
<1>. QED
  BY <1>1

LEMMA DiscardShrinks ==
  ASSUME TypeOK, Standing, Discards, ~DiscardDies
  PROVE  \E v \in Versions : Shrinks(v)
<1>0. rows \in [Versions -> RowRecords]
  BY DEF TypeOK, RowRecords
<1>1. ASSUME NEW v \in Inactive, BeginsDiscard(v)
      PROVE  Shrinks(v)
  <2>1. StoreTyped
    BY <1>1, StoreStays DEF BeginsDiscard
  <2>2. discarding' = [at |-> "relations", version |-> v]
    BY <1>1 DEF BeginsDiscard
  <2>. QED
    BY <1>1, <2>1, <2>2, InactiveVersions
       DEF BeginsDiscard, Shrinks, storeVars, Standing, MentionsStand
<1>2. CASE DropsRelations
  <2> DEFINE v == discarding.version
  <2>1. discarding # Idle
    BY <1>2 DEF DropsRelations, Idle
  <2>2. discarding \in [at : {"relations", "nodes", "orphans"}, version : Versions]
        /\ v \in Inactive /\ v \in Versions
    BY <2>1, DiscardingTyped
  <2>3. /\ rows' = [rows EXCEPT ![v].mentions = {}, ![v].relations = {}]
        /\ discarding' = [discarding EXCEPT !.at = "nodes"] /\ Disturbs(v)
        /\ UNCHANGED <<marker, entities, writer>>
    BY <1>2 DEF DropsRelations
  <2>4. \A u \in Versions \ {v} : rows'[u] = rows[u]
    BY <1>0, <2>2, <2>3
  <2>5. /\ rows'[v] \in RowRecords
        /\ rows'[v].documents = rows[v].documents /\ rows'[v].chunks = rows[v].chunks
        /\ rows'[v].mentions = {} /\ rows'[v].relations = {}
    BY <1>0, <2>2, <2>3 DEF RowRecords
  <2>6. rows' \in [Versions -> RowRecords]
    <3>1. rows' = [rows EXCEPT ![v] = rows'[v]]
      BY <1>0, <2>2, <2>3
    <3>. QED
      BY <1>0, <2>2, <2>5, <3>1
  <2>7. StoreTyped
    BY <2>3, <2>6 DEF StoreTyped, TypeOK
  <2>8. \A kind \in Tables : rows'[v][kind] \subseteq rows[v][kind]
    BY <2>5 DEF Tables, Kinds
  <2>9. \A u \in Versions : \A m \in rows'[u].mentions : m[2] \in entities'
    BY <2>3, <2>4, <2>5 DEF Standing, MentionsStand
  <2>10. discarding' \in [at : {"relations", "nodes", "orphans"}, version : Versions] /\ discarding'.version = v
    BY <2>2, <2>3
  <2>11. Shrinks(v)
    BY <2>2, <2>3, <2>4, <2>7, <2>8, <2>9, <2>10 DEF Shrinks
  <2>. QED
    BY <2>2, <2>11
<1>3. CASE DropsNodes
  <2> DEFINE v == discarding.version
  <2>1. discarding # Idle
    BY <1>3 DEF DropsNodes, Idle
  <2>2. discarding \in [at : {"relations", "nodes", "orphans"}, version : Versions]
        /\ v \in Inactive /\ v \in Versions
    BY <2>1, DiscardingTyped
  <2>3. /\ marker' = [marker EXCEPT ![v] = None]
        /\ rows' = [rows EXCEPT ![v] = [Empty EXCEPT !.relations = rows[v].relations]]
        /\ discarding' = [discarding EXCEPT !.at = "orphans"] /\ Disturbs(v)
        /\ UNCHANGED <<entities, writer>>
    BY <1>3 DEF DropsNodes
  <2>4. /\ \A u \in Versions \ {v} : rows'[u] = rows[u] /\ marker'[u] = marker[u]
        /\ marker'[v] = None /\ rows'[v] = [Empty EXCEPT !.relations = rows[v].relations]
    BY <1>0, <2>2, <2>3 DEF TypeOK
  <2>5. /\ rows'[v] \in RowRecords
        /\ rows'[v].documents = {} /\ rows'[v].chunks = {}
        /\ rows'[v].mentions = {} /\ rows'[v].relations = rows[v].relations
    <3>1. rows[v].relations \subseteq Row.relations
      BY <1>0, <2>2 DEF RowRecords
    <3>. QED
      BY <2>4, <3>1 DEF RowRecords, Empty
  <2>6. rows' \in [Versions -> RowRecords]
    BY <1>0, <2>2, <2>3, <2>4, <2>5
  <2>7. StoreTyped
    BY <2>2, <2>3, <2>6 DEF StoreTyped, TypeOK
  <2>8. \A kind \in Tables : rows'[v][kind] \subseteq rows[v][kind]
    BY <2>5 DEF Tables, Kinds
  <2>9. \A u \in Versions : \A m \in rows'[u].mentions : m[2] \in entities'
    BY <2>3, <2>4, <2>5 DEF Standing, MentionsStand
  <2>10. discarding' \in [at : {"relations", "nodes", "orphans"}, version : Versions] /\ discarding'.version = v
    BY <2>2, <2>3
  <2>11. Shrinks(v)
    BY <2>2, <2>3, <2>4, <2>7, <2>8, <2>9, <2>10 DEF Shrinks
  <2>. QED
    BY <2>2, <2>11
<1>4. CASE DropsOrphans
  <2> DEFINE v == discarding.version
  <2>1. discarding # Idle
    BY <1>4 DEF DropsOrphans, Idle
  <2>2. v \in Inactive /\ v \in Versions
    BY <2>1, DiscardingTyped
  <2>3. /\ entities' = UNION {{m[2] : m \in rows[u].mentions}
                                \cup UNION {{r[1], r[2]} : r \in rows[u].relations} : u \in Versions}
        /\ discarding' = Idle /\ Disturbs(v) /\ UNCHANGED <<marker, rows, writer>>
    BY <1>4 DEF DropsOrphans
  <2>4. entities' \subseteq Entities
    BY <2>3, Mentioned
  <2>5. StoreTyped
    BY <1>0, <2>3, <2>4 DEF StoreTyped, TypeOK
  <2>6. \A u \in Versions : \A m \in rows'[u].mentions : m[2] \in entities'
    BY <2>3
  <2>7. Shrinks(v)
    BY <2>2, <2>3, <2>5, <2>6 DEF Shrinks
  <2>. QED
    BY <2>2, <2>7
<1>. QED
  BY <1>1, <1>2, <1>3, <1>4, InactiveVersions DEF Discards

----------------------------------------------------------------------------
(* The types and the standing of things are kept.                           *)

LEMMA SettledTyped ==
  ASSUME TypeOK, NEW w \in Writers, Writes(w)
  PROVE  settled' \in [Versions -> SUBSET Contents] /\ discarding' = discarding
<1>1. CASE Reports(w)
  <2>1. writer[w].version \in Versions /\ writer[w].content \in Contents
    BY <1>1, AtMeansCommand, CommandAt DEF Reports
  <2>. QED
    BY <1>1, <2>1 DEF Reports, TypeOK
<1>2. CASE UNCHANGED <<settled, discarding>>
  BY <1>2 DEF TypeOK
<1>. QED
  BY <1>1, <1>2 DEF Writes, BeginStage, BeginRecover, Begin, UpsertsMarker, WritesBatch, Seals, Looks,
     Verifies, Fails, MarksFailed, Dies

LEMMA Typed ==
  ASSUME TypeOK, Standing, [Next]_vars
  PROVE  TypeOK'
<1>1. ASSUME NEW w \in Writers, Writes(w)
      PROVE  TypeOK'
  <2>1. StoreTyped /\ Steps(w) /\ settled' \in [Versions -> SUBSET Contents] /\ discarding' = discarding
    BY <1>1, WriterGrows, WriterTyped, SettledTyped
  <2>. QED
    BY <2>1 DEF TypeOK, StoreTyped, Steps, RowRecords
<1>2. ASSUME NEW v \in Versions, Shrinks(v)
      PROVE  TypeOK'
  <2>1. settled' \in [Versions -> SUBSET Contents] /\ disturbed' \in [Writers -> {"no", "other", "own"}]
    BY <1>2 DEF Shrinks, Disturbs, TypeOK
  <2>. QED
    BY <1>2, <2>1 DEF TypeOK, StoreTyped, Shrinks, RowRecords
<1>3. CASE DiscardDies
  BY <1>3 DEF DiscardDies, TypeOK, storeVars
<1>4. CASE UNCHANGED vars
  BY <1>4 DEF vars, TypeOK
<1>. QED
  BY <1>1, <1>2, <1>3, <1>4, DiscardShrinks DEF Next

\* What a version goes by is not changed but by a discard and a new beginning.
LEMMA StandsStays ==
  ASSUME NEW v \in Versions, NEW c, Stands(v, c),
         v \in Inactive \/ (marker[v] # None => marker'[v] # None /\ marker'[v].content = marker[v].content)
  PROVE  Stands(v, c)'
BY DEF Stands

LEMMA StandsThrough ==
  ASSUME TypeOK, Standing, [Next]_vars
  PROVE  \A v \in Versions : \A c : Stands(v, c) => Stands(v, c)'
<1>1. ASSUME NEW w \in Writers, Writes(w), NEW v \in Versions
      PROVE  marker[v] # None => marker'[v] # None /\ marker'[v].content = marker[v].content
  BY <1>1, WriterGrows DEF StoreGrows
<1>2. ASSUME NEW u \in Versions, Shrinks(u), NEW v \in Versions
      PROVE  v \in Inactive \/ marker'[v] = marker[v]
  BY <1>2 DEF Shrinks
<1>3. CASE DiscardDies \/ UNCHANGED vars
  BY <1>3, StandsStays DEF DiscardDies, storeVars, vars
<1>. QED
  BY <1>1, <1>2, <1>3, StandsStays, DiscardShrinks DEF Next

LEMMA MarkersStandStays ==
  ASSUME TypeOK, Standing, NEW w \in Writers, Writes(w)
  PROVE  MarkersStand'
<1>. SUFFICES ASSUME NEW v \in Versions, marker'[v] # None
              PROVE  /\ marker'[v].content \in StagedWith(v)
                     /\ marker'[v].counts \subseteq {marker'[v].content}
                     /\ marker'[v].status = "graph_staged" => marker'[v].counts = {marker'[v].content}
  BY DEF MarkersStand
<1>1. CASE marker[v] = None
  <2>1. /\ v = writer[w].version /\ writer[w].op # "recover"
        /\ marker'[v] = [status |-> "writing", content |-> writer[w].content, counts |-> {}]
    BY <1>1, WriterGrows DEF NewIsOf
  <2>2. writer[w] # Idle
    <3>1. marker' # marker
      BY <1>1
    <3>2. UpsertsMarker(w) \/ Seals(w) \/ MarksFailed(w)
      BY <3>1 DEF Writes, BeginStage, BeginRecover, Begin, WritesBatch, Looks, Verifies, Reports,
         Fails, Dies, storeVars
    <3>. QED
      BY <3>2, AtMeansCommand DEF UpsertsMarker, Seals, MarksFailed
  <2>3. writer[w].content \in StagedWith(v)
    BY <2>1, <2>2 DEF Standing, WritersStand
  <2>. QED
    BY <2>1, <2>3
<1>2. CASE marker[v] # None /\ marker'[v] = marker[v]
  BY <1>2 DEF Standing, MarkersStand
<1>3. CASE marker[v] # None /\ marker'[v] # marker[v]
  <2>1. /\ marker[v].content \in StagedWith(v) /\ marker[v].counts \subseteq {marker[v].content}
        /\ marker'[v].content = marker[v].content
    BY <1>3, WriterGrows DEF Standing, MarkersStand, StoreGrows
  <2>2. CASE Seals(w)
    <3>1. v = writer[w].version
      BY <1>3, <2>2 DEF Seals, TypeOK
    <3>2. marker'[v] = [status |-> "graph_staged", content |-> writer[w].content, counts |-> {writer[w].content}]
      BY <1>3, <2>2, <3>1, SealMarks DEF TypeOK
    <3>. QED
      BY <2>1, <3>2
  <2>3. CASE MarksFailed(w)
    <3>1. marker'[v] = [marker[v] EXCEPT !.status = "failed"]
      BY <1>3, <2>3 DEF MarksFailed, TypeOK
    <3>2. marker[v] \in Markers
      BY <1>3, MarkerTyped
    <3>3. marker'[v].status = "failed" /\ marker'[v].counts = marker[v].counts
      BY <3>1, <3>2 DEF Markers
    <3>. QED
      BY <2>1, <3>3
  <2>4. CASE UpsertsMarker(w)
    <3>1. marker'[v] = marker[v]
      BY <1>3, <2>4 DEF UpsertsMarker, TypeOK
    <3>. QED
      BY <1>3, <3>1
  <2>5. CASE UNCHANGED marker
    BY <1>3, <2>5
  <2>. QED
    BY <2>2, <2>3, <2>4, <2>5 DEF Writes, BeginStage, BeginRecover, Begin, WritesBatch, Looks, Verifies,
       Reports, Fails, Dies, storeVars
<1>. QED
  BY <1>1, <1>2, <1>3

LEMMA RowsStandStays ==
  ASSUME TypeOK, Standing, NEW w \in Writers, Writes(w)
  PROVE  RowsStand' /\ MentionsStand'
<1>1. ASSUME NEW v \in Versions, NEW kind \in Tables, NEW row \in rows'[v][kind]
      PROVE  \E c \in Contents : Stands(v, c)' /\ row \in c[kind]
  <2>1. kind # "entities" /\ Stored(v, kind) = rows[v][kind] /\ Stored(v, kind)' = rows'[v][kind]
    BY DEF Tables, Stored
  <2>2. row \in rows[v][kind] \/ (Past(w) /\ v = writer[w].version /\ row \in writer[w].content[kind])
    <3>1. NewIsOf(w) /\ row \in Stored(v, kind)'
      BY <2>1, WriterGrows
    <3>2. \/ row \in Stored(v, kind)
          \/ Past(w) /\ v = writer[w].version /\ row \in writer[w].content[kind] /\ Lands(v, kind, row)
      BY <3>1, Zenon DEF NewIsOf
    <3>. QED
      BY <2>1, <3>2
  <2>3. \E c \in Contents : Stands(v, c) /\ row \in c[kind]
    BY <2>2, PastStands, CommandAt DEF Standing, RowsStand, Past
  <2>. QED
    BY <2>3, StandsThrough DEF Next
<1>2. ASSUME NEW v \in Versions, NEW m \in rows'[v].mentions
      PROVE  m[2] \in entities'
  <2>1. "mentions" \in Tables /\ Stored(v, "mentions") = rows[v].mentions /\ Stored(v, "mentions")' = rows'[v].mentions
    BY DEF Tables, Kinds, Stored
  <2>2. m \in rows[v].mentions \/ Lands(v, "mentions", m)
    <3>1. NewIsOf(w) /\ m \in Stored(v, "mentions")'
      BY <2>1, WriterGrows
    <3>2. m \in Stored(v, "mentions") \/ Lands(v, "mentions", m)
      BY <2>1, <3>1, Zenon DEF NewIsOf
    <3>. QED
      BY <2>1, <3>2
  <2>3. m[2] \in entities
    BY <2>2 DEF Standing, MentionsStand, Lands
  <2>4. entities \subseteq entities'
    <3>1. "entities" \in Kinds /\ Stored(v, "entities") = entities /\ Stored(v, "entities")' = entities'
      BY DEF Stored, Kinds
    <3>. QED
      BY <3>1, WriterGrows DEF StoreGrows
  <2>. QED
    BY <2>3, <2>4
<1>. QED
  BY <1>1, <1>2 DEF RowsStand, MentionsStand

LEMMA WritersStandStays ==
  ASSUME TypeOK, Standing, NEW w \in Writers, Writes(w)
  PROVE  WritersStand'
<1> DEFINE Stand(u) ==
      /\ writer[u].op = "recover" => writer[u].at \in Reads \cup {"look"}
      /\ At(u, "look") => writer[u].op = "recover"
      /\ writer[u].op # "recover" =>
           writer[u].content \in StagedWith(writer[u].version) /\ writer[u].counts = writer[u].content
      /\ Past(u) =>
           Stands(writer[u].version, writer[u].content) /\ writer[u].counts = writer[u].content
      /\ \A kind \in Kinds : At(u, kind) => writer[u].left \subseteq writer[u].content[kind]
<1>0. \A u \in Writers : writer[u] # Idle => Stand(u)
  BY DEF Standing, WritersStand
<1>1. \A v \in Versions : \A c : Stands(v, c) => Stands(v, c)'
  BY StandsThrough DEF Next
<1>2. Steps(w) /\ TypeOK'
  BY WriterTyped, Typed DEF Next
<1>3. ASSUME NEW u \in Writers, u # w, writer'[u] # Idle
      PROVE  Stand(u)'
  <2>1. writer'[u] = writer[u] /\ writer[u].version \in Versions /\ writer[u] # Idle
    BY <1>2, <1>3, CommandAt DEF Steps
  <2>2. Stand(u)
    BY <1>0, <2>1
  <2>. QED
    BY <1>1, <2>1, <2>2 DEF Past, At
<1>4. ASSUME NEW at \in Reads \cup {"failing"}, writer[w] # Idle, Goes(w, at),
             at = "failing" => writer[w].op # "recover", at # "failing" => Past(w)
      PROVE  Stand(w)'
  <2>2. writer[w] \in Commands /\ writer[w].version \in Versions
    BY <1>4, CommandAt
  <2>3. writer'[w] = [writer[w] EXCEPT !.at = at]
    BY <1>4 DEF Goes, TypeOK
  <2>4. /\ writer'[w].at = at /\ writer'[w].op = writer[w].op /\ writer'[w].version = writer[w].version
        /\ writer'[w].content = writer[w].content /\ writer'[w].counts = writer[w].counts
    BY <2>2, <2>3 DEF Commands
  <2>5. Stand(w)
    BY <1>0, <1>4
  <2>6. at \notin Kinds \cup {"look"}
    BY DEF Reads, Kinds
  <2>. QED
    BY <1>1, <1>4, <2>2, <2>4, <2>5, <2>6 DEF Past, At
<1>5. ASSUME NEW n \in 0 .. 5, writer[w] # Idle, writer'[w] = After(writer[w], n),
             writer[w].op # "recover",
             \A v \in {writer[w].version}, c \in {writer[w].content} : Stands(v, c)'
      PROVE  Stand(w)'
  <2>1. writer[w] \in Commands
    BY <1>5, CommandAt
  <2>2. PICK at \in Kinds \cup {"seal"} :
          writer'[w] = [writer[w] EXCEPT !.at = at, !.left = IF at = "seal" THEN {} ELSE writer[w].content[at]]
    BY <1>5, <2>1, AfterIs
  <2>3. /\ writer'[w].at = at /\ writer'[w].op = writer[w].op /\ writer'[w].version = writer[w].version
        /\ writer'[w].content = writer[w].content /\ writer'[w].counts = writer[w].counts
        /\ writer'[w].left = IF at = "seal" THEN {} ELSE writer[w].content[at]
    BY <2>1, <2>2 DEF Commands
  <2>4. Stand(w)
    BY <1>0, <1>5
  <2>5. Stands(writer[w].version, writer[w].content)' /\ writer'[w].content \in StagedWith(writer'[w].version)
    BY <1>5, <2>3 DEF Stands
  <2>. QED
    BY <1>5, <2>3, <2>4, <2>5 DEF At, Kinds
<1>6. ASSUME BeginStage(w) \/ BeginRecover(w)
      PROVE  Stand(w)'
  <2>1. PICK job \in Jobs :
          writer'[w] = [at |-> IF job.op = "stage" THEN "upsert" ELSE "look", op |-> job.op,
                        version |-> job.version, content |-> job.content,
                        counts |-> job.content, left |-> {}]
    BY <1>6, BeginsTo
  <2>2. job.op = "stage" => job.content \in StagedWith(job.version)
    BY DEF StagedWith
  <2>3. job.op \in {"stage", "recover"}
    BY JobsValid DEF Asked
  <2>. QED
    BY <2>1, <2>2, <2>3 DEF Past, At, Kinds
<1>7. ASSUME UpsertsMarker(w)
      PROVE  Stand(w)'
  <2> DEFINE v == writer[w].version
             fresh == [status |-> "writing", content |-> writer[w].content, counts |-> {}]
             found == IF marker[v] = None THEN fresh ELSE marker[v]
  <2>1. /\ writer[w] # Idle /\ writer[w] \in Commands /\ v \in Versions
        /\ writer[w].op # "recover" /\ At(w, "upsert")
    <3>1. writer[w] # Idle /\ At(w, "upsert")
      BY <1>7, AtMeansCommand DEF UpsertsMarker
    <3>. QED
      BY <1>0, <3>1, CommandAt DEF At, Reads
  <2>2. Stand(w)
    BY <1>0, <2>1
  <2>3. marker'[v] = found
    BY <1>7, <2>1 DEF UpsertsMarker, TypeOK
  <2>4. found.content = writer[w].content =>
          \A u \in {v}, c \in {writer[w].content} : Stands(u, c)'
    <3>1. found # None
      BY DEF None
    <3>. QED
      BY <2>1, <2>2, <2>3, <3>1 DEF Stands
  <2>5. writer'[w] = IF found.content # writer[w].content THEN [writer[w] EXCEPT !.at = "failing"]
                     ELSE IF found.status = "graph_staged"
                     THEN [writer[w] EXCEPT !.op = "check", !.at = "read_marker"]
                     ELSE After(writer[w], 0)
    BY <1>7 DEF UpsertsMarker, TypeOK
  <2>6. CASE found.content # writer[w].content
    <3>1. writer'[w] = [writer[w] EXCEPT !.at = "failing"]
      BY <2>5, <2>6
    <3>2. /\ writer'[w].at = "failing" /\ writer'[w].op = writer[w].op /\ writer'[w].version = v
          /\ writer'[w].content = writer[w].content /\ writer'[w].counts = writer[w].counts
      BY <2>1, <3>1 DEF Commands
    <3>. QED
      BY <2>1, <2>2, <3>2 DEF Past, At, Kinds
  <2>7. CASE found.content = writer[w].content /\ found.status = "graph_staged"
    <3>1. writer'[w] = [writer[w] EXCEPT !.op = "check", !.at = "read_marker"]
      BY <2>5, <2>7
    <3>2. /\ writer'[w].at = "read_marker" /\ writer'[w].op = "check" /\ writer'[w].version = v
          /\ writer'[w].content = writer[w].content /\ writer'[w].counts = writer[w].counts
      BY <2>1, <3>1 DEF Commands
    <3>. QED
      BY <2>1, <2>2, <2>4, <2>7, <3>2 DEF Past, At, Kinds
  <2>8. CASE found.content = writer[w].content /\ found.status # "graph_staged"
    <3>1. writer'[w] = After(writer[w], 0)
      BY <2>5, <2>8
    <3>. QED
      BY <1>5, <2>1, <2>4, <2>8, <3>1
  <2>. QED
    BY <2>6, <2>7, <2>8
<1>8. ASSUME NEW n \in 1 .. 5, WritesBatch(w, n)
      PROVE  Stand(w)'
  <2> DEFINE kind == Order[n]
  <2>1. PICK batch \in SUBSET writer[w].left :
          writer' = [writer EXCEPT ![w] = IF writer[w].left = batch THEN After(writer[w], n)
                                          ELSE [writer[w] EXCEPT !.left = @ \ batch]]
    BY <1>8, BatchStores DEF Standing
  <2>2. kind \in Kinds /\ At(w, kind)
    BY <1>8, OrderKinds DEF WritesBatch
  <2> HIDE DEF kind
  <2>3. writer[w] # Idle /\ Past(w) /\ writer[w].op # "recover"
    <3>1. writer[w] # Idle
      BY <2>2, AtMeansCommand DEF Kinds
    <3>. QED
      BY <1>0, <2>2, <3>1 DEF Past, At, Kinds, Reads
  <2>4. writer[w] \in Commands /\ writer[w].version \in Versions
    BY <2>3, CommandAt
  <2>5. Stand(w) /\ \A v \in {writer[w].version}, c \in {writer[w].content} : Stands(v, c)'
    BY <1>0, <1>1, <2>3, <2>4
  <2>6. CASE writer[w].left = batch
    <3>1. writer'[w] = After(writer[w], n)
      BY <2>1, <2>6 DEF TypeOK
    <3>. QED
      BY <1>5, <2>3, <2>5, <3>1
  <2>7. CASE writer[w].left # batch
    <3>1. writer'[w] = [writer[w] EXCEPT !.left = @ \ batch]
      BY <2>1, <2>7 DEF TypeOK
    <3>2. /\ writer'[w].at = writer[w].at /\ writer'[w].op = writer[w].op
          /\ writer'[w].version = writer[w].version /\ writer'[w].content = writer[w].content
          /\ writer'[w].counts = writer[w].counts /\ writer'[w].left \subseteq writer[w].left
      BY <2>4, <3>1 DEF Commands
    <3>. QED
      BY <2>3, <2>5, <3>2 DEF At, Past
  <2>. QED
    BY <2>6, <2>7
<1>9. ASSUME Looks(w)
      PROVE  Stand(w)'
  <2> DEFINE v == writer[w].version
             found == marker[v]
  <2>1. PICK counts \in found.counts :
          writer' = [writer EXCEPT ![w].at = "read_marker", ![w].content = found.content, ![w].counts = counts]
    BY <1>9 DEF Looks
  <2>2. writer[w] # Idle /\ writer[w] \in Commands /\ v \in Versions /\ At(w, "look")
    BY <1>9, AtMeansCommand, CommandAt DEF Looks
  <2>3. found # None /\ found.content \in StagedWith(v) /\ counts = found.content
    <3>1. found # None
      BY <1>9 DEF Looks, None
    <3>2. found.counts \subseteq {found.content} /\ found.content \in StagedWith(v)
      BY <2>2, <3>1 DEF Standing, MarkersStand
    <3>. QED
      BY <2>1, <3>1, <3>2
  <2>4. \A u \in {v}, c \in {found.content} : Stands(u, c)'
    BY <1>1, <2>2, <2>3, MarkerStands DEF Standing
  <2>5. writer'[w] = [writer[w] EXCEPT !.at = "read_marker", !.content = found.content, !.counts = counts]
    BY <2>1 DEF TypeOK
  <2>6. /\ writer'[w].at = "read_marker" /\ writer'[w].op = writer[w].op /\ writer'[w].version = v
        /\ writer'[w].content = found.content /\ writer'[w].counts = counts
    BY <2>2, <2>5 DEF Commands
  <2> HIDE DEF found
  <2>. QED
    BY <2>2, <2>3, <2>4, <2>6 DEF Past, At, Kinds, Reads
<1>10. ASSUME Seals(w)
       PROVE  Stand(w)'
  <2>1. writer[w] # Idle /\ Past(w) /\ Goes(w, "read_marker")
    BY <1>10, AtMeansCommand DEF Seals, Past, At
  <2>. QED
    BY <1>4, <2>1 DEF Reads
<1>11. ASSUME Fails(w)
       PROVE  Stand(w)'
  BY <1>4, <1>11 DEF Fails
<1>12. ASSUME NEW read \in Reads, NEW next \in Reads, Verifies(w, read, next)
       PROVE  Stand(w)'
  <2>1. writer[w] # Idle /\ Past(w) /\ Goes(w, next)
    <3>1. read # "idle" /\ read \notin {"upsert", "look", "failing"}
      BY DEF Reads
    <3>. QED
      BY <1>12, <3>1, AtMeansCommand DEF Verifies, Past, At
  <2>2. next # "failing"
    BY DEF Reads
  <2>. QED
    BY <1>4, <2>1, <2>2
<1>13. ASSUME Reports(w) \/ MarksFailed(w) \/ Dies(w)
       PROVE  writer'[w] = Idle
  BY <1>13, EndsSteps DEF Reports, MarksFailed, Dies
<1>14. writer'[w] # Idle => Stand(w)'
  BY <1>6, <1>7, <1>8, <1>9, <1>10, <1>11, <1>12, <1>13 DEF Writes, Reads
<1>15. \A u \in Writers : writer'[u] # Idle => Stand(u)'
  BY <1>3, <1>14
<1>. QED
  BY <1>15 DEF WritersStand

\* Everything stands as it did, whoever goes on.
LEMMA StandingStays ==
  ASSUME TypeOK, Standing, [Next]_vars
  PROVE  Standing'
<1>1. ASSUME NEW w \in Writers, Writes(w)
      PROVE  Standing'
  <2>1. MarkersStand' /\ RowsStand' /\ MentionsStand' /\ WritersStand'
    BY <1>1, MarkersStandStays, RowsStandStays, WritersStandStays
  <2>2. discarding' = discarding
    BY <1>1, SettledTyped
  <2>. QED
    BY <2>1, <2>2 DEF Standing, DiscardsInactive
<1>2. ASSUME NEW v \in Versions, Shrinks(v)
      PROVE  Standing'
  <2>0. \A u \in Versions : \A c : Stands(u, c) => Stands(u, c)'
    BY StandsThrough
  <2>1. MarkersStand'
    <3>1. \A u \in Versions : marker'[u] # None => marker'[u] = marker[u]
      BY <1>2 DEF Shrinks
    <3>. QED
      BY <3>1 DEF Standing, MarkersStand
  <2>2. RowsStand'
    <3>1. \A u \in Versions, kind \in Tables : rows'[u][kind] \subseteq rows[u][kind]
      BY <1>2 DEF Shrinks
    <3>. QED
      BY <2>0, <3>1 DEF Standing, RowsStand
  <2>3. MentionsStand' /\ DiscardsInactive' /\ writer' = writer
    BY <1>2 DEF Shrinks, MentionsStand, DiscardsInactive
  <2>4. WritersStand'
    BY <2>0, <2>3, CommandAt DEF Standing, WritersStand, Past, At
  <2>. QED
    BY <2>1, <2>2, <2>3, <2>4 DEF Standing
<1>3. ASSUME UNCHANGED <<storeVars, writer>>, discarding' \in {discarding, Idle}
      PROVE  Standing'
  <2>1. /\ UNCHANGED <<marker, rows, entities, writer>>
        /\ \A u \in Versions : \A c : Stands(u, c)' <=> Stands(u, c)
    BY <1>3 DEF storeVars, Stands
  <2>2. MarkersStand' /\ MentionsStand' /\ DiscardsInactive' /\ RowsStand'
    BY <1>3, <2>1 DEF Standing, MarkersStand, MentionsStand, DiscardsInactive, RowsStand
  <2>3. WritersStand'
    BY <2>1, CommandAt DEF Standing, WritersStand, Past, At
  <2>. QED
    BY <2>2, <2>3 DEF Standing
<1>4. CASE DiscardDies \/ UNCHANGED vars
  BY <1>3, <1>4 DEF DiscardDies, vars, storeVars
<1>. QED
  BY <1>1, <1>2, <1>4, DiscardShrinks DEF Next

----------------------------------------------------------------------------
(* What a command has read is so.                                           *)

LEMMA FiniteContents ==
  ASSUME NEW c \in Contents, NEW kind \in {"documents", "chunks", "mentions", "relations"}
  PROVE  IsFiniteSet(c[kind])
<1>1. /\ IsFiniteSet(c.chunks) /\ IsFiniteSet(c.entities) /\ c.documents = c.chunks
      /\ c.mentions \subseteq c.chunks \X c.entities /\ c.relations \subseteq c.entities \X c.entities
  BY ContentTyped DEF Valid
<1>2. IsFiniteSet(c.chunks \X c.entities) /\ IsFiniteSet(c.entities \X c.entities)
  BY <1>1, FS_Product
<1>. QED
  BY <1>1, <1>2, FS_Subset

\* As many rows as the content has are the rows of the content.
LEMMA CountedRows ==
  ASSUME TypeOK, Standing, NEW w \in Writers, Past(w),
         NEW kind \in {"documents", "mentions", "relations"},
         SameCount(rows[writer[w].version][kind], writer[w].content[kind])
  PROVE  rows[writer[w].version][kind] = writer[w].content[kind]
<1>1. /\ writer[w].version \in Versions /\ writer[w].content \in Contents
      /\ Stands(writer[w].version, writer[w].content)
  BY CommandAt, PastStands DEF Past, Standing
<1>2. rows[writer[w].version][kind] \subseteq writer[w].content[kind]
  <2>1. kind \in Tables
    BY DEF Tables, Kinds
  <2>. QED
    BY <1>1, <2>1, RowsWithin DEF Standing
<1>3. IsFiniteSet(writer[w].content[kind])
  BY <1>1, FiniteContents
<1>. QED
  BY <1>2, <1>3, FS_Subset DEF SameCount

\* The reads in their order.
NextRead ==
  {<<"read_marker", "read_chunks">>, <<"read_chunks", "read_documents">>,
   <<"read_documents", "read_entities">>, <<"read_entities", "read_mentions">>,
   <<"read_mentions", "read_relations">>}

\* A command comes to any read but the first by the one before.
LEMMA ComesByReading ==
  ASSUME TypeOK, Standing, NEW w \in Writers, Writes(w), writer'[w].at \in Reads \ {"read_marker"}
  PROVE  \E r \in NextRead : Verifies(w, r[1], r[2]) /\ writer'[w] = [writer[w] EXCEPT !.at = r[2]]
<1>1. ASSUME NEW n \in 0 .. 5, writer[w] # Idle, writer'[w] = After(writer[w], n)
      PROVE  writer'[w].at \in Kinds \cup {"seal"}
  <2>1. writer[w] \in Commands
    BY <1>1, CommandAt
  <2>2. PICK at \in Kinds \cup {"seal"} :
          writer'[w] = [writer[w] EXCEPT !.at = at, !.left = IF at = "seal" THEN {} ELSE writer[w].content[at]]
    BY <1>1, <2>1, AfterIs
  <2>. QED
    BY <2>1, <2>2 DEF Commands
<1>2. ASSUME NEW at, writer[w] # Idle, Goes(w, at)
      PROVE  writer'[w] = [writer[w] EXCEPT !.at = at] /\ writer'[w].at = at
  <2>1. writer'[w] = [writer[w] EXCEPT !.at = at]
    BY <1>2 DEF Goes, TypeOK
  <2>. QED
    BY <1>2, <2>1, CommandAt DEF Commands
<1>3. ASSUME BeginStage(w) \/ BeginRecover(w)
      PROVE  FALSE
  <2>1. PICK job \in Jobs :
          writer'[w] = [at |-> IF job.op = "stage" THEN "upsert" ELSE "look", op |-> job.op,
                        version |-> job.version, content |-> job.content,
                        counts |-> job.content, left |-> {}]
    BY <1>3, BeginsTo
  <2>2. writer'[w].at \in {"upsert", "look"}
    BY <2>1
  <2>. QED
    BY <2>2 DEF Reads
<1>4. ASSUME UpsertsMarker(w)
      PROVE  FALSE
  <2>1. writer[w] # Idle /\ writer[w] \in Commands
    BY <1>4, AtMeansCommand, CommandAt DEF UpsertsMarker
  <2>2. \/ writer'[w] = [writer[w] EXCEPT !.at = "failing"]
        \/ writer'[w] = [writer[w] EXCEPT !.op = "check", !.at = "read_marker"]
        \/ writer'[w] = After(writer[w], 0)
    BY <1>4 DEF UpsertsMarker, TypeOK
  <2>3. writer'[w] = [writer[w] EXCEPT !.at = "failing"] => writer'[w].at = "failing"
    BY <2>1 DEF Commands
  <2>4. writer'[w] = [writer[w] EXCEPT !.op = "check", !.at = "read_marker"] => writer'[w].at = "read_marker"
    BY <2>1 DEF Commands
  <2>5. writer'[w].at \in {"failing", "read_marker", "seal"} \cup Kinds
    <3>1. writer'[w] = After(writer[w], 0) => writer'[w].at \in Kinds \cup {"seal"}
      BY <1>1, <2>1
    <3>. QED
      BY <2>2, <2>3, <2>4, <3>1
  <2>. QED
    BY <2>5 DEF Reads, Kinds
<1>5. ASSUME NEW n \in 1 .. 5, WritesBatch(w, n)
      PROVE  FALSE
  <2>1. PICK batch \in SUBSET writer[w].left :
          writer' = [writer EXCEPT ![w] = IF writer[w].left = batch THEN After(writer[w], n)
                                          ELSE [writer[w] EXCEPT !.left = @ \ batch]]
    BY <1>5, BatchStores DEF Standing
  <2>2. Order[n] \in Kinds /\ writer[w].at = Order[n]
    BY <1>5, OrderKinds DEF WritesBatch, At
  <2>3. writer[w] # Idle /\ writer[w] \in Commands
    BY <2>2, AtMeansCommand, CommandAt DEF Kinds, At
  <2>4. \/ writer'[w] = After(writer[w], n)
        \/ writer'[w] = [writer[w] EXCEPT !.left = @ \ batch]
    BY <2>1 DEF TypeOK
  <2>5. writer'[w].at \in Kinds \cup {"seal"}
    BY <1>1, <2>2, <2>3, <2>4 DEF Commands
  <2>. QED
    BY <2>5 DEF Reads, Kinds
<1>6. ASSUME Looks(w)
      PROVE  FALSE
  <2>1. writer[w] \in Commands
    BY <1>6, AtMeansCommand, CommandAt DEF Looks
  <2>2. PICK counts : writer'[w] = [writer[w] EXCEPT !.at = "read_marker",
                         !.content = marker[writer[w].version].content, !.counts = counts]
    BY <1>6 DEF Looks, TypeOK
  <2>3. writer'[w].at = "read_marker"
    BY <2>1, <2>2 DEF Commands
  <2>. QED
    BY <2>3
<1>7. ASSUME Seals(w) \/ Fails(w)
      PROVE  FALSE
  <2>1. writer[w] # Idle /\ (Goes(w, "read_marker") \/ Goes(w, "failing"))
    BY <1>7, AtMeansCommand DEF Seals, Fails
  <2>2. writer'[w].at \in {"read_marker", "failing"}
    BY <1>2, <2>1
  <2>. QED
    BY <2>2 DEF Reads
<1>8. ~Reports(w) /\ ~MarksFailed(w) /\ ~Dies(w)
  BY EndsSteps DEF Reports, MarksFailed, Dies, Idle, Reads
<1>9. \E r \in NextRead : Verifies(w, r[1], r[2])
  BY <1>3, <1>4, <1>5, <1>6, <1>7, <1>8 DEF Writes, NextRead
<1>10. ASSUME NEW r \in NextRead, Verifies(w, r[1], r[2])
       PROVE  writer'[w] = [writer[w] EXCEPT !.at = r[2]]
  <2>1. r[1] # "idle"
    BY DEF NextRead
  <2>. QED
    BY <1>2, <1>10, <2>1, AtMeansCommand DEF Verifies
<1>. QED
  BY <1>9, <1>10

LEMMA ReadSoFarStays ==
  ASSUME TypeOK, Standing, ReadSoFar, NEW w \in Writers, Writes(w)
  PROVE  ReadSoFar'
<1> DEFINE Read(at, v, c) ==
      /\ at \in Reads \ {"read_marker"} => SealedFor(v, c)
      /\ at \in Reads \ {"read_marker", "read_chunks"} => rows[v].chunks = c.chunks
      /\ at \in {"read_entities", "read_mentions", "read_relations"} => rows[v].documents = c.documents
      /\ at = "read_relations" => rows[v].mentions = c.mentions
<1>1. StoreGrows /\ Steps(w) /\ TypeOK' /\ Standing'
  BY WriterGrows, WriterTyped, Typed, StandingStays DEF Next
<1>2. ASSUME NEW u \in Writers, Undisturbed(u)
      PROVE  Read(writer[u].at, writer[u].version, writer[u].content)
  BY <1>2 DEF ReadSoFar, At
<1>3. ASSUME NEW v \in Versions, NEW c, Stands(v, c), NEW at, Read(at, v, c)
      PROVE  Read(at, v, c)'
  <2>1. ASSUME NEW kind \in {"chunks", "documents", "mentions"}, rows[v][kind] = c[kind]
        PROVE  rows'[v][kind] = c[kind]
    <3>1. kind \in Tables /\ kind \in Kinds
      BY DEF Tables, Kinds
    <3>2. rows[v][kind] \subseteq rows'[v][kind]
      <4>1. Stored(v, kind) \subseteq Stored(v, kind)'
        BY <1>1, <3>1 DEF StoreGrows
      <4>. QED
        BY <3>1, <4>1 DEF Stored, Tables
    <3>3. rows'[v][kind] \subseteq c[kind]
      <4>1. Stands(v, c)'
        BY <1>3, StandsThrough DEF Next
      <4>2. RowsStand'
        BY <1>1 DEF Standing
      <4>. QED
        BY <3>1, <4>1, <4>2, StandsForOne DEF RowsStand, Stands
    <3>. QED
      BY <2>1, <3>2, <3>3
  <2>2. \A e : SealedFor(v, e) => SealedFor(v, e)'
    BY <1>1 DEF StoreGrows
  <2>. QED
    BY <1>3, <2>1, <2>2
<1>4. ASSUME NEW u \in Writers, Undisturbed(u)', u # w
      PROVE  Read(writer[u].at, writer[u].version, writer[u].content)'
  <2>1. writer'[u] = writer[u] /\ Undisturbed(u)
    BY <1>1, <1>4 DEF Steps, Undisturbed
  <2>2. CASE writer[u].at \in Reads
    <3>1. writer[u] # Idle /\ Past(u)
      BY <2>2 DEF Reads, Past, Idle
    <3>2. writer[u].version \in Versions /\ Stands(writer[u].version, writer[u].content)
      BY <3>1, CommandAt, PastStands DEF Standing
    <3>3. Read(writer[u].at, writer[u].version, writer[u].content)
      BY <1>2, <2>1
    <3> HIDE DEF Read
    <3>4. PICK at, v, c : at = writer[u].at /\ v = writer[u].version /\ c = writer[u].content
      OBVIOUS
    <3>5. Read(at, v, c)'
      BY <1>3, <3>2, <3>3, <3>4
    <3>. QED
      BY <2>1, <3>4, <3>5 DEF Read
  <2>3. CASE writer[u].at \notin Reads
    BY <2>1, <2>3 DEF Reads
  <2>. QED
    BY <2>2, <2>3
<1>5. ASSUME Undisturbed(w)', writer'[w].at \in Reads \ {"read_marker"}
      PROVE  Read(writer[w].at, writer[w].version, writer[w].content)'
  <2>1. PICK r \in NextRead : Verifies(w, r[1], r[2]) /\ writer'[w] = [writer[w] EXCEPT !.at = r[2]]
    BY <1>5, ComesByReading
  <2>2. /\ writer[w] # Idle /\ writer[w].at = r[1] /\ Agrees(writer[w], r[1])
        /\ UNCHANGED <<marker, rows, entities, disturbed>>
    <3>1. r[1] # "idle"
      BY DEF NextRead
    <3>. QED
      BY <2>1, <3>1, AtMeansCommand DEF Verifies, At, storeVars
  <2> DEFINE v == writer[w].version
             c == writer[w].content
  <2>3. Past(w) /\ writer[w] \in Commands /\ v \in Versions /\ c \in Contents
    BY <2>2, CommandAt DEF NextRead, Past
  <2>4. Stands(v, c) /\ writer[w].counts = c
    BY <2>3, PastStands DEF Standing
  <2>5. Undisturbed(w)
    BY <1>5, <2>2 DEF Undisturbed
  <2>6. Read(r[1], v, c)
    BY <1>2, <2>2, <2>5
  <2>7. writer'[w].at = r[2] /\ writer'[w].version = v /\ writer'[w].content = c
    BY <2>1, <2>3 DEF Commands
  <2>8. r[1] = "read_marker" => SealedFor(v, c)
    <3>1. SUFFICES ASSUME r[1] = "read_marker" PROVE SealedFor(v, c)
      OBVIOUS
    <3>2. marker[v].status = "graph_staged" /\ marker[v].content = c /\ marker[v].counts = {c}
      BY <2>2, <2>4, <3>1 DEF Agrees
    <3>3. marker[v] \in Markers
      BY <2>3, <3>2 DEF TypeOK, None
    <3>4. marker[v] = [status |-> "graph_staged", content |-> c, counts |-> {c}]
      BY <3>2, <3>3 DEF Markers
    <3>. QED
      BY <3>4 DEF SealedFor
  <2>9. r[1] = "read_chunks" => rows[v].chunks = c.chunks
    BY <2>2, <2>4 DEF Agrees
  <2>10. r[1] = "read_documents" => rows[v].documents = c.documents
    <3>1. r[1] = "read_documents" => SameCount(rows[v]["documents"], c["documents"])
      BY <2>2, <2>4 DEF Agrees
    <3>. QED
      BY <2>3, <3>1, CountedRows
  <2>11. r[1] = "read_mentions" => rows[v].mentions = c.mentions
    <3>1. r[1] = "read_mentions" => SameCount(rows[v]["mentions"], c["mentions"])
      BY <2>2, <2>4 DEF Agrees
    <3>. QED
      BY <2>3, <3>1, CountedRows
  <2>12. Read(r[2], v, c)
    <3>1. SealedFor(v, c)
      BY <2>6, <2>8 DEF NextRead, Reads
    <3>2. r[2] # "read_chunks" => rows[v].chunks = c.chunks
      BY <2>6, <2>9 DEF NextRead, Reads
    <3>3. r[2] \in {"read_entities", "read_mentions", "read_relations"} => rows[v].documents = c.documents
      BY <2>6, <2>10 DEF NextRead, Reads
    <3>4. r[2] = "read_relations" => rows[v].mentions = c.mentions
      BY <2>11 DEF NextRead
    <3>. QED
      BY <3>1, <3>2, <3>3, <3>4
  <2>. QED
    BY <2>2, <2>7, <2>12 DEF SealedFor
<1>6. ASSUME NEW u \in Writers, Undisturbed(u)'
      PROVE  Read(writer[u].at, writer[u].version, writer[u].content)'
  <2>1. CASE u # w
    BY <1>4, <1>6, <2>1
  <2>2. CASE u = w /\ writer'[w].at \in Reads \ {"read_marker"}
    BY <1>5, <1>6, <2>2
  <2>3. CASE u = w /\ writer'[w].at \notin Reads \ {"read_marker"}
    BY <2>3 DEF Reads
  <2>. QED
    BY <2>1, <2>2, <2>3
<1>. QED
  BY <1>6 DEF ReadSoFar, At

LEMMA ReadSoFarKept ==
  ASSUME TypeOK, Standing, ReadSoFar, NEW v \in Versions, Shrinks(v)
  PROVE  ReadSoFar'
<1>1. /\ UNCHANGED writer
      /\ \A u \in Versions \ {v} : marker'[u] = marker[u] /\ rows'[u] = rows[u]
  BY DEF Shrinks
<1>2. ASSUME NEW w \in Writers, Undisturbed(w)', writer[w] # Idle
      PROVE  writer[w].version \in Versions \ {v} /\ Undisturbed(w)
  BY <1>2, CommandAt DEF Shrinks, Disturbs, Undisturbed
<1>3. \A w \in Writers : writer[w].at \in Reads => writer[w] # Idle
  BY DEF Idle, Reads
<1>. QED
  BY <1>1, <1>2, <1>3 DEF ReadSoFar, SealedFor, At, Reads

----------------------------------------------------------------------------
(* What a command has written is there.                                     *)

\* Without a discard all rows of a batch land: their ends were written before.
LEMMA AllLand ==
  ASSUME TypeOK, Standing, NEW w \in Writers, Past(w), NEW n \in 1 .. 5, At(w, Order[n]),
         marker[writer[w].version] # None,
         \A kind \in Kinds :
           writer[w].content[kind] \ ToWrite(writer[w], kind) \subseteq Stored(writer[w].version, kind),
         NEW row \in writer[w].content[Order[n]]
  PROVE  Lands(writer[w].version, Order[n], row)
<1> DEFINE v == writer[w].version
           c == writer[w].content
           kind == Order[n]
<1>1. c \in Contents /\ kind \in Kinds /\ writer[w].at = kind
  BY CommandAt, OrderKinds DEF Past, At
<1>2. Valid(c)
  BY <1>1, ContentTyped
<1> HIDE DEF kind, c
<1>3. ASSUME NEW k \in Kinds, k # kind, k \notin Later(kind)
      PROVE  c[k] \subseteq Stored(v, k)
  BY <1>1, <1>3 DEF ToWrite, c
<1>4. CASE kind = "documents"
  BY <1>4 DEF Lands, kind
<1>5. CASE kind = "chunks"
  <2>1. c["documents"] \subseteq rows[v].documents
    BY <1>3, <1>5 DEF Later, Kinds, Stored
  <2>2. row \in c.documents
    BY <1>2, <1>5 DEF Valid, kind, c
  <2>. QED
    BY <1>5, <2>1, <2>2 DEF Lands, kind
<1>6. CASE kind = "entities"
  BY <1>6 DEF Lands, kind
<1>7. CASE kind = "mentions"
  <2>1. c["chunks"] \subseteq rows[v].chunks /\ c["entities"] \subseteq entities
    BY <1>3, <1>7 DEF Later, Kinds, Stored
  <2>2. row[1] \in c.chunks /\ row[2] \in c.entities
    BY <1>2, <1>7 DEF Valid, kind, c
  <2>. QED
    BY <1>7, <2>1, <2>2 DEF Lands, kind
<1>8. CASE kind = "relations"
  <2>1. c["entities"] \subseteq entities
    BY <1>3, <1>8 DEF Later, Kinds, Stored
  <2>2. row[1] \in c.entities /\ row[2] \in c.entities
    BY <1>2, <1>8 DEF Valid, kind, c
  <2>. QED
    BY <1>8, <2>1, <2>2 DEF Lands, kind
<1>. QED
  BY <1>1, <1>4, <1>5, <1>6, <1>7, <1>8 DEF Kinds

\* A batch leaves what is still to be written, and no more.
LEMMA BatchWrites ==
  ASSUME TypeOK, Standing, NEW w \in Writers, Past(w), NEW n \in 1 .. 5, WritesBatch(w, n),
         marker[writer[w].version] # None,
         \A kind \in Kinds :
           writer[w].content[kind] \ ToWrite(writer[w], kind) \subseteq Stored(writer[w].version, kind)
  PROVE  /\ writer'[w].version = writer[w].version /\ writer'[w].content = writer[w].content
         /\ \A v \in {writer[w].version}, k \in Kinds :
              writer'[w].content[k] \ ToWrite(writer'[w], k) \subseteq Stored(v, k)'
         /\ writer'[w].at \notin Reads
<1> DEFINE v == writer[w].version
           c == writer[w].content
           kind == Order[n]
<1>1. /\ writer[w] \in Commands /\ v \in Versions /\ c \in Contents /\ kind \in Kinds
      /\ writer[w].at = kind /\ writer[w].left \subseteq c[kind]
  BY CommandAt, OrderKinds DEF Past, WritesBatch, At, Standing, WritersStand
<1>2. PICK batch \in SUBSET writer[w].left :
        /\ writer' = [writer EXCEPT ![w] = IF writer[w].left = batch THEN After(writer[w], n)
                                           ELSE [writer[w] EXCEPT !.left = @ \ batch]]
        /\ \A u \in Versions, k \in Kinds :
             Stored(u, k)' = IF k = kind /\ (u = v \/ kind = "entities")
                             THEN Stored(u, k) \cup {row \in batch : Lands(v, kind, row)}
                             ELSE Stored(u, k)
        /\ rows' \in [Versions -> RowRecords]
        /\ entities' \in SUBSET Entities
  <2>1. WritersStand
    BY DEF Standing
  <2>. QED
    BY <2>1, BatchStores, Zenon
<1>3. {row \in batch : Lands(v, kind, row)} = batch
  <2>1. \A row \in c[kind] : Lands(v, kind, row)
    BY <1>1, AllLand DEF At
  <2>. QED
    BY <1>1, <2>1
<1> HIDE DEF kind
<1>4. \A u \in {v}, k \in Kinds : Stored(u, k)' = IF k = kind THEN Stored(u, k) \cup batch ELSE Stored(u, k)
  BY <1>1, <1>2, <1>3
<1>5. \A k \in Kinds : k # kind /\ k \notin Later(kind) => c[k] \subseteq Stored(v, k)
  BY <1>1 DEF ToWrite
<1>6. c[kind] \ writer[w].left \subseteq Stored(v, kind)
  BY <1>1 DEF ToWrite
<1>7. CASE writer[w].left = batch
  <2>1. writer'[w] = After(writer[w], n)
    BY <1>2, <1>7 DEF TypeOK
  <2>2. PICK at \in Kinds \cup {"seal"} :
          /\ writer'[w] = [writer[w] EXCEPT !.at = at, !.left = IF at = "seal" THEN {} ELSE writer[w].content[at]]
          /\ \A k \in Kinds : k \in Later(kind) /\ c[k] # {} => k = at \/ k \in Later(at)
    <3>1. n \in 0 .. 5
      OBVIOUS
    <3>2. \E at \in Kinds \cup {"seal"} :
            /\ After(writer[w], n) =
                 [writer[w] EXCEPT !.at = at, !.left = IF at = "seal" THEN {} ELSE writer[w].content[at]]
            /\ \A k \in Kinds : (n = 0 \/ k \in Later(Order[n])) /\ writer[w].content[k] # {}
                 => k = at \/ k \in Later(at)
      BY <1>1, <3>1, AfterIs
    <3>. QED
      BY <2>1, <3>2 DEF kind
  <2>3. /\ writer'[w].at = at /\ writer'[w].version = v /\ writer'[w].content = c
        /\ at \in Kinds => writer'[w].left = c[at]
    BY <1>1, <2>2 DEF Commands, Kinds
  <2>4. ASSUME NEW k \in Kinds, k = at \/ k \in Later(at)
        PROVE  ToWrite(writer'[w], k) = c[k]
    BY <2>3, <2>4 DEF ToWrite
  <2>5. ASSUME NEW k \in Kinds, NEW row \in c[k], k # at, k \notin Later(at)
        PROVE  row \in Stored(v, k) \/ (k = kind /\ row \in batch)
    BY <1>5, <1>6, <1>7, <2>2, <2>5
  <2>6. \A u \in {v}, k \in Kinds : c[k] \ ToWrite(writer'[w], k) \subseteq Stored(u, k)'
    BY <1>4, <2>4, <2>5
  <2>. QED
    BY <2>2, <2>3, <2>6 DEF Reads, Kinds
<1>8. CASE writer[w].left # batch
  <2>1. writer'[w] = [writer[w] EXCEPT !.left = @ \ batch]
    BY <1>2, <1>8 DEF TypeOK
  <2>2. /\ writer'[w].at = kind /\ writer'[w].version = v /\ writer'[w].content = c
        /\ writer'[w].left = writer[w].left \ batch
    BY <1>1, <2>1 DEF Commands
  <2>3. \A k \in Kinds : ToWrite(writer'[w], k) = IF k = kind THEN writer[w].left \ batch ELSE ToWrite(writer[w], k)
    BY <1>1, <2>2 DEF ToWrite
  <2>4. \A u \in {v}, k \in Kinds : c[k] \ ToWrite(writer'[w], k) \subseteq Stored(u, k)'
    BY <1>4, <1>6, <2>3
  <2>. QED
    BY <1>1, <2>2, <2>4 DEF Reads, Kinds
<1>. QED
  BY <1>7, <1>8

LEMMA WrittenSoFarStays ==
  ASSUME TypeOK, Standing, WrittenSoFar, NEW w \in Writers, Writes(w)
  PROVE  WrittenSoFar'
<1> DEFINE Written(v, cmd) ==
      /\ marker[v] # None
      /\ \A kind \in Kinds : cmd.content[kind] \ ToWrite(cmd, kind) \subseteq Stored(v, kind)
      /\ cmd.at \in Reads => SealedFor(v, cmd.content)
    Counts(u) == Past(u) /\ writer[u].op = "stage" /\ disturbed[u] = "no"
<1>0. StoreGrows /\ Steps(w) /\ TypeOK'
  BY WriterGrows, WriterTyped, Typed DEF Next
<1>1. \A u \in Writers : Counts(u) => Written(writer[u].version, writer[u])
  BY DEF WrittenSoFar
<1>2. ASSUME NEW v \in Versions, NEW cmd, Written(v, cmd)
      PROVE  Written(v, cmd)'
  BY <1>0, <1>2 DEF StoreGrows, ToWrite
<1>3. ASSUME NEW u \in Writers, u # w, Counts(u)'
      PROVE  Written(writer[u].version, writer[u])'
  <2>1. writer'[u] = writer[u] /\ Counts(u)
    BY <1>0, <1>3 DEF Steps, Past
  <2>2. writer[u].version \in Versions /\ Written(writer[u].version, writer[u])
    BY <1>1, <2>1, CommandAt DEF Past
  <2> HIDE DEF Written
  <2>3. PICK v, cmd : v = writer[u].version /\ cmd = writer[u]
    OBVIOUS
  <2>4. Written(v, cmd)'
    BY <1>2, <2>2, <2>3
  <2>. QED
    BY <2>1, <2>3, <2>4
<1>4. ASSUME UpsertsMarker(w), Counts(w)'
      PROVE  Written(writer[w].version, writer[w])'
  <2> DEFINE v == writer[w].version
             c == writer[w].content
             found == IF marker[v] = None THEN [status |-> "writing", content |-> c, counts |-> {}]
                      ELSE marker[v]
  <2>1. writer[w] # Idle /\ writer[w] \in Commands /\ v \in Versions
    BY <1>4, AtMeansCommand, CommandAt DEF UpsertsMarker
  <2>2. marker'[v] # None
    BY <1>4, <2>1 DEF UpsertsMarker, TypeOK, None
  <2>3. writer'[w] = IF found.content # c THEN [writer[w] EXCEPT !.at = "failing"]
                     ELSE IF found.status = "graph_staged"
                     THEN [writer[w] EXCEPT !.op = "check", !.at = "read_marker"]
                     ELSE After(writer[w], 0)
    BY <1>4 DEF UpsertsMarker, TypeOK
  <2>4. writer'[w] # [writer[w] EXCEPT !.at = "failing"]
    BY <1>4, <2>1 DEF Past, Commands
  <2>5. writer'[w] # [writer[w] EXCEPT !.op = "check", !.at = "read_marker"]
    BY <1>4, <2>1 DEF Commands
  <2>6. writer'[w] = After(writer[w], 0)
    BY <2>3, <2>4, <2>5
  <2>7. \E at \in Kinds \cup {"seal"} :
          /\ After(writer[w], 0) =
               [writer[w] EXCEPT !.at = at, !.left = IF at = "seal" THEN {} ELSE writer[w].content[at]]
          /\ \A k \in Kinds : (0 = 0 \/ k \in Later(Order[0])) /\ writer[w].content[k] # {}
               => k = at \/ k \in Later(at)
    <3>1. 0 \in 0 .. 5
      OBVIOUS
    <3>. QED
      BY <2>1, <3>1, AfterIs
  <2>8. PICK at \in Kinds \cup {"seal"} :
          /\ writer'[w] = [writer[w] EXCEPT !.at = at, !.left = IF at = "seal" THEN {} ELSE writer[w].content[at]]
          /\ \A k \in Kinds : c[k] # {} => k = at \/ k \in Later(at)
    BY <2>6, <2>7
  <2>9. /\ writer'[w].at = at /\ writer'[w].version = v /\ writer'[w].content = c
        /\ at \in Kinds => writer'[w].left = c[at]
    BY <2>1, <2>8 DEF Commands, Kinds
  <2>10. \A k \in Kinds : c[k] \ ToWrite(writer'[w], k) = {}
    BY <2>8, <2>9 DEF ToWrite
  <2>11. writer'[w].at \notin Reads
    BY <2>9 DEF Reads, Kinds
  <2>. QED
    BY <2>2, <2>9, <2>10, <2>11
<1>5. ASSUME NEW n \in 1 .. 5, WritesBatch(w, n), Counts(w)'
      PROVE  Written(writer[w].version, writer[w])'
  <2>1. writer[w] # Idle /\ At(w, Order[n]) /\ Order[n] \in Kinds
    BY <1>5, OrderKinds, AtMeansCommand DEF WritesBatch, Kinds
  <2>2. Past(w) /\ writer[w] \in Commands
    BY <2>1, CommandAt DEF Past, At, Kinds
  <2>3. PICK batch \in SUBSET writer[w].left :
          writer' = [writer EXCEPT ![w] = IF writer[w].left = batch THEN After(writer[w], n)
                                          ELSE [writer[w] EXCEPT !.left = @ \ batch]]
    BY <1>5, BatchStores DEF Standing
  <2>4. writer'[w].op = writer[w].op
    <3>1. CASE writer[w].left = batch
      <4>1. n \in 0 .. 5
        OBVIOUS
      <4>2. PICK at \in Kinds \cup {"seal"} : After(writer[w], n) =
              [writer[w] EXCEPT !.at = at, !.left = IF at = "seal" THEN {} ELSE writer[w].content[at]]
        BY <2>2, <4>1, AfterIs
      <4>. QED
        BY <2>2, <2>3, <3>1, <4>2 DEF TypeOK, Commands
    <3>2. CASE writer[w].left # batch
      <4>1. writer'[w] = [writer[w] EXCEPT !.left = @ \ batch]
        BY <2>3, <3>2 DEF TypeOK
      <4>. QED
        BY <2>2, <4>1 DEF Commands
    <3>. QED
      BY <3>1, <3>2
  <2>5. UNCHANGED <<marker, disturbed>>
    BY <1>5 DEF WritesBatch
  <2>6. Counts(w)
    BY <1>5, <2>2, <2>4, <2>5
  <2>7. Written(writer[w].version, writer[w])
    BY <1>1, <2>6
  <2>8. /\ writer'[w].version = writer[w].version /\ writer'[w].content = writer[w].content
        /\ \A v \in {writer[w].version}, k \in Kinds :
             writer'[w].content[k] \ ToWrite(writer'[w], k) \subseteq Stored(v, k)'
        /\ writer'[w].at \notin Reads
    <3>1. /\ marker[writer[w].version] # None
          /\ \A kind \in Kinds :
               writer[w].content[kind] \ ToWrite(writer[w], kind) \subseteq Stored(writer[w].version, kind)
      BY <2>7
    <3>. QED
      BY <1>5, <2>2, <3>1, BatchWrites
  <2>. QED
    BY <2>5, <2>7, <2>8
<1>6. ASSUME Seals(w), Counts(w)'
      PROVE  Written(writer[w].version, writer[w])'
  <2> DEFINE v == writer[w].version
             c == writer[w].content
  <2>1. writer[w] # Idle /\ writer[w].at = "seal" /\ writer[w] \in Commands /\ v \in Versions
    BY <1>6, AtMeansCommand, CommandAt DEF Seals, At
  <2>2. writer'[w] = [writer[w] EXCEPT !.at = "read_marker"]
    BY <1>6 DEF Seals, Goes, TypeOK
  <2>3. /\ writer'[w].at = "read_marker" /\ writer'[w].op = writer[w].op
        /\ writer'[w].version = v /\ writer'[w].content = c
    BY <2>1, <2>2 DEF Commands
  <2>4. Counts(w) /\ UNCHANGED <<rows, entities>>
    BY <1>6, <2>1, <2>3 DEF Past, Seals
  <2>5. Written(v, writer[w])
    BY <1>1, <2>4
  <2>6. marker'[v] = [status |-> "graph_staged", content |-> c, counts |-> {c}]
    <3>1. marker' = [marker EXCEPT ![v] = [status |-> "graph_staged", content |-> c, counts |-> {c}]]
      BY <1>6, <2>5, SealMarks
    <3>. QED
      BY <2>1, <3>1 DEF TypeOK
  <2>7. \A k \in Kinds : ToWrite(writer'[w], k) = {} /\ ToWrite(writer[w], k) = {}
    BY <2>1, <2>3 DEF ToWrite, Later, Kinds
  <2>8. \A u \in {v}, k \in Kinds : Stored(u, k)' = Stored(u, k)
    BY <2>4 DEF Stored
  <2>. QED
    BY <2>3, <2>5, <2>6, <2>7, <2>8 DEF None, SealedFor
<1>7. ASSUME NEW read \in Reads, NEW next \in Reads, Verifies(w, read, next), Counts(w)'
      PROVE  Written(writer[w].version, writer[w])'
  <2> DEFINE v == writer[w].version
             c == writer[w].content
  <2>1. writer[w] # Idle /\ writer[w].at = read /\ writer[w] \in Commands /\ v \in Versions
    <3>1. read # "idle"
      BY DEF Reads
    <3>. QED
      BY <1>7, <3>1, AtMeansCommand, CommandAt DEF Verifies, At
  <2>2. writer'[w] = [writer[w] EXCEPT !.at = next]
    BY <1>7 DEF Verifies, Goes, TypeOK
  <2>3. /\ writer'[w].at = next /\ writer'[w].op = writer[w].op
        /\ writer'[w].version = v /\ writer'[w].content = c
    BY <2>1, <2>2 DEF Commands
  <2>4. Counts(w) /\ UNCHANGED <<marker, rows, entities>>
    BY <1>7, <2>1, <2>3 DEF Past, Verifies, storeVars, Reads
  <2>5. Written(v, writer[w])
    BY <1>1, <2>4
  <2>6. \A k \in Kinds : ToWrite(writer'[w], k) = {} /\ ToWrite(writer[w], k) = {}
    BY <2>1, <2>3 DEF ToWrite, Later, Kinds, Reads
  <2>7. SealedFor(v, c)
    BY <2>1, <2>5
  <2>8. \A u \in {v}, e \in {c} : SealedFor(u, e)' /\ marker'[u] # None
    BY <2>4, <2>5, <2>7 DEF SealedFor
  <2>9. \A u \in {v}, k \in Kinds : Stored(u, k)' = Stored(u, k)
    BY <2>4 DEF Stored
  <2>. QED
    BY <2>3, <2>5, <2>6, <2>8, <2>9 DEF SealedFor
<1>8. ASSUME \/ BeginStage(w) \/ BeginRecover(w) \/ Looks(w) \/ Fails(w)
             \/ Reports(w) \/ MarksFailed(w) \/ Dies(w)
      PROVE  ~Counts(w)'
  <2>1. CASE BeginStage(w) \/ BeginRecover(w)
    <3>1. PICK job \in Jobs :
            writer'[w] = [at |-> IF job.op = "stage" THEN "upsert" ELSE "look", op |-> job.op,
                          version |-> job.version, content |-> job.content,
                          counts |-> job.content, left |-> {}]
      BY <2>1, BeginsTo
    <3>. QED
      BY <3>1 DEF Past
  <2>2. CASE Looks(w)
    <3>1. writer[w] # Idle /\ writer[w] \in Commands /\ At(w, "look")
      BY <2>2, AtMeansCommand, CommandAt DEF Looks
    <3>2. writer[w].op = "recover"
      BY <3>1 DEF Standing, WritersStand
    <3>3. PICK counts : writer'[w] = [writer[w] EXCEPT !.at = "read_marker",
                           !.content = marker[writer[w].version].content, !.counts = counts]
      BY <2>2 DEF Looks, TypeOK
    <3>4. writer'[w].op = "recover"
      BY <3>1, <3>2, <3>3 DEF Commands
    <3>. QED
      BY <3>4
  <2>3. CASE Fails(w)
    <3>1. writer[w] # Idle /\ writer[w] \in Commands
      BY <2>3, CommandAt DEF Fails
    <3>2. writer'[w] = [writer[w] EXCEPT !.at = "failing"]
      BY <2>3 DEF Fails, Goes, TypeOK
    <3>3. writer'[w].at = "failing"
      BY <3>1, <3>2 DEF Commands
    <3>. QED
      BY <3>3 DEF Past
  <2>4. CASE Reports(w) \/ MarksFailed(w) \/ Dies(w)
    <3>1. writer'[w] = Idle
      BY <2>4, EndsSteps DEF Reports, MarksFailed, Dies
    <3>. QED
      BY <3>1 DEF Past
  <2>. QED
    BY <1>8, <2>1, <2>2, <2>3, <2>4
<1>9. Counts(w)' => Written(writer[w].version, writer[w])'
  BY <1>4, <1>5, <1>6, <1>7, <1>8 DEF Writes, Reads
<1>. QED
  BY <1>3, <1>9 DEF WrittenSoFar

LEMMA WrittenSoFarKept ==
  ASSUME TypeOK, NEW v \in Versions, Shrinks(v)
  PROVE  WrittenSoFar'
BY DEF Shrinks, Disturbs, WrittenSoFar, Past

----------------------------------------------------------------------------
(* What is held stays held.                                                 *)

Promised(v) == UNCHANGED <<Held(v), settled[v]>> \/ Contract(v)!Next

LEMMA HeldIs ==
  ASSUME NEW v \in Versions, NEW c
  PROVE  c \in Held(v) <=>
           /\ c \in Contents /\ SealedFor(v, c)
           /\ rows[v].documents = c.documents /\ rows[v].chunks = c.chunks
           /\ rows[v].mentions = c.mentions /\ rows[v].relations = c.relations
           /\ c.entities \subseteq entities
BY DEF Held, SealedFor, Kinds

LEMMA HeldOne ==
  ASSUME NEW v, NEW a, NEW b, a \in Held(v), b \in Held(v)
  PROVE  a = b
BY DEF Held

LEMMA HeldGrows ==
  ASSUME TypeOK, Standing, NEW w \in Writers, Writes(w), NEW v \in Versions, NEW c, c \in Held(v)
  PROVE  c \in Held(v)'
<1>1. /\ c \in Contents /\ SealedFor(v, c) /\ c.entities \subseteq entities
      /\ \A kind \in Tables : rows[v][kind] = c[kind]
  BY DEF Held, SealedFor, Tables
<1>2. StoreGrows /\ Standing'
  BY WriterGrows, StandingStays DEF Next
<1>3. SealedFor(v, c)' /\ Stands(v, c)'
  <2>1. SealedFor(v, c)'
    BY <1>1, <1>2 DEF StoreGrows
  <2>2. marker'[v] # None /\ marker'[v].content = c
    BY <2>1 DEF SealedFor, None
  <2>3. MarkersStand'
    BY <1>2 DEF Standing
  <2>. QED
    BY <2>1, <2>2, <2>3 DEF MarkersStand, Stands
<1>4. ASSUME NEW kind \in Tables
      PROVE  rows'[v][kind] = c[kind]
  <2>1. rows[v][kind] \subseteq rows'[v][kind]
    <3>1. Stored(v, kind) \subseteq Stored(v, kind)' /\ kind # "entities"
      BY <1>2 DEF StoreGrows, Tables
    <3>. QED
      BY <3>1 DEF Stored
  <2>2. rows'[v][kind] \subseteq c[kind]
    <3>1. RowsStand'
      BY <1>2 DEF Standing
    <3>. QED
      BY <1>3, <3>1, JobsValid DEF RowsStand, Stands
  <2>. QED
    BY <1>1, <2>1, <2>2
<1>5. c.entities \subseteq entities'
  <2>1. "entities" \in Kinds /\ Stored(v, "entities") = entities /\ Stored(v, "entities")' = entities'
    BY DEF Stored, Kinds
  <2>. QED
    BY <1>1, <1>2, <2>1 DEF StoreGrows
<1>. QED
  BY <1>1, <1>3, <1>4, <1>5 DEF Held, SealedFor, Tables

\* A discard of another version leaves the entities that this one mentions.
LEMMA HeldKept ==
  ASSUME NEW u \in Versions, Shrinks(u), NEW v \in Versions \ {u}, NEW c, c \in Held(v)
  PROVE  c \in Held(v)'
<1>1. /\ c \in Contents /\ SealedFor(v, c)
      /\ \A kind \in Tables : rows[v][kind] = c[kind]
  BY DEF Held, SealedFor, Tables
<1>2. marker'[v] = marker[v] /\ rows'[v] = rows[v] /\ \A m \in rows'[v].mentions : m[2] \in entities'
  BY DEF Shrinks
<1>3. c.entities \subseteq entities'
  <2>1. c.entities = {m[2] : m \in c.mentions}
    BY <1>1, ContentTyped DEF Valid
  <2>2. rows'[v].mentions = c.mentions
    <3>1. rows[v]["mentions"] = c["mentions"]
      BY <1>1 DEF Tables, Kinds
    <3>. QED
      BY <1>2, <3>1
  <2>. QED
    BY <1>2, <2>1, <2>2
<1>. QED
  BY <1>1, <1>2, <1>3 DEF Held, SealedFor, Tables

\* A step under which what is held stays held, and what is settled is not looked at.
LEMMA HeldStep ==
  ASSUME NEW v \in Versions, settled[v] \subseteq Held(v), settled'[v] = settled[v],
         \A c \in Held(v) : c \in Held(v)'
  PROVE  Promised(v)
<1>1. CASE settled[v] = {}
  BY <1>1 DEF Promised, Contract!Next, Contract!Work, Held
<1>2. CASE settled[v] # {}
  <2>1. Held(v)' = Held(v)
    <3>1. PICK c : c \in Held(v)
      BY <1>2
    <3>2. c \in Held(v)'
      BY <3>1
    <3>3. \A d : d \in Held(v)' => d = c
      BY <3>2 DEF Held
    <3>4. \A d : d \in Held(v) => d = c
      BY <3>1 DEF Held
    <3>. QED
      BY <3>1, <3>2, <3>3, <3>4
  <2>. QED
    BY <2>1 DEF Promised
<1>. QED
  BY <1>1, <1>2

\* What a command reports, when no discard of the version has met it, is held.
LEMMA ReportHolds ==
  ASSUME TypeOK, Standing, ReadSoFar, NEW w \in Writers, Undisturbed(w),
         At(w, "read_relations"), Agrees(writer[w], "read_relations")
  PROVE  Held(writer[w].version) = {writer[w].content}
<1> DEFINE v == writer[w].version
           c == writer[w].content
<1>1. writer[w] # Idle /\ Past(w) /\ v \in Versions /\ c \in Contents /\ writer[w].counts = c
  BY AtMeansCommand, CommandAt, PastStands DEF Past, At, Standing
<1>2. SealedFor(v, c) /\ rows[v].chunks = c.chunks /\ rows[v].documents = c.documents /\ rows[v].mentions = c.mentions
  BY DEF ReadSoFar, At, Reads
<1>3. rows[v].relations = c.relations
  <2>1. SameCount(rows[v]["relations"], c["relations"])
    BY <1>1 DEF Agrees
  <2>. QED
    BY <1>1, <2>1, CountedRows
<1>4. c.entities \subseteq entities
  <2>1. c.entities = {m[2] : m \in c.mentions}
    BY <1>1, ContentTyped DEF Valid
  <2>. QED
    BY <1>1, <1>2, <2>1 DEF Standing, MentionsStand
<1>5. c \in Held(v)
  BY <1>1, <1>2, <1>3, <1>4, HeldIs
<1>. QED
  BY <1>5, HeldOne

LEMMA ContractStep ==
  ASSUME IInv, [Next]_vars, NEW v \in Versions
  PROVE  Promised(v)
<1>0. TypeOK /\ Standing /\ ReadSoFar /\ settled[v] \subseteq Held(v) /\ settled \in [Versions -> SUBSET Contents]
  BY DEF IInv, SettledHeld, TypeOK
<1>1. ASSUME NEW w \in Writers, Writes(w), UNCHANGED settled
      PROVE  Promised(v)
  BY <1>0, <1>1, HeldGrows, HeldStep
<1>2. ASSUME NEW w \in Writers, Reports(w)
      PROVE  Promised(v)
  <2>1. /\ At(w, "read_relations") /\ Agrees(writer[w], "read_relations") /\ UNCHANGED <<marker, rows, entities>>
        /\ settled' = [settled EXCEPT ![writer[w].version] =
             IF \A u \in AtWorkOn(writer[w].version) : Undisturbed(u) THEN {writer[w].content} ELSE @]
    BY <1>2 DEF Reports, storeVars
  <2>2. Held(v)' = Held(v)
    BY <2>1 DEF Held
  <2>3. CASE v = writer[w].version /\ \A u \in AtWorkOn(v) : Undisturbed(u)
    <3>1. writer[w] # Idle
      BY <1>0, <2>1, AtMeansCommand
    <3>2. Held(v) = {writer[w].content}
      BY <1>0, <2>1, <2>3, <3>1, ReportHolds DEF AtWorkOn
    <3>3. settled'[v] = {writer[w].content}
      BY <1>0, <2>1, <2>3
    <3>. QED
      BY <2>2, <3>2, <3>3 DEF Promised, Contract!Next, Contract!Report
  <2>4. CASE ~(v = writer[w].version /\ \A u \in AtWorkOn(v) : Undisturbed(u))
    <3>1. settled'[v] = settled[v]
      BY <1>0, <2>1, <2>4
    <3>. QED
      BY <2>2, <3>1 DEF Promised
  <2>. QED
    BY <2>3, <2>4
<1>3. ASSUME NEW u \in Versions, Shrinks(u)
      PROVE  Promised(v)
  <2>1. settled' = [settled EXCEPT ![u] = {}]
    BY <1>3 DEF Shrinks, Disturbs
  <2>2. CASE u = v
    <3>1. settled'[v] = {}
      BY <1>0, <2>1, <2>2
    <3>. QED
      BY <3>1 DEF Promised, Contract!Next, Contract!Discard, Held
  <2>3. CASE u # v
    <3>1. settled'[v] = settled[v]
      BY <1>0, <2>1, <2>3
    <3>. QED
      BY <1>0, <1>3, <2>3, <3>1, HeldKept, HeldStep
  <2>. QED
    BY <2>2, <2>3
<1>4. CASE DiscardDies \/ UNCHANGED vars
  BY <1>4 DEF DiscardDies, vars, storeVars, Promised, Held
<1>5. ASSUME NEW w \in Writers, Writes(w)
      PROVE  UNCHANGED settled \/ Reports(w)
  BY <1>5 DEF Writes, BeginStage, BeginRecover, Begin, UpsertsMarker, WritesBatch, Seals, Looks,
     Verifies, Fails, MarksFailed, Dies
<1>. QED
  BY <1>0, <1>1, <1>2, <1>3, <1>4, <1>5, DiscardShrinks DEF Next

LEMMA SettledHeldStays ==
  ASSUME IInv, [Next]_vars
  PROVE  SettledHeld'
<1>1. ASSUME NEW v \in Versions
      PROVE  settled'[v] \subseteq Held(v)'
  <2>1. Promised(v) /\ settled[v] \subseteq Held(v)
    BY ContractStep DEF IInv, SettledHeld
  <2>. QED
    BY <2>1 DEF Promised, Contract!Next, Contract!Work, Contract!Report, Contract!Discard
<1>. QED
  BY <1>1 DEF SettledHeld

LEMMA Inductive ==
  ASSUME IInv, [Next]_vars
  PROVE  IInv'
<1>0. TypeOK /\ Standing /\ ReadSoFar /\ WrittenSoFar
  BY DEF IInv
<1>1. TypeOK' /\ Standing' /\ SettledHeld'
  BY <1>0, Typed, StandingStays, SettledHeldStays
<1>2. CASE \E w \in Writers : Writes(w)
  BY <1>0, <1>1, <1>2, ReadSoFarStays, WrittenSoFarStays DEF IInv
<1>3. CASE \E v \in Versions : Shrinks(v)
  BY <1>0, <1>1, <1>3, ReadSoFarKept, WrittenSoFarKept DEF IInv
<1>4. CASE UNCHANGED <<storeVars, writer, disturbed>>
  <2>1. UNCHANGED <<marker, rows, entities, writer, disturbed>>
    BY <1>4 DEF storeVars
  <2>2. ReadSoFar'
    BY <1>0, <2>1 DEF ReadSoFar, Undisturbed, SealedFor, At
  <2>3. WrittenSoFar'
    BY <1>0, <2>1 DEF WrittenSoFar, Past, SealedFor, Stored
  <2>. QED
    BY <1>1, <2>2, <2>3 DEF IInv
<1>. QED
  BY <1>0, <1>2, <1>3, <1>4, DiscardShrinks DEF Next, DiscardDies, vars, storeVars

LEMMA Initially ==
  ASSUME Init
  PROVE  IInv /\ \A v \in Versions : Contract(v)!Init
<1>1. TypeOK
  BY DEF Init, TypeOK, Empty
<1>2. Standing
  BY DEF Init, Standing, MarkersStand, RowsStand, MentionsStand, WritersStand, DiscardsInactive,
     Tables, Kinds, Empty
<1>3. ReadSoFar /\ WrittenSoFar /\ SettledHeld
  BY DEF Init, ReadSoFar, WrittenSoFar, SettledHeld, At, Past, Idle, Reads
<1>4. ASSUME NEW v \in Versions
      PROVE  Contract(v)!Init
  BY DEF Init, Contract!Init, Held, None
<1>. QED
  BY <1>1, <1>2, <1>3, <1>4 DEF IInv

\* What was written and is not disturbed is found.
LEMMA Retries ==
  ASSUME IInv
  PROVE  RetryRepairs
<1>. SUFFICES ASSUME NEW w \in Writers, Wrote(w), disturbed[w] = "no", NEW read \in Reads
              PROVE  Agrees(writer[w], read)
  BY DEF RetryRepairs
<1> DEFINE v == writer[w].version
           c == writer[w].content
<1>0. TypeOK /\ Standing /\ WrittenSoFar
  BY DEF IInv
<1>1. writer[w] # Idle /\ Past(w)
  BY DEF Wrote, Past, Idle, Reads
<1>2. v \in Versions /\ c \in Contents /\ Stands(v, c) /\ writer[w].counts = c
  BY <1>0, <1>1, CommandAt, PastStands DEF Standing
<1>3. SealedFor(v, c) /\ \A kind \in Kinds : c[kind] \subseteq Stored(v, kind)
  <2>1. \A kind \in Kinds : ToWrite(writer[w], kind) = {}
    BY DEF ToWrite, Later, Wrote, Kinds, Reads
  <2>. QED
    BY <1>0, <1>1, <2>1 DEF WrittenSoFar, Wrote
<1>4. ASSUME NEW kind \in Tables
      PROVE  rows[v][kind] = c[kind]
  <2>1. c[kind] \subseteq rows[v][kind]
    BY <1>3 DEF Stored, Tables
  <2>. QED
    BY <1>0, <1>2, <2>1, RowsWithin DEF Standing
<1>5. /\ rows[v]["documents"] = c["documents"] /\ rows[v]["chunks"] = c["chunks"]
      /\ rows[v]["mentions"] = c["mentions"] /\ rows[v]["relations"] = c["relations"]
  BY <1>4 DEF Tables, Kinds
<1>6. c.entities = {m[2] : m \in c.mentions}
  BY <1>2, ContentTyped DEF Valid
<1>7. {m[2] : m \in rows[v].mentions} = c.entities
  BY <1>5, <1>6
<1>8. /\ read = "read_marker" => Agrees(writer[w], read)
      /\ read = "read_chunks" => Agrees(writer[w], read)
  <2>1. marker[v].status = "graph_staged" /\ marker[v].content = c /\ marker[v].counts = {c}
    BY <1>3 DEF SealedFor
  <2>2. read = "read_marker" => Agrees(writer[w], read)
    BY <1>2, <2>1 DEF Agrees
  <2>3. read = "read_chunks" => Agrees(writer[w], read)
    BY <1>2, <1>5 DEF Agrees
  <2>. QED
    BY <2>2, <2>3
<1>9. /\ read = "read_documents" => Agrees(writer[w], read)
      /\ read = "read_mentions" => Agrees(writer[w], read)
      /\ read = "read_relations" => Agrees(writer[w], read)
  BY <1>2, <1>5 DEF Agrees, SameCount
<1>10. read = "read_entities" => Agrees(writer[w], read)
  BY <1>2, <1>7 DEF Agrees, SameCount
<1>. QED
  BY <1>8, <1>9, <1>10 DEF Reads

----------------------------------------------------------------------------
(* The cutting of a document.                                               *)

\* The passage of n tokens at s is whole in a window that is searched.
Found(s, n) == \E w \in windows : w[1] <= s /\ s + n <= w[2] /\ Cut!Searched(w)

\* The passages that begin before a token.
FoundBefore(limit) ==
  \A s \in 0 .. Cut!Count - 1, n \in 1 .. overlap + 1 : s < limit /\ s + n <= Cut!Count => Found(s, n)

CutTyped ==
  /\ size \in Nat /\ overlap \in Nat /\ overlap < size
  /\ start \in Nat /\ Cut!Count \in Nat
  /\ done \in BOOLEAN

CutSoFar ==
  /\ CutTyped
  /\ ~done => start < Cut!Count /\ FoundBefore(start)
  /\ done /\ Text(document) # NoText => FoundBefore(Cut!Count)

\* A window that was searched still is when another one is done.
LEMMA SearchedStays ==
  ASSUME Cut!Window, NEW CONSTANT w, Cut!Searched(w)
  PROVE  Cut!Searched(w)'
<1>1. chunks \subseteq chunks'
  BY DEF Cut!Window
<1>2. Cut!TextOf(w[1], w[2])' = Cut!TextOf(w[1], w[2])
  BY DEF Cut!Window, Cut!TextOf
<1>. QED
  BY <1>1, <1>2 DEF Cut!Searched

\* The text of the window that is done is in the chunks, if it has any.
LEMMA WindowIsSearched ==
  ASSUME Cut!Window, NEW CONSTANT w, w = <<start, Cut!End>>
  PROVE  Cut!Searched(w)'
<1>1. Cut!TextOf(w[1], w[2])' = Cut!TextOf(start, Cut!End)
  BY DEF Cut!Window, Cut!TextOf
<1>2. chunks \subseteq chunks'
  BY DEF Cut!Window
<1>3. CASE Cut!Kept(Cut!TextOf(start, Cut!End))
  <2> DEFINE c == [position |-> position, text |-> Cut!TextOf(start, Cut!End), tokens |-> Cut!End - start]
  <2>1. c \in chunks' /\ c.text = Cut!TextOf(start, Cut!End)
    BY <1>3 DEF Cut!Window
  <2>. QED
    BY <1>1, <2>1 DEF Cut!Searched
<1>4. CASE ~Cut!Kept(Cut!TextOf(start, Cut!End))
  BY <1>1, <1>2, <1>4 DEF Cut!Kept, Cut!Searched
<1>. QED
  BY <1>3, <1>4

\* A passage that was found still is.
LEMMA FoundStays ==
  ASSUME Cut!Window, NEW CONSTANT s, NEW CONSTANT n, Found(s, n)
  PROVE  Found(s, n)'
<1>1. PICK w \in windows : w[1] <= s /\ s + n <= w[2] /\ Cut!Searched(w)
  BY DEF Found
<1>2. w \in windows' /\ Cut!Searched(w)'
  BY <1>1, SearchedStays DEF Cut!Window
<1>. QED
  BY <1>1, <1>2 DEF Found

\* A passage that begins in the window, and is not too long, is found in it: either
\* the window ends the document, or the next one begins no later.
LEMMA FoundInWindow ==
  ASSUME Cut!Window, CutTyped, start < Cut!Count,
         NEW CONSTANT s \in Nat, NEW CONSTANT n \in Nat, n <= overlap + 1, s + n <= Cut!Count,
         start <= s, s < start + Cut!Step \/ Cut!End = Cut!Count
  PROVE  Found(s, n)'
<1>1. PICK w : w = <<start, Cut!End>>
  OBVIOUS
<1>2. w[1] <= s /\ s + n <= w[2]
  BY <1>1 DEF CutTyped, Cut!End, Cut!Step
<1>3. w \in windows'
  BY <1>1 DEF Cut!Window
<1>4. Cut!Searched(w)'
  BY <1>1, WindowIsSearched
<1>. QED
  BY <1>2, <1>3, <1>4 DEF Found

LEMMA WindowCutsSoFar ==
  ASSUME Cut!Window, CutSoFar
  PROVE  CutSoFar'
<1>0. CutTyped /\ start < Cut!Count /\ FoundBefore(start) /\ ~done
  BY DEF Cut!Window, CutSoFar
<1>1. Cut!Count' = Cut!Count /\ overlap' = overlap /\ size' = size /\ start' = start + Cut!Step
  BY DEF Cut!Window, Cut!Count
<1>2. Cut!Step \in Nat \ {0} /\ Cut!End \in Nat
  BY <1>0 DEF CutTyped, Cut!Step, Cut!End
<1>3. CutTyped'
  BY <1>0, <1>1, <1>2 DEF CutTyped, Cut!Window
<1>4. ASSUME NEW s \in 0 .. Cut!Count - 1, NEW n \in 1 .. overlap + 1, s + n <= Cut!Count,
             s < start + Cut!Step \/ Cut!End = Cut!Count
      PROVE  Found(s, n)'
  <2>1. s \in Nat /\ n \in Nat /\ n <= overlap + 1
    BY <1>0 DEF CutTyped
  <2>2. CASE s < start
    <3>1. Found(s, n)
      BY <1>0, <1>4, <2>2 DEF FoundBefore
    <3>. QED
      BY <3>1, FoundStays
  <2>3. CASE start <= s
    BY <1>0, <1>4, <2>1, <2>3, FoundInWindow
  <2>. QED
    BY <1>0, <2>1, <2>2, <2>3 DEF CutTyped
<1>5. ~done' => start' < Cut!Count' /\ FoundBefore(start)'
  <2>1. SUFFICES ASSUME ~done' PROVE start' < Cut!Count' /\ FoundBefore(start)'
    OBVIOUS
  <2>2. start' < Cut!Count'
    <3>1. ~(start + Cut!Step >= Cut!Count)
      BY <2>1 DEF Cut!Window
    <3>2. start \in Nat /\ Cut!Count \in Nat
      BY <1>0 DEF CutTyped
    <3>. QED
      BY <1>1, <1>2, <3>1, <3>2
  <2>3. FoundBefore(start)'
    BY <1>1, <1>4 DEF FoundBefore
  <2>. QED
    BY <2>2, <2>3
<1>6. done' => FoundBefore(Cut!Count)'
  <2>1. SUFFICES ASSUME done' PROVE FoundBefore(Cut!Count)'
    OBVIOUS
  <2>2. Cut!End = Cut!Count
    BY <1>0, <1>1, <2>1 DEF Cut!Window, CutTyped, Cut!End, Cut!Step
  <2>. QED
    BY <1>1, <1>4, <2>2 DEF FoundBefore
<1>. QED
  BY <1>3, <1>5, <1>6 DEF CutSoFar


LEMMA CutInitially ==
  ASSUME Cut!Init
  PROVE  CutSoFar
<1>2. CutTyped
  BY DocumentsValid DEF Cut!Init, CutTyped, Cut!ConfigValid, Cut!Count
<1>3. FoundBefore(start)
  BY DEF Cut!Init, FoundBefore
<1>4. Text(document) # NoText => (done <=> Cut!Count = 0)
  BY DEF Cut!Init
<1>5. Cut!Count = 0 => FoundBefore(Cut!Count)
  BY DEF FoundBefore
<1>6. ~done => start < Cut!Count
  <2>1. ~done => Cut!Count # 0
    BY DEF Cut!Init
  <2>2. start = 0 /\ Cut!Count \in Nat
    BY <1>2 DEF Cut!Init, CutTyped
  <2>. QED
    BY <2>1, <2>2
<1>. QED
  BY <1>2, <1>3, <1>4, <1>5, <1>6 DEF CutSoFar

LEMMA CutStays ==
  ASSUME CutSoFar, UNCHANGED cutVars
  PROVE  CutSoFar'
BY DEF cutVars, CutSoFar, CutTyped, FoundBefore, Found, Cut!Searched, Cut!TextOf, Cut!Count

LEMMA CutKeepsPassages ==
  ASSUME CutSoFar
  PROVE  Cut!PassagesKept
<1>1. SUFFICES ASSUME done, Text(document) # NoText,
                      NEW s \in 0 .. Cut!Count - 1, NEW n \in 1 .. overlap + 1, s + n <= Cut!Count
               PROVE  Found(s, n)
  BY DEF Cut!PassagesKept, Found
<1>2. s < Cut!Count
  BY <1>1 DEF CutSoFar, CutTyped
<1>. QED
  BY <1>1, <1>2 DEF CutSoFar, FoundBefore

----------------------------------------------------------------------------
(* The theorems.                                                            *)

V == INSTANCE VectorStagingProofs
  WITH Chunks <- Passages, writer <- vwriter, settled <- vsettled

\* Every step of the five parts is one of Neo4j, or changes nothing there.
LEMMA GraphSteps ==
  ASSUME [MCNext]_<<part, vars, vectorVars, cutVars>>
  PROVE  [Next]_vars
BY DEF MCNext

\* The inductive invariant of the graph part: types, what versions and commands go
\* by, what they have read and written, and that what is settled is held
\* (Neo4jGraphWriter).
THEOREM GraphInvariance == MCSpec => []IInv
<1>1. MCInit => IInv
  BY Initially DEF MCInit
<1>2. IInv /\ [MCNext]_<<part, vars, vectorVars, cutVars>> => IInv'
  BY GraphSteps, Inductive
<1>. QED
  BY <1>1, <1>2, PTL DEF MCSpec

\* Whatever killed and failed commands left behind, a command that no discard met and
\* that has written everything verifies it (stage_graph, verify_stage and the MERGE
\* statements), and every reachable state has the types of markers, rows and commands.
THEOREM RetriesRepair == MCSpec => []GraphRetries
<1>1. IInv => GraphRetries
  BY Retries DEF IInv, GraphRetries
<1>. QED
  BY <1>1, GraphInvariance, PTL

\* What a command reported while no discard met the commands at work on the version is
\* whole, and nothing but a discard of that version changes it, for every version of the
\* shared database (stage_graph, recover_stage, discard_version).
THEOREM GraphKeeps == MCSpec => GraphKeepsContract
<1>1. MCInit => \A v \in Versions : Contract(v)!Init
  BY Initially DEF MCInit
<1>2. IInv /\ [MCNext]_<<part, vars, vectorVars, cutVars>> =>
        [\A v \in Versions : UNCHANGED <<Held(v), settled[v]>> \/ Contract(v)!Next]_vars
  BY GraphSteps, ContractStep DEF Promised
<1>. QED
  BY <1>1, <1>2, GraphInvariance, PTL DEF MCSpec, GraphKeepsContract, KeepsContract

\* The two instances of VectorStaging are the same.
LEMMA SameSets ==
  /\ \A S : V!IsFiniteSet(S) <=> Vector!IsFiniteSet(S)
  /\ \A S : V!Cardinality(S) = Vector!Cardinality(S)
BY DEF V!IsFiniteSet, Vector!IsFiniteSet, V!Cardinality, Vector!Cardinality

LEMMA SameCorpora == V!Corpora = Vector!Corpora
BY SameSets DEF V!Corpora, Vector!Corpora

LEMMA SameSteps ==
  ASSUME NEW w \in Writers, Vector!Writes(w)
  PROVE  V!Writes(w)
<1>1. Vector!LooksForCollection(w) => V!LooksForCollection(w)
  BY SameSets, SameCorpora DEF V!LooksForCollection, Vector!LooksForCollection, V!At, Vector!At,
     V!Exists,
     Vector!Exists, V!Goes, Vector!Goes
<1>2. Vector!CreatesCollection(w) => V!CreatesCollection(w)
  BY SameSets, SameCorpora DEF V!CreatesCollection, Vector!CreatesCollection, V!At, Vector!At, V!Exists,
     Vector!Exists, V!Goes, Vector!Goes
<1>3. Vector!CreatesIndexes(w) => V!CreatesIndexes(w)
  BY SameSets, SameCorpora DEF V!CreatesIndexes, Vector!CreatesIndexes, V!At, Vector!At, V!Exists,
     Vector!Exists,
     V!Goes, Vector!Goes
<1>4. Vector!ChecksCollection(w) => V!ChecksCollection(w)
  BY SameSets, SameCorpora DEF V!ChecksCollection, Vector!ChecksCollection, V!At, Vector!At
<1>5. Vector!FindsEmpty(w) => V!FindsEmpty(w)
  BY SameSets, SameCorpora DEF V!FindsEmpty, Vector!FindsEmpty, V!At, Vector!At, V!Exists, Vector!Exists
<1>6. Vector!FindsWritten(w) => V!FindsWritten(w)
  BY SameSets, SameCorpora DEF V!FindsWritten, Vector!FindsWritten, V!At, Vector!At, V!Exists,
     Vector!Exists, V!Goes,
     Vector!Goes, V!Sealed, Vector!Sealed, V!Expected, Vector!Expected
<1>7. Vector!UpsertsBatch(w) => V!UpsertsBatch(w)
  BY SameSets, SameCorpora DEF V!UpsertsBatch, Vector!UpsertsBatch, V!At, Vector!At, V!Exists,
     Vector!Exists,
     V!Provisional, Vector!Provisional
<1>8. Vector!ReadsBack(w) => V!ReadsBack(w)
  BY SameSets, SameCorpora DEF V!ReadsBack, Vector!ReadsBack, V!At, Vector!At, V!Exists,
     Vector!Exists, V!Expected,
     Vector!Expected
<1>9. Vector!SealsBatch(w) => V!SealsBatch(w)
  BY SameSets, SameCorpora DEF V!SealsBatch, Vector!SealsBatch, V!At, Vector!At, V!Exists, Vector!Exists
<1>10. Vector!ReadsSealed(w) => V!ReadsSealed(w)
  BY SameSets, SameCorpora DEF V!ReadsSealed, Vector!ReadsSealed, V!At, Vector!At, V!Exists,
     Vector!Exists, V!Sealed,
     Vector!Sealed, V!Goes, Vector!Goes
<1>11. Vector!ReadsEvidence(w) => V!ReadsEvidence(w)
  BY SameSets, SameCorpora DEF V!ReadsEvidence, Vector!ReadsEvidence, V!At, Vector!At, V!Exists,
     Vector!Exists,
     V!Sealed, Vector!Sealed
<1>12. Vector!RequiresCollection(w) => V!RequiresCollection(w)
  BY SameSets, SameCorpora DEF V!RequiresCollection, Vector!RequiresCollection, V!At, Vector!At
<1>13. Vector!Reports(w) => V!Reports(w)
  BY SameSets, SameCorpora DEF V!Reports, Vector!Reports, V!At, Vector!At, V!Exists, Vector!Exists,
     V!Sealed,
     Vector!Sealed, V!Expected, Vector!Expected, V!Idle, Vector!Idle, V!Committed,
     Vector!Committed
<1>14. Vector!Fails(w) => V!Fails(w)
  BY SameSets, SameCorpora DEF V!Fails, Vector!Fails, V!Idle, Vector!Idle
<1>15. Vector!Begin(w) => V!Begin(w)
  BY SameSets, SameCorpora DEF V!Begin, Vector!Begin, V!Idle, Vector!Idle
<1>16. \A step, next : Vector!Counts(w, step, next) => V!Counts(w, step, next)
  BY SameSets DEF V!Counts, Vector!Counts, V!At, Vector!At, V!Exists, Vector!Exists
<1>. QED
  BY <1>1, <1>2, <1>3, <1>4, <1>5, <1>6, <1>7, <1>8, <1>9, <1>10, <1>11, <1>12, <1>13, <1>14,
     <1>15, <1>16 DEF V!Writes, Vector!Writes

LEMMA SameHeld == V!Held = Vector!Held /\ V!Held' = Vector!Held'
BY SameCorpora DEF V!Held, Vector!Held, V!Expected, Vector!Expected, V!Sealed, Vector!Sealed

LEMMA SameVector ==
  /\ Vector!Init => V!Init
  /\ [Vector!Next]_vectorVars => [V!Next]_V!vars
<1>1. Vector!Init => V!Init
  BY DEF Vector!Init, V!Init, Vector!NoPoints, V!NoPoints, Vector!Idle, V!Idle
<1>2. Vector!Next => V!Next
  <2>1. Vector!Discard => V!Discard
    BY DEF Vector!Discard, V!Discard, Vector!Exists, V!Exists, Vector!NoPoints, V!NoPoints
  <2>. QED
    BY <2>1, SameSteps DEF Vector!Next, V!Next
<1>. QED
  BY <1>1, <1>2 DEF vectorVars, V!vars

LEMMA SameContract ==
  /\ V!Contract!Init => Vector!Contract!Init
  /\ [V!Contract!Next]_<<V!Held, vsettled>> => [Vector!Contract!Next]_<<Vector!Held, vsettled>>
BY SameHeld, SameCorpora DEF V!Contract!Init, Vector!Contract!Init, V!Contract!Next,
   Vector!Contract!Next,
   V!Contract!Work, Vector!Contract!Work, V!Contract!Report, Vector!Contract!Report,
   V!Contract!Discard, Vector!Contract!Discard

\* The Qdrant part keeps the same contract: every step of it is one of VectorStaging,
\* which VectorStagingProofs treats (QdrantVectorWriter, discard_version).
THEOREM VectorKeeps == MCSpec => VectorKeepsContract
<1>1. MCInit => V!Init
  BY SameVector DEF MCInit
<1>2. [MCNext]_<<part, vars, vectorVars, cutVars>> => [V!Next]_V!vars
  BY SameVector DEF MCNext, vectorVars
<1>3. V!Spec => V!KeepsContract
  BY V!ImplementsContract
<1>4. MCSpec => V!Spec
  BY <1>1, <1>2, PTL DEF MCSpec, V!Spec
<1>5. V!KeepsContract => VectorKeepsContract
  BY SameContract, PTL DEF V!KeepsContract, V!Contract!Spec, VectorKeepsContract, Vector!KeepsContract,
     Vector!Contract!Spec
<1>. QED
  BY <1>3, <1>4, <1>5, PTL

\* No passage of at most one token more than the overlap is cut in all chunks, for every
\* document and every configuration that ChunkerConfig accepts (chunk_document).
THEOREM PassagesAreKept == MCSpec => []ChunksKeepPassages
<1>1. MCInit => (part = "cut" => CutSoFar)
  BY CutInitially DEF MCInit
<1>2. (part = "cut" => CutSoFar) /\ [MCNext]_<<part, vars, vectorVars, cutVars>>
        => (part = "cut" => CutSoFar)'
  <2>. SUFFICES ASSUME part = "cut" => CutSoFar, [MCNext]_<<part, vars, vectorVars, cutVars>>, part' = "cut"
                PROVE  CutSoFar'
    OBVIOUS
  <2>1. part = "cut" /\ CutSoFar
    BY DEF MCNext
  <2>2. CASE Cut!Window
    BY <2>1, <2>2, WindowCutsSoFar
  <2>3. CASE UNCHANGED cutVars
    BY <2>1, <2>3, CutStays
  <2>. QED
    BY <2>1, <2>2, <2>3 DEF MCNext, Cut!Next, Cut!Return, Cut!vars, cutVars
<1>3. (part = "cut" => CutSoFar) => ChunksKeepPassages
  BY CutKeepsPassages DEF ChunksKeepPassages
<1>. QED
  BY <1>1, <1>2, <1>3, PTL DEF MCSpec
=============================================================================
