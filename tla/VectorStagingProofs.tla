------------------------ MODULE VectorStagingProofs ------------------------
(***************************************************************************)
(* A Qdrant version keeps the contract of a store for every number of      *)
(* commands, chunks, artifacts and inputs.  The argument: a command gets   *)
(* to the requests that write points only by finding the version empty,    *)
(* and a version that has been reported is not; so what was settled is     *)
(* still there, with nobody left who could write it.                       *)
(***************************************************************************)
EXTENDS VectorStaging, FiniteSetTheorems, TLAPS

\* What is counted and what is left of a batch can be counted.
Finite ==
  /\ IsFiniteSet(DOMAIN points)
  /\ \A w \in Writers : writer[w] # Idle => IsFiniteSet(writer[w].left)

\* What is settled is held, and nobody is about to write the version.
Unharmed ==
  settled # {} => /\ settled \subseteq Held
                  /\ \A w \in Writers : ~Committed(w)

IInv == TypeOK /\ Finite /\ Unharmed

----------------------------------------------------------------------------
\* A version holds one content: its points tell the chunks and the artifact.
LEMMA OneContent ==
  ASSUME NEW a \in Held, NEW b \in Held
  PROVE  a = b
<1>1. a \in [chunks : (SUBSET Chunks) \ {{}}, artifact : Artifacts] /\ Expected(a)
  BY DEF Held, Corpora
<1>2. b \in [chunks : (SUBSET Chunks) \ {{}}, artifact : Artifacts] /\ Expected(b)
  BY DEF Held, Corpora
<1>3. a.chunks = b.chunks
  BY <1>1, <1>2 DEF Expected
<1>4. PICK c \in a.chunks : TRUE
  BY <1>1
<1>5. a.artifact = b.artifact
  BY <1>1, <1>2, <1>4 DEF Expected
<1>. QED
  BY <1>1, <1>2, <1>3, <1>5

\* A version that holds a content has points.
LEMMA HeldHasPoints == Held # {} => DOMAIN points # {}
BY DEF Held, Corpora, Expected

\* A process that is somewhere runs a command.
LEMMA CommandAt ==
  ASSUME TypeOK, NEW w \in Writers, writer[w] # Idle
  PROVE  writer[w] \in Commands
BY DEF TypeOK

LEMMA AtMeansCommand ==
  ASSUME TypeOK, NEW w \in Writers, NEW step \in Steps, At(w, step)
  PROVE  writer[w] \in Commands /\ writer[w] # Idle
BY DEF TypeOK, At, Idle, Steps

\* One process goes on, and the others stay where they are.
LEMMA OneMoves ==
  ASSUME TypeOK, NEW w \in Writers, NEW cmd \in Commands \cup {Idle},
         writer' = [writer EXCEPT ![w] = cmd]
  PROVE  /\ writer' \in [Writers -> Commands \cup {Idle}]
         /\ writer'[w] = cmd
         /\ \A u \in Writers \ {w} : writer'[u] = writer[u]
BY DEF TypeOK

\* What an action has to show for the types once it has its command.
LEMMA KeepsTypes ==
  ASSUME TypeOK, Finite, NEW w \in Writers, NEW cmd \in Commands \cup {Idle},
         writer' = [writer EXCEPT ![w] = cmd],
         cmd # Idle => IsFiniteSet(cmd.left),
         collection' \in {"absent", "bare", "complete"},
         points' \in UNION {[cs -> Points] : cs \in SUBSET Chunks},
         IsFiniteSet(DOMAIN points'),
         settled' \subseteq Corpora
  PROVE  TypeOK' /\ Finite'
<1>1. TypeOK'
  BY OneMoves DEF TypeOK
<1>2. Finite'
  BY OneMoves DEF Finite
<1>. QED
  BY <1>1, <1>2

\* An action that moves one command on and reads the store.
LEMMA ReadsOnly ==
  ASSUME TypeOK, Finite, NEW w \in Writers, writer[w] \in Commands, writer[w] # Idle,
         NEW cmd \in Commands \cup {Idle},
         cmd # Idle => cmd.left = writer[w].left \/ IsFiniteSet(cmd.left),
         writer' = [writer EXCEPT ![w] = cmd],
         UNCHANGED <<points, settled>>,
         collection' \in {"absent", "bare", "complete"}
  PROVE  TypeOK' /\ Finite'
<1>1. cmd # Idle => IsFiniteSet(cmd.left)
  BY DEF Finite
<1>2. /\ points' \in UNION {[cs -> Points] : cs \in SUBSET Chunks}
      /\ IsFiniteSet(DOMAIN points')
      /\ settled' \subseteq Corpora
  BY DEF TypeOK, Finite
<1>. QED
  BY <1>1, <1>2, KeepsTypes
----------------------------------------------------------------------------
(* Types.                                                                   *)

\* A step of a command that only reads, by the field that it changes.
LEMMA ReadsTyped ==
  ASSUME TypeOK, Finite, NEW w \in Writers,
         \/ Begin(w) \/ LooksForCollection(w) \/ CreatesCollection(w) \/ CreatesIndexes(w)
         \/ ChecksCollection(w) \/ Counts(w, "count", "read") \/ FindsEmpty(w) \/ FindsWritten(w)
         \/ Counts(w, "recount", "reread") \/ ReadsBack(w) \/ ReadsSealed(w)
         \/ ReadsEvidence(w) \/ RequiresCollection(w)
         \/ Counts(w, "verify_count", "verify_read") \/ Fails(w)
  PROVE  TypeOK' /\ Finite'
<1>1. CASE Begin(w)
  <2>1. PICK content \in Corpora :
          writer' = [writer EXCEPT ![w] =
            [at |-> "exists", content |-> content, left |-> {}, count |-> 0,
             evidence |-> [c \in {} |-> content.artifact], cached |-> FALSE]]
    BY <1>1 DEF Begin
  <2>. DEFINE cmd == [at |-> "exists", content |-> content, left |-> {}, count |-> 0,
                      evidence |-> [c \in {} |-> content.artifact], cached |-> FALSE]
  <2>2. [c \in {} |-> content.artifact] \in [{} -> Artifacts]
    OBVIOUS
  <2>3. [c \in {} |-> content.artifact] \in UNION {[cs -> Artifacts] : cs \in SUBSET Chunks}
    BY <2>2
  <2>4. cmd \in Commands
    BY <2>3 DEF Commands, Steps
  <2>5. IsFiniteSet(cmd.left)
    BY FS_EmptySet
  <2>6. /\ writer' = [writer EXCEPT ![w] = cmd]
        /\ UNCHANGED <<collection, points, settled>>
    BY <1>1, <2>1 DEF Begin
  <2>. HIDE DEF cmd
  <2>7. /\ collection' \in {"absent", "bare", "complete"}
        /\ points' \in UNION {[cs -> Points] : cs \in SUBSET Chunks}
        /\ IsFiniteSet(DOMAIN points')
        /\ settled' \subseteq Corpora
    BY <2>6 DEF TypeOK, Finite
  <2>. QED
    BY <2>4, <2>5, <2>6, <2>7, KeepsTypes
<1>2. ASSUME NEW step \in Steps, writer[w] \in Commands, writer[w] # Idle, Goes(w, step),
             UNCHANGED <<points, settled>>, collection' \in {"absent", "bare", "complete"}
      PROVE  TypeOK' /\ Finite'
  <2>1. [writer[w] EXCEPT !.at = step] \in Commands
        /\ [writer[w] EXCEPT !.at = step].left = writer[w].left
    BY <1>2 DEF Commands
  <2>. QED
    BY <1>2, <2>1, ReadsOnly DEF Goes
<1>3. CASE LooksForCollection(w)
  BY <1>2, <1>3, AtMeansCommand DEF LooksForCollection, Steps, TypeOK
<1>4. CASE CreatesCollection(w)
  BY <1>2, <1>4, AtMeansCommand DEF CreatesCollection, Steps
<1>5. CASE CreatesIndexes(w)
  BY <1>2, <1>5, AtMeansCommand DEF CreatesIndexes, Steps
<1>6. CASE FindsWritten(w) \/ ReadsSealed(w)
  BY <1>2, <1>6, AtMeansCommand DEF FindsWritten, ReadsSealed, Steps, TypeOK
<1>7. ASSUME NEW step \in Steps, NEW next \in Steps, Counts(w, step, next)
      PROVE  TypeOK' /\ Finite'
  <2>1. Cardinality(DOMAIN points) \in Nat
    BY FS_CardinalityType DEF Finite
  <2>2. writer[w] \in Commands /\ writer[w] # Idle
    BY <1>7, AtMeansCommand DEF Counts
  <2>. DEFINE cmd == [writer[w] EXCEPT !.at = next, !.count = Cardinality(DOMAIN points)]
  <2>3. cmd \in Commands /\ cmd.left = writer[w].left
    BY <2>1, <2>2 DEF Commands
  <2>4. /\ writer' = [writer EXCEPT ![w] = cmd] /\ UNCHANGED <<points, settled>>
        /\ collection' \in {"absent", "bare", "complete"}
    BY <1>7 DEF Counts, TypeOK
  <2>. HIDE DEF cmd
  <2>. QED
    BY <2>2, <2>3, <2>4, ReadsOnly
<1>8. CASE ChecksCollection(w) \/ RequiresCollection(w)
  <2>1. PICK step \in Steps, cached \in BOOLEAN :
          writer' = [writer EXCEPT ![w].at = step, ![w].cached = cached]
    <3>1. At(w, "check_new") \in BOOLEAN
      BY DEF At
    <3>. QED
      BY <1>8, <3>1 DEF ChecksCollection, RequiresCollection, Steps
  <2>2. writer[w] \in Commands /\ writer[w] # Idle
    BY <1>8, AtMeansCommand DEF ChecksCollection, RequiresCollection, Steps
  <2>. DEFINE cmd == [writer[w] EXCEPT !.at = step, !.cached = cached]
  <2>3. cmd \in Commands /\ cmd.left = writer[w].left
    BY <2>2 DEF Commands
  <2>4. /\ writer' = [writer EXCEPT ![w] = cmd] /\ UNCHANGED <<points, settled>>
        /\ collection' \in {"absent", "bare", "complete"}
    BY <1>8, <2>1 DEF ChecksCollection, RequiresCollection, TypeOK
  <2>. HIDE DEF cmd
  <2>. QED
    BY <2>2, <2>3, <2>4, ReadsOnly
<1>9. CASE FindsEmpty(w)
  <2>1. writer[w] \in Commands /\ writer[w] # Idle
    BY <1>9, AtMeansCommand DEF FindsEmpty, Steps
  <2>2. writer[w].content.chunks \in SUBSET Chunks /\ IsFiniteSet(writer[w].content.chunks)
    BY <2>1 DEF Commands, Corpora
  <2>. DEFINE cmd == [writer[w] EXCEPT !.at = "upsert", !.left = writer[w].content.chunks]
  <2>3. cmd \in Commands /\ cmd.left = writer[w].content.chunks
    BY <2>1, <2>2 DEF Commands, Steps
  <2>4. /\ writer' = [writer EXCEPT ![w] = cmd] /\ UNCHANGED <<points, settled>>
        /\ collection' \in {"absent", "bare", "complete"}
    BY <1>9 DEF FindsEmpty, TypeOK
  <2>. HIDE DEF cmd
  <2>. QED
    BY <2>1, <2>2, <2>3, <2>4, ReadsOnly
<1>10. CASE ReadsBack(w)
  <2>. DEFINE unsealed == {c \in DOMAIN points : points[c].declared # points[c].artifact}
              step == IF unsealed = {} THEN "read_sealed" ELSE "seal"
              cmd == [writer[w] EXCEPT !.left = unsealed, !.at = step]
  <2>1. writer[w] \in Commands /\ writer[w] # Idle
    BY <1>10, AtMeansCommand DEF ReadsBack, Steps
  <2>2. unsealed \in SUBSET Chunks /\ IsFiniteSet(unsealed)
    BY FS_Subset DEF TypeOK, Finite
  <2>3. cmd \in Commands /\ cmd.left = unsealed
    <3>. HIDE DEF unsealed
    <3>. QED
      BY <2>1, <2>2 DEF Commands, Steps
  <2>4. /\ writer' = [writer EXCEPT ![w] = cmd] /\ UNCHANGED <<points, settled>>
        /\ collection' \in {"absent", "bare", "complete"}
    BY <1>10 DEF ReadsBack, TypeOK
  <2>. HIDE DEF cmd, unsealed
  <2>. QED
    BY <2>1, <2>2, <2>3, <2>4, ReadsOnly
<1>11. CASE ReadsEvidence(w)
  <2>. DEFINE evidence == [c \in DOMAIN points |-> points[c].artifact]
              cmd == [writer[w] EXCEPT !.at = "require", !.evidence = evidence]
  <2>1. writer[w] \in Commands /\ writer[w] # Idle
    BY <1>11, AtMeansCommand DEF ReadsEvidence, Steps
  <2>2. PICK cs \in SUBSET Chunks : points \in [cs -> Points]
    BY DEF TypeOK
  <2>3. evidence \in [cs -> Artifacts]
    BY <2>2 DEF Points
  <2>4. evidence \in UNION {[ds -> Artifacts] : ds \in SUBSET Chunks}
    BY <2>3
  <2>5. cmd \in Commands /\ cmd.left = writer[w].left
    <3>. HIDE DEF evidence
    <3>. QED
      BY <2>1, <2>4 DEF Commands, Steps
  <2>6. /\ writer' = [writer EXCEPT ![w] = cmd] /\ UNCHANGED <<points, settled>>
        /\ collection' \in {"absent", "bare", "complete"}
    BY <1>11 DEF ReadsEvidence, TypeOK
  <2>. HIDE DEF cmd, evidence
  <2>. QED
    BY <2>1, <2>5, <2>6, ReadsOnly
<1>12. CASE Fails(w)
  <2>1. writer[w] \in Commands /\ writer[w] # Idle
    BY <1>12, CommandAt DEF Fails
  <2>. QED
    BY <1>12, <2>1, ReadsOnly DEF Fails, TypeOK
<1>. QED
  BY <1>1, <1>3, <1>4, <1>5, <1>6, <1>7, <1>8, <1>9, <1>10, <1>11, <1>12 DEF Steps
\* A batch is part of what is left; what is left of that is typed.
LEMMA BatchTyped ==
  ASSUME TypeOK, Finite, NEW w \in Writers, writer[w] \in Commands, writer[w] # Idle,
         NEW batch \in SUBSET writer[w].left, NEW step \in Steps,
         writer' = [writer EXCEPT ![w].left = writer[w].left \ batch, ![w].at = step],
         points' \in UNION {[cs -> Points] : cs \in SUBSET Chunks},
         IsFiniteSet(DOMAIN points'),
         UNCHANGED <<collection, settled>>
  PROVE  TypeOK' /\ Finite'
<1>. DEFINE cmd == [writer[w] EXCEPT !.left = writer[w].left \ batch, !.at = step]
<1>1. writer[w].left \ batch \in SUBSET Chunks
  BY DEF Commands
<1>2. IsFiniteSet(writer[w].left \ batch)
  BY FS_Difference DEF Finite
<1>3. cmd \in Commands /\ cmd.left = writer[w].left \ batch
  BY <1>1 DEF Commands
<1>4. writer' = [writer EXCEPT ![w] = cmd]
  OBVIOUS
<1>5. collection' \in {"absent", "bare", "complete"} /\ settled' \subseteq Corpora
  BY DEF TypeOK
<1>. HIDE DEF cmd
<1>. QED
  BY <1>2, <1>3, <1>4, <1>5, KeepsTypes

LEMMA UpsertTyped ==
  ASSUME TypeOK, Finite, NEW w \in Writers, UpsertsBatch(w)
  PROVE  TypeOK' /\ Finite'
<1>1. PICK batch \in SUBSET writer[w].left :
        /\ points' = [c \in DOMAIN points \cup batch |->
                        IF c \in batch THEN Provisional(c, writer[w].content.artifact)
                        ELSE points[c]]
        /\ writer' = [writer EXCEPT ![w].left = writer[w].left \ batch,
                                    ![w].at = IF writer[w].left = batch THEN "recount" ELSE writer[w].at]
  BY DEF UpsertsBatch
<1>2. writer[w] \in Commands /\ writer[w] # Idle
  BY AtMeansCommand DEF UpsertsBatch, Steps
<1>3. PICK cs \in SUBSET Chunks : points \in [cs -> Points]
  BY DEF TypeOK
<1>4. batch \in SUBSET Chunks /\ writer[w].content.artifact \in Artifacts
  BY <1>2 DEF Commands, Corpora
<1>5. \A c \in batch : Provisional(c, writer[w].content.artifact) \in Points
  BY <1>4 DEF Provisional, Points
<1>6. points' \in [cs \cup batch -> Points]
  BY <1>1, <1>3, <1>5
<1>7. points' \in UNION {[ds -> Points] : ds \in SUBSET Chunks}
  BY <1>4, <1>6
<1>8. DOMAIN points' = DOMAIN points \cup batch /\ IsFiniteSet(batch)
  BY <1>1, <1>2, FS_Subset DEF Finite
<1>9. IsFiniteSet(DOMAIN points')
  BY <1>8, FS_Union DEF Finite
<1>10. (IF writer[w].left = batch THEN "recount" ELSE writer[w].at) \in Steps
  BY DEF UpsertsBatch, At, Steps
<1>11. UNCHANGED <<collection, settled>>
  BY DEF UpsertsBatch
<1>. QED
  BY <1>1, <1>2, <1>7, <1>9, <1>10, <1>11, BatchTyped

LEMMA SealTyped ==
  ASSUME TypeOK, Finite, NEW w \in Writers, SealsBatch(w)
  PROVE  TypeOK' /\ Finite'
<1>1. PICK batch \in SUBSET writer[w].left :
        /\ points' = [c \in DOMAIN points |->
                        IF c \in batch
                        THEN [points[c] EXCEPT !.declared = writer[w].content.artifact]
                        ELSE points[c]]
        /\ writer' = [writer EXCEPT ![w].left = writer[w].left \ batch,
                                    ![w].at = IF writer[w].left = batch THEN "read_sealed" ELSE writer[w].at]
  BY DEF SealsBatch
<1>2. writer[w] \in Commands /\ writer[w] # Idle
  BY AtMeansCommand DEF SealsBatch, Steps
<1>3. PICK cs \in SUBSET Chunks : points \in [cs -> Points]
  BY DEF TypeOK
<1>4. writer[w].content.artifact \in Artifacts
  BY <1>2 DEF Commands, Corpora
<1>5. \A c \in cs : [points[c] EXCEPT !.declared = writer[w].content.artifact] \in Points
  BY <1>3, <1>4 DEF Points
<1>6. points' \in [cs -> Points]
  BY <1>1, <1>3, <1>5
<1>7. points' \in UNION {[ds -> Points] : ds \in SUBSET Chunks}
  BY <1>6
<1>8. IsFiniteSet(DOMAIN points')
  BY <1>1 DEF Finite
<1>9. (IF writer[w].left = batch THEN "read_sealed" ELSE writer[w].at) \in Steps
  BY DEF SealsBatch, At, Steps
<1>10. UNCHANGED <<collection, settled>>
  BY DEF SealsBatch
<1>. QED
  BY <1>1, <1>2, <1>7, <1>8, <1>9, <1>10, BatchTyped

\* Every step keeps the types.
LEMMA Typed ==
  ASSUME TypeOK, Finite, [Next]_vars
  PROVE  TypeOK' /\ Finite'
<1>1. CASE Discard
  <2>1. NoPoints \in [{} -> Points] /\ DOMAIN NoPoints = {}
    BY DEF NoPoints
  <2>2. points' \in UNION {[cs -> Points] : cs \in SUBSET Chunks}
    BY <1>1, <2>1 DEF Discard
  <2>3. IsFiniteSet(DOMAIN points')
    BY <1>1, <2>1, FS_EmptySet DEF Discard
  <2>. QED
    BY <1>1, <2>2, <2>3 DEF Discard, TypeOK, Finite
<1>2. ASSUME NEW w \in Writers, Reports(w)
      PROVE  TypeOK' /\ Finite'
  <2>1. writer[w] \in Commands
    BY <1>2, AtMeansCommand DEF Reports, Steps
  <2>2. settled' \subseteq Corpora
    BY <1>2, <2>1 DEF Reports, TypeOK, Commands
  <2>3. /\ writer' = [writer EXCEPT ![w] = Idle]
        /\ collection' \in {"absent", "bare", "complete"}
        /\ points' \in UNION {[cs -> Points] : cs \in SUBSET Chunks}
        /\ IsFiniteSet(DOMAIN points')
    BY <1>2 DEF Reports, TypeOK, Finite
  <2>. QED
    BY <2>2, <2>3, KeepsTypes
<1>3. CASE UNCHANGED vars
  BY <1>3 DEF vars, TypeOK, Finite
<1>. QED
  BY <1>1, <1>2, <1>3, ReadsTyped, UpsertTyped, SealTyped DEF Next, Writes
----------------------------------------------------------------------------
(* The contract.                                                            *)

\* What the version holds depends on its points alone.
LEMMA HeldKept ==
  ASSUME points' = points
  PROVE  Held' = Held
BY DEF Held, Expected, Sealed

\* A step of a command that neither writes nor reports, other than the one that
\* finds the version empty.
Passes(w) ==
  \/ Begin(w) \/ LooksForCollection(w) \/ CreatesCollection(w) \/ CreatesIndexes(w)
  \/ ChecksCollection(w) \/ Counts(w, "count", "read") \/ FindsWritten(w)
  \/ Counts(w, "recount", "reread") \/ ReadsBack(w) \/ ReadsSealed(w)
  \/ ReadsEvidence(w) \/ RequiresCollection(w)
  \/ Counts(w, "verify_count", "verify_read") \/ Fails(w)

\* It makes nobody a writer of the version.
LEMMA PassesHarmless ==
  ASSUME TypeOK, NEW w \in Writers, Passes(w)
  PROVE  /\ UNCHANGED <<points, settled>>
         /\ \A u \in Writers : Committed(u)' => Committed(u)
<1>1. UNCHANGED <<points, settled>>
  BY DEF Passes, Begin, LooksForCollection, CreatesCollection, CreatesIndexes, ChecksCollection,
         Counts, FindsWritten, ReadsBack, ReadsSealed, ReadsEvidence, RequiresCollection, Fails, Goes
<1>2. \A u \in Writers \ {w} : writer'[u] = writer[u]
  BY DEF TypeOK, Passes, Begin, LooksForCollection, CreatesCollection, CreatesIndexes, ChecksCollection,
         Counts, FindsWritten, ReadsBack, ReadsSealed, ReadsEvidence, RequiresCollection, Fails, Goes
<1>3. Committed(w)' => Committed(w)
  <2>. DEFINE calm == {"idle", "exists", "create", "index", "check_new", "check_old", "count", "read",
                       "read_sealed", "read_evidence", "require", "verify_count", "verify_read"}
  <2>1. CASE Begin(w) \/ Fails(w)
    BY <2>1 DEF TypeOK, Begin, Fails, Committed, Idle
  <2>2. ASSUME writer[w] \in Commands
        PROVE  /\ \A step : Goes(w, step) => writer'[w].at = step
               /\ \A step, next : Counts(w, step, next) => writer'[w].at = next
               /\ ChecksCollection(w) => writer'[w].at = "count"
               /\ ReadsEvidence(w) => writer'[w].at = "require"
               /\ RequiresCollection(w) => writer'[w].at = "verify_count"
    BY <2>2 DEF TypeOK, Commands, Goes, Counts, ChecksCollection, ReadsEvidence, RequiresCollection
  <2>3. CASE Counts(w, "recount", "reread") \/ ReadsBack(w)
    BY <2>3 DEF Counts, ReadsBack, At, Committed
  <2>4. CASE LooksForCollection(w) \/ CreatesCollection(w) \/ CreatesIndexes(w) \/ FindsWritten(w)
             \/ ReadsSealed(w)
    <3>1. writer[w] \in Commands
      BY <2>4, AtMeansCommand
         DEF LooksForCollection, CreatesCollection, CreatesIndexes, FindsWritten, ReadsSealed, Steps
    <3>. QED
      BY <2>2, <2>4, <3>1
         DEF LooksForCollection, CreatesCollection, CreatesIndexes, FindsWritten, ReadsSealed, Committed
  <2>5. CASE ChecksCollection(w) \/ ReadsEvidence(w) \/ RequiresCollection(w)
             \/ Counts(w, "count", "read") \/ Counts(w, "verify_count", "verify_read")
    <3>1. writer[w] \in Commands
      BY <2>5, AtMeansCommand DEF ChecksCollection, ReadsEvidence, RequiresCollection, Counts, Steps
    <3>. QED
      BY <2>2, <2>5, <3>1 DEF Committed
  <2>. QED
    BY <2>1, <2>3, <2>4, <2>5 DEF Passes
<1>. QED
  BY <1>1, <1>2, <1>3 DEF Committed

\* A version that was reported is not found empty.
LEMMA EmptyIsUnsettled ==
  ASSUME TypeOK, Finite, Unharmed, NEW w \in Writers, FindsEmpty(w)
  PROVE  settled = {}
<1>1. DOMAIN points = {}
  BY FS_EmptySet DEF FindsEmpty, Finite
<1>2. Held = {}
  BY <1>1, HeldHasPoints
<1>. QED
  BY <1>2 DEF Unharmed

\* Every step keeps what was promised, and is a step of the contract.
LEMMA Promised ==
  ASSUME TypeOK, Finite, Unharmed, TypeOK', [Next]_vars
  PROVE  Unharmed' /\ [Contract!Next]_<<Held, settled>>
<1>1. Held' \subseteq Corpora
  BY DEF Held
<1>2. CASE Discard
  <2>1. settled' = {}
    BY <1>2 DEF Discard
  <2>. QED
    BY <1>1, <2>1 DEF Unharmed, Contract!Next, Contract!Discard
<1>3. ASSUME points' = points, settled' = settled,
             \A u \in Writers : Committed(u)' => Committed(u)
      PROVE  Unharmed' /\ [Contract!Next]_<<Held, settled>>
  BY <1>3, HeldKept DEF Unharmed
<1>4. ASSUME settled = {}, settled' = settled
      PROVE  Unharmed' /\ [Contract!Next]_<<Held, settled>>
  BY <1>1, <1>4 DEF Unharmed, Contract!Next, Contract!Work
<1>5. ASSUME NEW w \in Writers, Passes(w)
      PROVE  Unharmed' /\ [Contract!Next]_<<Held, settled>>
  BY <1>3, <1>5, PassesHarmless
<1>6. ASSUME NEW w \in Writers, FindsEmpty(w)
      PROVE  Unharmed' /\ [Contract!Next]_<<Held, settled>>
  BY <1>4, <1>6, EmptyIsUnsettled DEF FindsEmpty
<1>7. ASSUME NEW w \in Writers, UpsertsBatch(w) \/ SealsBatch(w)
      PROVE  Unharmed' /\ [Contract!Next]_<<Held, settled>>
  <2>1. Committed(w)
    BY <1>7 DEF UpsertsBatch, SealsBatch, At, Committed
  <2>. QED
    BY <1>4, <1>7, <2>1 DEF Unharmed, UpsertsBatch, SealsBatch
<1>8. ASSUME NEW w \in Writers, Reports(w)
      PROVE  Unharmed' /\ [Contract!Next]_<<Held, settled>>
  <2>1. /\ points' = points /\ Held' = Held
        /\ \A u \in Writers : Committed(u)' => Committed(u)
    BY <1>8, HeldKept DEF Reports, TypeOK, Committed, Idle
  <2>2. CASE settled' = settled
    BY <1>3, <2>1, <2>2
  <2>3. CASE settled' # settled
    <3>1. settled' = {writer[w].content} /\ \A u \in Writers : ~Committed(u)
      BY <1>8, <2>3 DEF Reports
    <3>2. writer[w].content \in Held
      BY <1>8, AtMeansCommand DEF Reports, Held, Commands, Steps
    <3>3. Held = {writer[w].content}
      BY <3>2, OneContent
    <3>. QED
      BY <2>1, <3>1, <3>3 DEF Unharmed, Contract!Next, Contract!Report
  <2>. QED
    BY <2>2, <2>3
<1>9. CASE UNCHANGED vars
  BY <1>3, <1>9 DEF vars, Committed
<1>. QED
  BY <1>2, <1>5, <1>6, <1>7, <1>8, <1>9 DEF Next, Writes, Passes

----------------------------------------------------------------------------
\* The inductive invariant: types, finiteness, and what is settled is held.
THEOREM Invariance == Spec => []IInv
<1>1. Init => IInv
  <2>. SUFFICES ASSUME Init
                PROVE  IInv
    OBVIOUS
  <2>1. NoPoints \in [{} -> Points] /\ DOMAIN NoPoints = {}
    BY DEF NoPoints
  <2>2. points \in UNION {[cs -> Points] : cs \in SUBSET Chunks}
    BY <2>1 DEF Init
  <2>3. IsFiniteSet(DOMAIN points)
    BY <2>1, FS_EmptySet DEF Init
  <2>. QED
    BY <2>2, <2>3 DEF Init, IInv, TypeOK, Finite, Unharmed
<1>2. IInv /\ [Next]_vars => IInv'
  BY Typed, Promised DEF IInv
<1>. QED
  BY <1>1, <1>2, PTL DEF Spec

\* Every reachable state has the types of Qdrant's collection, of the points and
\* of the commands (QdrantVectorWriter, QdrantCollectionManager).
THEOREM TypeCorrect == Spec => []TypeOK
BY Invariance, PTL DEF IInv

\* However many commands stage, seal, verify and discard one version, and
\* wherever they are killed: what was reported while nobody else was about to
\* write is whole, and only a discard changes it (write_chunks, verify_stage).
THEOREM ImplementsContract == Spec => KeepsContract
<1>1. Init => Contract!Init
  <2>. SUFFICES ASSUME Init
                PROVE  Held = {} /\ settled = {}
    BY DEF Contract!Init
  <2>1. DOMAIN points = {}
    BY DEF Init, NoPoints
  <2>. QED
    BY <2>1, HeldHasPoints DEF Init
<1>2. IInv /\ [Next]_vars => [Contract!Next]_<<Held, settled>>
  BY Typed, Promised DEF IInv
<1>. QED
  BY <1>1, <1>2, Invariance, PTL DEF Spec, KeepsContract, Contract!Spec
=============================================================================
