------------------------------ MODULE CostModel ------------------------------
(***************************************************************************)
(* The learned cost models on disk and the offline optimizer that loads    *)
(* them (planner/artifacts.py, planner/optimizer.py).  Every training      *)
(* writes four files, one after another and each by a rename: the quality  *)
(* model, its manifest, the latency model, its manifest.  A training can   *)
(* be killed between any two, and the optimizer may be loading meanwhile:  *)
(* it reads both manifests, compares them, and then for each model reads   *)
(* the manifest again, the file for its checksum, and the file once more   *)
(* for the estimator.                                                      *)
(*                                                                         *)
(* Training n is the number n; a file holds the training that wrote it, 0  *)
(* for none.                                                               *)
(***************************************************************************)
EXTENDS Integers, Sequences

CONSTANT Trainings   \* what each training was of: its matrix, corpus and status

VARIABLES
  artifact, manifest,   \* the files of each kind of model
  training, written,    \* the training that runs, and how many of its files it has written
  at,                   \* the step of the loader, 0 when none loads
  seen, loaded, model,  \* the manifests it compared, those it loaded with, the estimators
  overlapped            \* whether a file changed since the loader began

vars == <<artifact, manifest, training, written, at, seen, loaded, model, overlapped>>

Models == {"quality", "latency"}
None == [m \in Models |-> 0]

Init ==
  /\ artifact = None /\ manifest = None /\ training = 1 /\ written = 0
  /\ at = 0 /\ seen = None /\ loaded = None /\ model = None
  /\ overlapped = FALSE

----------------------------------------------------------------------------
(* A training.                                                              *)

Files == << <<"artifact", "quality">>, <<"manifest", "quality">>,
            <<"artifact", "latency">>, <<"manifest", "latency">> >>

\* The next file of save_cost_model is renamed into its place.
Save ==
  LET file == Files[written + 1] IN
  /\ training <= Len(Trainings) /\ written < Len(Files)
  /\ artifact' = IF file[1] = "artifact" THEN [artifact EXCEPT ![file[2]] = training] ELSE artifact
  /\ manifest' = IF file[1] = "manifest" THEN [manifest EXCEPT ![file[2]] = training] ELSE manifest
  /\ written' = written + 1 /\ overlapped' = TRUE
  /\ UNCHANGED <<training, at, seen, loaded, model>>

\* The training has ended, or is killed; another one may be started.
Leave ==
  /\ training <= Len(Trainings)
  /\ training' = training + 1 /\ written' = 0
  /\ UNCHANGED <<artifact, manifest, at, seen, loaded, model, overlapped>>

----------------------------------------------------------------------------
(* The loader: load_historical_research_bundle, then the optimizer's        *)
(* constructor.                                                             *)

Steps == << <<"read", "quality">>, <<"read", "latency">>,
            <<"manifest", "quality">>, <<"checksum", "quality">>, <<"load", "quality">>,
            <<"manifest", "latency">>, <<"checksum", "latency">>, <<"load", "latency">> >>
Ready == Len(Steps) + 1

Of(n) == Trainings[n]

\* _validate_research_pair, on two manifests.
PairUnchecked(pair) == \A m \in Models : Of(pair[m]).research

Pair(pair) ==
  /\ \A m \in Models : Of(pair[m]).research
  /\ Of(pair["quality"]).matrix = Of(pair["latency"]).matrix
  /\ Of(pair["quality"]).corpus = Of(pair["latency"]).corpus

\* What load_cost_model asks of a file and of the manifest it has just read: the
\* checksum, and check_compatibility with the context of the manifest compared before.
FileFitsUnchecked(m) == Of(loaded[m]).corpus = Of(seen[m]).corpus

FileFits(m) == artifact[m] = loaded[m] /\ Of(loaded[m]).corpus = Of(seen[m]).corpus

Begin ==
  /\ at \in {0, Ready}
  /\ at' = 1 /\ seen' = None /\ loaded' = None /\ model' = None
  /\ overlapped' = FALSE
  /\ UNCHANGED <<artifact, manifest, training, written>>

\* A step that raises leaves nothing behind.
Goes(ok) == at' = IF ok THEN at + 1 ELSE 0

AtStep(step, m) == at \in 1 .. Len(Steps) /\ Steps[at] = <<step, m>>

ReadManifest(m) ==
  /\ AtStep("read", m)
  /\ seen' = [seen EXCEPT ![m] = manifest[m]]
  /\ Goes(manifest[m] # 0 /\ (m = "latency" => Pair(seen')))
  /\ UNCHANGED <<artifact, manifest, training, written, loaded, model, overlapped>>

LoadManifest(m) ==
  /\ AtStep("manifest", m)
  /\ loaded' = [loaded EXCEPT ![m] = manifest[m]]
  /\ Goes(TRUE)
  /\ UNCHANGED <<artifact, manifest, training, written, seen, model, overlapped>>

CheckFile(m) ==
  /\ AtStep("checksum", m)
  /\ Goes(FileFits(m))
  /\ UNCHANGED <<artifact, manifest, training, written, seen, loaded, model, overlapped>>

\* sio.load; after the second the constructor compares the manifests again.
LoadFile(m) ==
  /\ AtStep("load", m)
  /\ model' = [model EXCEPT ![m] = artifact[m]]
  /\ Goes(m = "latency" => Pair(loaded))
  /\ UNCHANGED <<artifact, manifest, training, written, seen, loaded, overlapped>>

Next ==
  \/ Save
  \/ Leave
  \/ Begin
  \/ \E m \in Models : ReadManifest(m) \/ LoadManifest(m) \/ CheckFile(m) \/ LoadFile(m)

Spec == Init /\ [][Next]_vars

----------------------------------------------------------------------------
Types ==
  /\ {artifact, manifest, seen, loaded, model} \subseteq [Models -> 0 .. Len(Trainings)]
  /\ training \in 1 .. Len(Trainings) + 1 /\ written \in 0 .. Len(Files)
  /\ at \in 0 .. Ready /\ overlapped \in BOOLEAN

\* An optimizer's two manifests are of one matrix and corpus and both of research,
\* though each file may have been replaced since the pair was first compared
\* (load_historical_research_bundle reads the manifests twice).
BundleIsAPair ==
  at = Ready =>
    LET quality == Of(loaded["quality"])
        latency == Of(loaded["latency"]) IN
    quality.matrix = latency.matrix /\ quality.corpus = latency.corpus /\ quality.research

\* An estimator is the one its manifest names, unless a training wrote while it was
\* loaded: a training killed between a model and its manifest is never used.
EstimatorIsItsManifests == at = Ready /\ ~overlapped => model = loaded
=============================================================================
