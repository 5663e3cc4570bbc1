---------------------------- MODULE BenchmarkRun ----------------------------
(***************************************************************************)
(* The evidence of one benchmark run (benchmark/runner.py, command.py).    *)
(* Commands of several processes work on one run directory: `run` begins   *)
(* or resumes the run, `aggregate` reports on it.  Any of them may be      *)
(* killed or fail anywhere, and its lock goes with it.  The profiler       *)
(* (benchmark/profiler.py) keeps its evidence in the same way.             *)
(***************************************************************************)
EXTENDS Integers, Sequences, FiniteSets

CONSTANTS
  Processes,
  Protocols, Environments,   \* by their digests
  Times,                     \* what a clock may show
  Trials                     \* expected_raw_row_count, a number

VARIABLES
  \* A file that is replaced as a whole is the set of its contents: none or one.
  runManifest, environment, protocol, aggregate,
  rawTrials,    \* the rows of raw_trials.jsonl
  lock,         \* who holds .run.lock
  place,        \* where a process is
  command,
  own,          \* the manifest it has made from its arguments, once it is not idle
  read          \* the records it knows of

vars == <<runManifest, environment, protocol, aggregate, rawTrials, lock, place, command, own, read>>

Manifests == [protocol : Protocols, environment : Environments, created : Times]
Row(trial, manifest, whole) ==
  [trial |-> trial, protocol |-> manifest.protocol, environment |-> manifest.environment, whole |-> whole]

Init ==
  /\ runManifest = {} /\ environment = {} /\ protocol = {} /\ aggregate = {}
  /\ rawTrials = <<>> /\ lock = {}
  /\ place = [p \in Processes |-> "idle"] /\ command = [p \in Processes |-> "run"]
  /\ own = [p \in Processes |-> CHOOSE m \in Manifests : TRUE] /\ read = [p \in Processes |-> <<>>]

Goes(p, from, to) == place[p] = from /\ place' = [place EXCEPT ![p] = to]

\* A lock that is free once anybody leaves, as one that is a file would be.
ReleasesAny(p) == lock' = {}
\* A lock belongs to the descriptor that took it.
Releases(p) == lock' = lock \ {p}
Forgets(p) == read' = [read EXCEPT ![p] = <<>>]

----------------------------------------------------------------------------
\* _execute: the time of a run that exists is looked up before the lock is taken.
Run(p) ==
  /\ Goes(p, "idle", "opening")
  /\ command' = [command EXCEPT ![p] = "run"]
  /\ \E m \in Manifests :
       /\ \A found \in runManifest : m.created = found.created
       /\ own' = [own EXCEPT ![p] = m]
  /\ UNCHANGED <<runManifest, environment, protocol, aggregate, rawTrials, lock, read>>

\* _aggregate reads the three files and asks that they belong together.
Aggregate(p) ==
  /\ Goes(p, "idle", "opening")
  /\ command' = [command EXCEPT ![p] = "aggregate"]
  /\ \E m \in runManifest :
       /\ environment = {m.environment} /\ protocol = {m.protocol}
       /\ own' = [own EXCEPT ![p] = m]
  /\ UNCHANGED <<runManifest, environment, protocol, aggregate, rawTrials, lock, read>>

\* exclusive_lock, which does not wait; for RunRepository.__init__, then for the command.
Lock(p) ==
  /\ lock = {}
  /\ lock' = {p}
  /\ Goes(p, "opening", "manifest") \/ Goes(p, "opened", "loading")
  /\ UNCHANGED <<runManifest, environment, protocol, aggregate, rawTrials, command, own, read>>

\* _initialize_model, _initialize_yaml: what is there has to be one's own, what is not is
\* written.
InitializeManifest(p) ==
  /\ Goes(p, "manifest", "environment")
  /\ runManifest \subseteq {own[p]} /\ runManifest' = {own[p]}
  /\ UNCHANGED <<environment, protocol, aggregate, rawTrials, lock, command, own, read>>

InitializeEnvironment(p) ==
  /\ Goes(p, "environment", "protocol")
  /\ environment \subseteq {own[p].environment} /\ environment' = {own[p].environment}
  /\ UNCHANGED <<runManifest, protocol, aggregate, rawTrials, lock, command, own, read>>

InitializeProtocol(p) ==
  /\ Goes(p, "protocol", "opened")
  /\ protocol \subseteq {own[p].protocol} /\ protocol' = {own[p].protocol}
  /\ Releases(p)
  /\ UNCHANGED <<runManifest, environment, aggregate, rawTrials, command, own, read>>

----------------------------------------------------------------------------
\* load_records refuses a torn row and a trial that comes twice.
Readable(rows) ==
  /\ \A i \in DOMAIN rows : rows[i].whole
  /\ \A i, j \in DOMAIN rows : rows[i].trial = rows[j].trial => i = j

\* _validate_existing, and _validate_raw_matrix for the identity of a row.
Expected(rows, manifest) ==
  /\ Len(rows) <= Trials
  /\ \A i \in DOMAIN rows : \E trial \in 1 .. Trials : rows[i] = Row(trial, manifest, rows[i].whole)

\* _run_locked to its first trial.
Resume(p) ==
  /\ command[p] = "run" /\ Goes(p, "loading", "running")
  /\ Readable(rawTrials) /\ Expected(rawTrials, own[p])
  /\ read' = [read EXCEPT ![p] = rawTrials]
  /\ UNCHANGED <<runManifest, environment, protocol, aggregate, rawTrials, lock, command, own>>

Completed(p) == {read[p][i].trial : i \in DOMAIN read[p]}

\* A trial that has been executed, with whatever outcome, is appended; os.write may take
\* a part of the row.
AppendPart(p) ==
  /\ Goes(p, "running", "appending")
  /\ \E trial \in 1 .. Trials \ Completed(p) :
       /\ \A earlier \in 1 .. (trial - 1) : earlier \in Completed(p)
       /\ rawTrials' = Append(rawTrials, Row(trial, own[p], FALSE))
  /\ UNCHANGED <<runManifest, environment, protocol, aggregate, lock, command, own, read>>

\* The row is whole and on disk.
AppendRest(p) ==
  /\ Goes(p, "appending", "running")
  /\ rawTrials' = [rawTrials EXCEPT ![Len(rawTrials)] = Row(rawTrials[Len(rawTrials)].trial, own[p], TRUE)]
  /\ read' = [read EXCEPT ![p] = Append(@, Row(rawTrials[Len(rawTrials)].trial, own[p], TRUE))]
  /\ UNCHANGED <<runManifest, environment, protocol, aggregate, lock, command, own>>

\* The end of _run_locked: the rows are counted once more, the lock is released, and the
\* executor is closed, which may fail like anything.
Finish(p) ==
  /\ place[p] = "running" /\ 1 .. Trials \subseteq Completed(p)
  /\ Readable(rawTrials)
  /\ place' = [place EXCEPT ![p] = IF Len(rawTrials) = Trials THEN "complete" ELSE "idle"]
  /\ Releases(p) /\ Forgets(p)
  /\ UNCHANGED <<runManifest, environment, protocol, aggregate, rawTrials, command, own>>

\* load_records and aggregate_run: of a complete run without the lock (_execute), of any
\* within it (_aggregate).
Summarize(p) ==
  /\ \/ Goes(p, "complete", "reporting")
     \/ command[p] = "aggregate" /\ Goes(p, "loading", "aggregating")
  /\ Readable(rawTrials) /\ Expected(rawTrials, own[p]) /\ Len(rawTrials) = Trials
  /\ read' = [read EXCEPT ![p] = rawTrials]
  /\ UNCHANGED <<runManifest, environment, protocol, aggregate, rawTrials, lock, command, own>>

\* write_aggregate_artifacts
Publish(p) ==
  /\ Goes(p, "reporting", "idle") \/ Goes(p, "aggregating", "idle")
  /\ aggregate' = {read[p]}
  /\ Releases(p) /\ Forgets(p)
  /\ UNCHANGED <<runManifest, environment, protocol, rawTrials, command, own>>

\* A command that fails, or that is killed: the system takes its lock from it.
Stop(p) ==
  /\ place[p] # "idle" /\ place' = [place EXCEPT ![p] = "idle"]
  /\ Releases(p) /\ Forgets(p)
  /\ UNCHANGED <<runManifest, environment, protocol, aggregate, rawTrials, command, own>>

Next ==
  \E p \in Processes :
    \/ Run(p) \/ Aggregate(p) \/ Lock(p)
    \/ InitializeManifest(p) \/ InitializeEnvironment(p) \/ InitializeProtocol(p)
    \/ Resume(p) \/ AppendPart(p) \/ AppendRest(p) \/ Finish(p) \/ Summarize(p) \/ Publish(p)
    \/ Stop(p)

Spec == Init /\ [][Next]_vars

----------------------------------------------------------------------------
Rows == [trial : 1 .. Trials, protocol : Protocols, environment : Environments, whole : BOOLEAN]

TypeOK ==
  /\ runManifest \subseteq Manifests /\ environment \subseteq Environments /\ protocol \subseteq Protocols
  /\ aggregate \subseteq Seq(Rows) /\ rawTrials \in Seq(Rows)
  /\ lock \subseteq Processes
  /\ place \in [Processes -> {"idle", "opening", "manifest", "environment", "protocol", "opened",
                             "loading", "running", "appending", "complete", "reporting", "aggregating"}]
  /\ command \in [Processes -> {"run", "aggregate"}]
  /\ DOMAIN own = Processes /\ \A p \in Processes : place[p] # "idle" => own[p] \in Manifests
  /\ read \in [Processes -> Seq(Rows)]

\* The rows are the trials of the schedule in their order, each once, whatever
\* processes raced or died; only the last can be torn, and they carry the identity of the
\* manifest they lie beside (RunRepository.append, BenchmarkRunner._run_locked).
RowsAreASchedule ==
  /\ Len(rawTrials) <= Trials
  /\ \A i \in DOMAIN rawTrials :
       /\ i < Len(rawTrials) => rawTrials[i].whole
       /\ \E m \in runManifest : rawTrials[i] = Row(i, m, rawTrials[i].whole)

\* The three files of a run are of one manifest, and rows have all of them beside them
\* (RunRepository.__init__).
FilesBelongTogether ==
  /\ Cardinality(runManifest) <= 1
  /\ \A e \in environment : \E m \in runManifest : e = m.environment
  /\ \A c \in protocol : \E m \in runManifest : c = m.protocol
  /\ rawTrials # <<>> => environment # {} /\ protocol # {}

Whole == Len(rawTrials) = Trials /\ \A i \in DOMAIN rawTrials : rawTrials[i].whole

\* A run that was called complete is whole, and an aggregate is of all its trials, also
\* when it was read without the lock (command._execute, write_aggregate_artifacts).
ReportsAreOfAllTrials ==
  /\ \A p \in Processes : place[p] \in {"complete", "reporting"} => Whole
  /\ \A rows \in aggregate : rows = rawTrials /\ Whole

\* What a run leaves behind is evidence: of one identity, in order, and whole when reported.
EvidenceHolds == RowsAreASchedule /\ FilesBelongTogether /\ ReportsAreOfAllTrials
=============================================================================
