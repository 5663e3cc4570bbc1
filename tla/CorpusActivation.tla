-------------------------- MODULE CorpusActivation --------------------------
(***************************************************************************)
(* The manifest root (ingestion/manifest.py): immutable run records and    *)
(* the one pointer to the corpus that is served; the commands that change  *)
(* it, activate (ingestion/reconcile.py), rollback, discard-record and     *)
(* discard-stores (scripts/manage_ingestion.py); the two stores of each    *)
(* corpus; and what a kill of a command or a loss of power leaves behind.  *)
(*                                                                         *)
(* A command is a process of its own: others run between any two of its    *)
(* changes to the root or to a store, and between a change and the check   *)
(* it rests on; load_active reads the pointer and its record in one step.  *)
(* The files are written by rename, so they are never seen half-written;   *)
(* a rename or an unlink is on the disk for certain once a directory has   *)
(* been synced, and the file system is taken to be journalled: it comes    *)
(* back in a state it was in since then.                                   *)
(***************************************************************************)
EXTENDS Naturals, FiniteSets

CONSTANTS
  Operators,   \* command processes
  Runs,        \* ingestion run ids
  Corpora,     \* corpus versions
  MaxFound     \* bound: how many states of the root may differ from the disk

Stores == {"vector", "graph"}

VARIABLES
  root,       \* the manifest root as processes see it
  mayFind,    \* the states of it that a loss of power may leave
  stored,     \* stored[s]: the corpora that store s holds, sealed
  cmd         \* cmd[o]: the command of process o and where it is

vars == <<root, mayFind, stored, cmd>>

\* IngestionManifest: the corpus, which of its stores were verified and
\* whether the run may be served.  Its digest stands for the whole record.
Manifests == [corpus : Corpora, vector : BOOLEAN, graph : BOOLEAN,
              status : {"active", "failed"}]

Absent == [status |-> "absent"]

\* ActiveCorpusPointer: the run and the digest of its manifest.
Pointers == [run : Runs, manifest : Manifests]

Roots == [runs : [Runs -> Manifests \cup {Absent}], active : Pointers \cup {Absent}]

EmptyRoot == [runs |-> [r \in Runs |-> Absent], active |-> Absent]

Idle == [at |-> "idle"]

\* A command: what it was asked to do, where it is, what it has read.
Commands ==
  [at : {"verify_vector", "verify_graph", "load", "record", "write", "sync_record", "switch",
         "sync_pointer", "check_record", "unlink", "check_stores", "drop_vector",
         "drop_graph", "reported"},
   op : {"activate", "rollback", "discard-record", "discard-stores"},
   run : Runs, manifest : Manifests]

TypeOK ==
  /\ root \in Roots
  /\ mayFind \subseteq Roots
  /\ stored \in [Stores -> SUBSET Corpora]
  /\ cmd \in [Operators -> Commands \cup {Idle}]

Init ==
  /\ root = EmptyRoot
  /\ mayFind = {EmptyRoot}
  /\ stored = [s \in Stores |-> {}]
  /\ cmd = [o \in Operators |-> Idle]

----------------------------------------------------------------------------
(* The file system.                                                         *)

Rewrite(new) ==
  /\ root' = new
  /\ mayFind' = mayFind \cup {new}
  /\ Cardinality(mayFind') <= MaxFound

Sync == mayFind' = {root} /\ UNCHANGED root

\* A sync that is left out.
NoSync == UNCHANGED <<root, mayFind>>

\* load_active: the pointer, when it agrees with the record it names.
Resolves(files) ==
  /\ files.active # Absent
  /\ files.runs[files.active.run] = files.active.manifest
  /\ files.active.manifest.status = "active"

\* load_active raises NOT_READY: there is no pointer, or no such record.
NotReady(files) ==
  \/ files.active = Absent
  \/ files.active # Absent /\ files.runs[files.active.run] = Absent

----------------------------------------------------------------------------
(* The commands.                                                            *)

\* A command goes on, or it ends: a switch with a report that it is active,
\* any other command, and every error, with nothing to remember.
Goes(o, where) == cmd' = [cmd EXCEPT ![o] = IF where = "end" THEN Idle ELSE [@ EXCEPT !.at = where]]

Begin(o, op, run, corpus, where) ==
  /\ cmd[o].at \in {"idle", "reported"}
  /\ cmd' = [cmd EXCEPT ![o] =
       [at |-> where, op |-> op, run |-> run,
        manifest |-> [corpus |-> corpus, vector |-> FALSE, graph |-> FALSE,
                      status |-> "failed"]]]
  /\ UNCHANGED <<root, mayFind, stored>>

Activate(o) == \E r \in Runs, c \in Corpora : Begin(o, "activate", r, c, "verify_vector")
Rollback(o) == \E r \in Runs, c \in Corpora : Begin(o, "rollback", r, c, "load")
DiscardRecord(o) ==
  \E r \in Runs, c \in Corpora : Begin(o, "discard-record", r, c, "check_record")
DiscardStores(o) ==
  \E r \in Runs, c \in Corpora : Begin(o, "discard-stores", r, c, "check_stores")

\* ActivationCoordinator.activate: each store is verified though the other has
\* failed.  A store that does not hold the corpus fails, and one that does may
\* be unreachable.
VerifyVector(o) ==
  /\ cmd[o].at = "verify_vector"
  /\ \E found \in BOOLEAN :
       /\ found => cmd[o].manifest.corpus \in stored["vector"]
       /\ cmd' = [cmd EXCEPT ![o].at = "verify_graph", ![o].manifest.vector = found]
  /\ UNCHANGED <<root, mayFind, stored>>

\* The verdict is that of the graph store.
VerifyGraphAlone(o) ==
  /\ cmd[o].at = "verify_graph"
  /\ \E found \in BOOLEAN :
       /\ found => cmd[o].manifest.corpus \in stored["graph"]
       /\ cmd' = [cmd EXCEPT ![o].at = "record", ![o].manifest.graph = found,
                             ![o].manifest.status = IF found THEN "active" ELSE "failed"]
  /\ UNCHANGED <<root, mayFind, stored>>

\* When both are there the manifests of the stages may still not reconcile.
VerifyGraph(o) ==
  /\ cmd[o].at = "verify_graph"
  /\ \E found \in BOOLEAN, status \in {"active", "failed"} :
       /\ found => cmd[o].manifest.corpus \in stored["graph"]
       /\ status = "active" => found /\ cmd[o].manifest.vector
       /\ cmd' = [cmd EXCEPT ![o].at = "record", ![o].manifest.graph = found,
                             ![o].manifest.status = status]
  /\ UNCHANGED <<root, mayFind, stored>>

\* ManifestRepository.rollback: load_run, which must be there and active.
Load(o) ==
  /\ cmd[o].at = "load"
  /\ LET found == root.runs[cmd[o].run]
     IN  IF found.status = "active"
         THEN cmd' = [cmd EXCEPT ![o].at = "record", ![o].manifest = found]
         ELSE Goes(o, "end")
  /\ UNCHANGED <<root, mayFind, stored>>

\* What follows record: an active manifest is switched to, a failed one is the
\* evidence of the error that is raised now.
AfterRecord(o) == IF cmd[o].manifest.status = "active" THEN "switch" ELSE "end"

\* record writes whatever it is given.
RecordOver(o) ==
  /\ cmd[o].at = "record"
  /\ Goes(o, "write")
  /\ UNCHANGED <<root, mayFind, stored>>

\* record: an existing record must be the same, and is then left as it is ...
Record(o) ==
  /\ cmd[o].at = "record"
  /\ LET existing == root.runs[cmd[o].run]
     IN  Goes(o, CASE existing = Absent            -> "write"
                   [] existing = cmd[o].manifest   -> AfterRecord(o)
                   [] existing \notin {Absent, cmd[o].manifest} -> "end")
  /\ UNCHANGED <<root, mayFind, stored>>

\* ... and a new one is renamed into its place, and synced.
Write(o) ==
  /\ cmd[o].at = "write"
  /\ Rewrite([root EXCEPT !.runs[cmd[o].run] = cmd[o].manifest])
  /\ Goes(o, "sync_record")
  /\ UNCHANGED stored

SyncRecord(o) ==
  /\ cmd[o].at = "sync_record"
  /\ Sync
  /\ Goes(o, AfterRecord(o))
  /\ UNCHANGED stored

\* activate replaces the pointer ...
Switch(o) ==
  /\ cmd[o].at = "switch"
  /\ Rewrite([root EXCEPT !.active = [run |-> cmd[o].run, manifest |-> cmd[o].manifest]])
  /\ Goes(o, "sync_pointer")
  /\ UNCHANGED stored

\* ... (and returns at once) ...
SwitchUnsynced(o) ==
  /\ cmd[o].at = "sync_pointer"
  /\ NoSync
  /\ Goes(o, "reported")
  /\ UNCHANGED stored

\* ... and returns it when it is on the disk.
SyncPointer(o) ==
  /\ cmd[o].at = "sync_pointer"
  /\ Sync
  /\ Goes(o, "reported")
  /\ UNCHANGED stored

\* Only a root that does not resolve keeps its record.
CheckRecordLoosely(o) ==
  /\ cmd[o].at = "check_record"
  /\ Goes(o, IF Resolves(root) \/ NotReady(root) THEN "unlink" ELSE "end")
  /\ UNCHANGED <<root, mayFind, stored>>

\* ManifestRepository.discard: not the run that is served ...
CheckRecord(o) ==
  /\ cmd[o].at = "check_record"
  /\ Goes(o, IF \/ NotReady(root)
                \/ Resolves(root) /\ root.active.run # cmd[o].run
             THEN "unlink" ELSE "end")
  /\ UNCHANGED <<root, mayFind, stored>>

\* ... whose record is unlinked, and nothing synced.
Unlink(o) ==
  /\ cmd[o].at = "unlink"
  /\ Rewrite([root EXCEPT !.runs[cmd[o].run] = Absent])
  /\ Goes(o, "end")
  /\ UNCHANGED stored

\* _discard_stores: not the corpus that is served ...
CheckStores(o) ==
  /\ cmd[o].at = "check_stores"
  /\ Goes(o, IF \/ NotReady(root)
                \/ Resolves(root) /\ root.active.manifest.corpus # cmd[o].manifest.corpus
             THEN "drop_vector" ELSE "end")
  /\ UNCHANGED <<root, mayFind, stored>>

\* ... which is discarded from one store after the other; an error of the
\* first leaves the second alone.
Drop(o, store, next) ==
  /\ \/ /\ stored' = [stored EXCEPT ![store] = @ \ {cmd[o].manifest.corpus}]
        /\ Goes(o, next)
     \/ Goes(o, "end") /\ UNCHANGED stored
  /\ UNCHANGED <<root, mayFind>>

DropVector(o) == cmd[o].at = "drop_vector" /\ Drop(o, "vector", "drop_graph")
DropGraph(o) == cmd[o].at = "drop_graph" /\ Drop(o, "graph", "end")

----------------------------------------------------------------------------
(* The surroundings.                                                        *)

\* An ingestion has staged and sealed a corpus in one of its stores.
Stage ==
  /\ \E s \in Stores, c \in Corpora : c \notin stored[s] /\ stored' = [stored EXCEPT ![s] = @ \cup {c}]
  /\ UNCHANGED <<root, mayFind, cmd>>

\* A command is killed where it is.
Kill(o) ==
  /\ cmd[o].at \notin {"idle", "reported"}
  /\ cmd' = [cmd EXCEPT ![o] = Idle]
  /\ UNCHANGED <<root, mayFind, stored>>

\* The host loses its power: all commands with it and what was not synced.
\* What a command had reported before stays reported.
PowerLoss ==
  /\ \E left \in mayFind : root' = left /\ mayFind' = {left}
  /\ cmd' = [o \in Operators |-> IF cmd[o].at = "reported" THEN cmd[o] ELSE Idle]
  /\ UNCHANGED stored

Next ==
  \/ \E o \in Operators : Activate(o)
  \/ \E o \in Operators : Rollback(o)
  \/ \E o \in Operators : DiscardRecord(o)
  \/ \E o \in Operators : DiscardStores(o)
  \/ \E o \in Operators : VerifyVector(o)
  \/ \E o \in Operators : VerifyGraph(o)
  \/ \E o \in Operators : Load(o)
  \/ \E o \in Operators : Record(o)
  \/ \E o \in Operators : Write(o)
  \/ \E o \in Operators : SyncRecord(o)
  \/ \E o \in Operators : Switch(o)
  \/ \E o \in Operators : SyncPointer(o)
  \/ \E o \in Operators : CheckRecord(o)
  \/ \E o \in Operators : Unlink(o)
  \/ \E o \in Operators : CheckStores(o)
  \/ \E o \in Operators : DropVector(o)
  \/ \E o \in Operators : DropGraph(o)
  \/ \E o \in Operators : Kill(o)
  \/ Stage
  \/ PowerLoss

Spec == Init /\ [][Next]_vars

----------------------------------------------------------------------------
\* The pointer always leads to the record it was made from, now and in every
\* state a loss of power may leave: a server that starts resolves a corpus or
\* finds that none was ever activated, and never a damaged root.
PointerResolves ==
  \A files \in mayFind \cup {root} : files.active # Absent => Resolves(files)

\* No command rewrites a run record: it is created, and perhaps discarded, also
\* when its run id is used again by an activation that turns out otherwise.
\* (A loss of power may bring back a state from before a discard.)
RecordsImmutable ==
  [][root' \notin mayFind =>
       \A r \in Runs : root.runs[r] = Absent \/ root'.runs[r] \in {root.runs[r], Absent}]_root

\* What a command has reported as active is on the disk: no loss of power
\* brings the corpus served before back.
ReportedIsDurable ==
  \A o \in Operators :
    cmd[o].at = "reported" =>
      \A files \in mayFind : files.active = [run |-> cmd[o].run, manifest |-> cmd[o].manifest]

\* An activation never switches to a corpus that one of the stores lacks
\* (README_EN.md: "Replace the active-corpus pointer only after successful
\* verification").
SwitchedToIsStored ==
  [][\A o \in Operators :
       cmd[o].at = "switch" /\ cmd[o].op = "activate" /\ cmd'[o].at = "sync_pointer" =>
         \A s \in Stores : root'.active.manifest.corpus \in stored[s]]_<<cmd, root>>

\* The same of every switch, a rollback too: the corpus that is served is in
\* both stores.
ServedIsStored ==
  root.active # Absent => \A s \in Stores : root.active.manifest.corpus \in stored[s]
=============================================================================
