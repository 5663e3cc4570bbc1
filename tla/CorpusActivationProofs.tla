----------------------- MODULE CorpusActivationProofs -----------------------
(***************************************************************************)
(* What the manifest root keeps while one command runs at a time, for any  *)
(* runs and corpora, with kills and losses of power anywhere: the pointer  *)
(* resolves, records are never rewritten, what was reported lasts, and a   *)
(* corpus that is activated is stored.  With two commands at a time the    *)
(* first of these is false (run discard_race).                             *)
(***************************************************************************)
EXTENDS CorpusActivation, TLAPS

\* What a command has read of the root, and what it did to it, is so still.
Knows(o) ==
  /\ cmd[o].at = "load" => cmd[o].op # "activate"
  /\ cmd[o].at = "write" => root.runs[cmd[o].run] = Absent
  /\ cmd[o].at \in {"sync_record", "switch"} => root.runs[cmd[o].run] = cmd[o].manifest
  /\ cmd[o].at \in {"switch", "sync_pointer"} => cmd[o].manifest.status = "active"
  /\ cmd[o].at = "sync_pointer" => root.active = [run |-> cmd[o].run, manifest |-> cmd[o].manifest]
  /\ cmd[o].at = "unlink" /\ root.active # Absent => root.active.run # cmd[o].run

\* What an activation has found in the stores is there still.
Found(o) ==
  cmd[o].at # "idle" /\ cmd[o].op = "activate" =>
    /\ cmd[o].at = "verify_graph" /\ cmd[o].manifest.vector => cmd[o].manifest.corpus \in stored["vector"]
    /\ /\ cmd[o].at \in {"record", "write", "sync_record", "switch"}
       /\ cmd[o].manifest.status = "active"
       => \A s \in Stores : cmd[o].manifest.corpus \in stored[s]

IInv ==
  /\ TypeOK
  /\ root \in mayFind
  /\ PointerResolves
  /\ ReportedIsDurable
  /\ \A o \in Operators : Knows(o) /\ Found(o)

----------------------------------------------------------------------------
(* Commands.                                                                *)

\* A command that is somewhere is a whole one.
LEMMA CommandAt ==
  ASSUME TypeOK, NEW o \in Operators, cmd[o].at # "idle"
  PROVE  cmd[o] \in Commands
  BY DEF TypeOK, Idle

\* Moving a command keeps what it was asked and what it has read.
LEMMA MovedCommand ==
  ASSUME NEW c \in Commands, NEW where, [c EXCEPT !.at = where] \in Commands
  PROVE  /\ [c EXCEPT !.at = where].at = where /\ [c EXCEPT !.at = where].op = c.op
         /\ [c EXCEPT !.at = where].run = c.run /\ [c EXCEPT !.at = where].manifest = c.manifest
  BY DEF Commands

LEMMA MovedIsCommand ==
  ASSUME NEW c \in Commands,
         NEW where \in {"record", "write", "sync_record", "switch", "sync_pointer", "unlink",
                        "drop_vector", "drop_graph", "reported"}
  PROVE  [c EXCEPT !.at = where] \in Commands
  BY DEF Commands

LEMMA IdleIs == Idle.at = "idle" /\ Idle \in Commands \cup {Idle}
  BY DEF Idle

\* Where a command goes, alone.
LEMMA GoneTo ==
  ASSUME TypeOK, NEW o \in Operators, cmd[o].at # "idle",
         NEW where \in {"record", "write", "sync_record", "switch", "sync_pointer", "unlink",
                        "drop_vector", "drop_graph", "reported", "end"},
         Goes(o, where)
  PROVE  /\ cmd' \in [Operators -> Commands \cup {Idle}]
         /\ \A p \in Operators : p # o => cmd'[p] = cmd[p]
         /\ where = "end" => cmd'[o] = Idle /\ cmd'[o].at = "idle"
         /\ where # "end" => /\ cmd'[o] \in Commands /\ cmd'[o].at = where /\ cmd'[o].op = cmd[o].op
                             /\ cmd'[o].run = cmd[o].run /\ cmd'[o].manifest = cmd[o].manifest
  <1>1. cmd[o] \in Commands
    BY CommandAt
  <1>2. CASE where = "end"
    <2>1. cmd' = [cmd EXCEPT ![o] = Idle]
      BY <1>2 DEF Goes
    <2> QED
      BY <1>2, <2>1, IdleIs DEF TypeOK
  <1>3. CASE where # "end"
    <2> DEFINE new == [cmd[o] EXCEPT !.at = where]
    <2>1. cmd' = [cmd EXCEPT ![o] = new]
      BY <1>3 DEF Goes
    <2>2. new \in Commands
      BY <1>1, <1>3, MovedIsCommand
    <2>3. new.at = where /\ new.op = cmd[o].op /\ new.run = cmd[o].run /\ new.manifest = cmd[o].manifest
      BY <1>1, <2>2, MovedCommand
    <2> HIDE DEF new
    <2>4. cmd'[o] = new /\ cmd' \in [Operators -> Commands \cup {Idle}]
      BY <2>1, <2>2 DEF TypeOK
    <2> QED
      BY <1>3, <2>1, <2>2, <2>3, <2>4 DEF TypeOK
  <1> QED
    BY <1>2, <1>3

LEMMA Fields ==
  ASSUME NEW c \in Commands
  PROVE  /\ c.run \in Runs /\ c.manifest \in Manifests /\ c.manifest.corpus \in Corpora
         /\ c.manifest \in Manifests \cup {Absent} /\ c.manifest # Absent
  BY DEF Commands, Manifests, Absent

\* One step of one command, seen from outside.
LEMMA OneCommand ==
  ASSUME TypeOK, NEW o \in Operators, NEW new \in Commands \cup {Idle}, cmd' = [cmd EXCEPT ![o] = new]
  PROVE  /\ cmd' \in [Operators -> Commands \cup {Idle}] /\ cmd'[o] = new
         /\ \A p \in Operators : p # o => cmd'[p] = cmd[p]
  BY DEF TypeOK

LEMMA Begun ==
  ASSUME TypeOK, NEW o \in Operators, NEW r \in Runs, NEW c \in Corpora,
         NEW op \in {"activate", "rollback", "discard-record", "discard-stores"},
         NEW where \in {"verify_vector", "load", "check_record", "check_stores"},
         Begin(o, op, r, c, where)
  PROVE  /\ cmd' \in [Operators -> Commands \cup {Idle}]
         /\ cmd'[o].at = where /\ cmd'[o].op = op
         /\ \A p \in Operators : p # o => cmd'[p] = cmd[p]
         /\ UNCHANGED <<root, mayFind, stored>>
  <1> DEFINE m == [corpus |-> c, vector |-> FALSE, graph |-> FALSE, status |-> "failed"]
             new == [at |-> where, op |-> op, run |-> r, manifest |-> m]
  <1>1. m \in Manifests
    BY DEF Manifests
  <1> HIDE DEF m
  <1>2. new \in Commands /\ new.at = where /\ new.op = op
    BY <1>1 DEF Commands
  <1>3. cmd' = [cmd EXCEPT ![o] = new] /\ UNCHANGED <<root, mayFind, stored>>
    BY DEF Begin, m
  <1> HIDE DEF new
  <1> QED
    BY <1>2, <1>3, OneCommand

----------------------------------------------------------------------------
(* Types, for any number of commands at a time.                             *)

LEMMA InitTypes == Init => TypeOK
  <1> SUFFICES ASSUME Init PROVE TypeOK
    OBVIOUS
  <1>1. EmptyRoot \in Roots
    BY DEF EmptyRoot, Roots, Absent
  <1> QED
    BY <1>1, IdleIs DEF Init, TypeOK

LEMMA BeginTypes ==
  ASSUME TypeOK, NEW o \in Operators,
         Activate(o) \/ Rollback(o) \/ DiscardRecord(o) \/ DiscardStores(o)
  PROVE  TypeOK'
  <1>1. PICK r \in Runs, c \in Corpora,
             op \in {"activate", "rollback", "discard-record", "discard-stores"},
             where \in {"verify_vector", "load", "check_record", "check_stores"} :
           Begin(o, op, r, c, where)
    BY DEF Activate, Rollback, DiscardRecord, DiscardStores
  <1>2. cmd' \in [Operators -> Commands \cup {Idle}] /\ UNCHANGED <<root, mayFind, stored>>
    BY <1>1, Begun
  <1> QED
    BY <1>2 DEF TypeOK

LEMMA VerifyVectorStep ==
  ASSUME TypeOK, NEW o \in Operators, VerifyVector(o)
  PROVE  /\ TypeOK' /\ UNCHANGED <<root, mayFind, stored>>
         /\ cmd[o] \in Commands /\ cmd'[o] \in Commands
         /\ cmd'[o].at = "verify_graph"
         /\ cmd'[o].manifest.vector => cmd'[o].manifest.corpus \in stored["vector"]
  <1>1. cmd[o] \in Commands
    BY CommandAt DEF VerifyVector
  <1>2. PICK found \in BOOLEAN :
          /\ found => cmd[o].manifest.corpus \in stored["vector"]
          /\ cmd' = [cmd EXCEPT ![o].at = "verify_graph", ![o].manifest.vector = found]
    BY DEF VerifyVector
  <1> DEFINE new == [cmd[o] EXCEPT !.at = "verify_graph", !.manifest.vector = found]
  <1>3. new = [cmd[o] EXCEPT !.at = "verify_graph", !.manifest.vector = found]
    OBVIOUS
  <1>4. cmd' = [cmd EXCEPT ![o] = new]
    BY <1>1, <1>2 DEF TypeOK
  <1> HIDE DEF new
  <1>5. /\ new \in Commands /\ new.at = "verify_graph" /\ new.manifest.vector = found
        /\ new.manifest.corpus = cmd[o].manifest.corpus
    BY <1>1, <1>3 DEF Commands, Manifests
  <1>6. cmd' \in [Operators -> Commands \cup {Idle}] /\ cmd'[o] = new
    BY <1>4, <1>5, OneCommand
  <1>7. TypeOK' /\ UNCHANGED <<root, mayFind, stored>>
    BY <1>6 DEF TypeOK, VerifyVector
  <1> QED
    BY <1>1, <1>2, <1>5, <1>6, <1>7

LEMMA VerifyGraphStep ==
  ASSUME TypeOK, NEW o \in Operators, VerifyGraph(o)
  PROVE  /\ TypeOK' /\ UNCHANGED <<root, mayFind, stored>>
         /\ cmd[o] \in Commands /\ cmd'[o] \in Commands
         /\ cmd'[o].at = "record" /\ cmd'[o].op = cmd[o].op
         /\ cmd'[o].manifest.corpus = cmd[o].manifest.corpus
         /\ cmd'[o].manifest.status = "active" =>
              cmd[o].manifest.vector /\ cmd[o].manifest.corpus \in stored["graph"]
  <1>1. cmd[o] \in Commands
    BY CommandAt DEF VerifyGraph
  <1>2. PICK found \in BOOLEAN, status \in {"active", "failed"} :
          /\ found => cmd[o].manifest.corpus \in stored["graph"]
          /\ status = "active" => found /\ cmd[o].manifest.vector
          /\ cmd' = [cmd EXCEPT ![o].at = "record", ![o].manifest.graph = found,
                                ![o].manifest.status = status]
    BY DEF VerifyGraph
  <1> DEFINE new == [cmd[o] EXCEPT !.at = "record", !.manifest.graph = found, !.manifest.status = status]
  <1>3. new = [cmd[o] EXCEPT !.at = "record", !.manifest.graph = found, !.manifest.status = status]
    OBVIOUS
  <1>4. cmd' = [cmd EXCEPT ![o] = new]
    BY <1>1, <1>2 DEF TypeOK
  <1> HIDE DEF new
  <1>5. /\ new \in Commands /\ new.at = "record" /\ new.op = cmd[o].op
        /\ new.manifest.status = status /\ new.manifest.corpus = cmd[o].manifest.corpus
    BY <1>1, <1>3 DEF Commands, Manifests
  <1>6. cmd' \in [Operators -> Commands \cup {Idle}] /\ cmd'[o] = new
    BY <1>4, <1>5, OneCommand
  <1>7. TypeOK' /\ UNCHANGED <<root, mayFind, stored>>
    BY <1>6 DEF TypeOK, VerifyGraph
  <1> QED
    BY <1>1, <1>2, <1>5, <1>6, <1>7

LEMMA LoadStep ==
  ASSUME TypeOK, NEW o \in Operators, Load(o)
  PROVE  /\ TypeOK' /\ UNCHANGED <<root, mayFind, stored>>
         /\ \/ cmd'[o].at = "idle"
            \/ /\ cmd[o] \in Commands /\ cmd'[o] \in Commands
               /\ cmd'[o].at = "record" /\ cmd'[o].op = cmd[o].op
  <1>1. cmd[o] \in Commands /\ cmd[o].at # "idle"
    BY CommandAt DEF Load
  <1> DEFINE found == root.runs[cmd[o].run]
             new == [cmd[o] EXCEPT !.at = "record", !.manifest = found]
  <1>2. found \in Manifests \cup {Absent} /\ Absent.status # "active"
    BY <1>1, Fields DEF TypeOK, Roots, Absent
  <1>3. UNCHANGED <<root, mayFind, stored>>
    BY DEF Load
  <1>4. CASE found.status = "active"
    <2>1. found \in Manifests
      BY <1>2, <1>4
    <2> HIDE DEF found
    <2>2. cmd' = [cmd EXCEPT ![o] = new]
      BY <1>1, <1>4 DEF TypeOK, Load, found
    <2>5. new = [cmd[o] EXCEPT !.at = "record", !.manifest = found]
      OBVIOUS
    <2> HIDE DEF new
    <2>3. new \in Commands /\ new.at = "record" /\ new.op = cmd[o].op
      BY <1>1, <2>1, <2>5 DEF Commands
    <2>4. cmd' \in [Operators -> Commands \cup {Idle}] /\ cmd'[o] = new
      BY <2>2, <2>3, OneCommand
    <2> QED
      BY <1>1, <1>3, <2>3, <2>4 DEF TypeOK
  <1>5. CASE found.status # "active"
    <2>1. Goes(o, "end")
      BY <1>5 DEF Load
    <2>2. cmd' \in [Operators -> Commands \cup {Idle}] /\ cmd'[o].at = "idle"
      BY <1>1, <2>1, GoneTo
    <2> QED
      BY <1>3, <2>2 DEF TypeOK
  <1> QED
    BY <1>4, <1>5

\* Steps that only move a command.
LEMMA OnlyMoves ==
  ASSUME TypeOK, NEW o \in Operators, Record(o) \/ CheckRecord(o) \/ CheckStores(o)
  PROVE  TypeOK' /\ UNCHANGED <<root, mayFind, stored>>
  <1>1. cmd[o].at # "idle" /\ UNCHANGED <<root, mayFind, stored>>
    BY DEF Record, CheckRecord, CheckStores
  <1>2. PICK where \in {"write", "switch", "unlink", "drop_vector", "end"} : Goes(o, where)
    <2>1. CASE Record(o)
      <3> DEFINE existing == root.runs[cmd[o].run]
      <3>1. AfterRecord(o) \in {"switch", "end"}
        BY DEF AfterRecord
      <3>2. existing = Absent \/ existing = cmd[o].manifest \/ existing \notin {Absent, cmd[o].manifest}
        OBVIOUS
      <3>3. CASE existing = Absent
        <4>1. cmd[o].manifest # Absent
          BY <1>1, CommandAt, Fields
        <4> QED
          BY <2>1, <3>3, <4>1 DEF Record
      <3>4. CASE existing # Absent /\ existing = cmd[o].manifest
        <4>1. Goes(o, AfterRecord(o))
          BY <2>1, <3>4 DEF Record
        <4> QED
          BY <3>1, <4>1
      <3>5. CASE existing \notin {Absent, cmd[o].manifest}
        BY <2>1, <3>5 DEF Record
      <3> QED
        BY <3>2, <3>3, <3>4, <3>5
    <2>2. CASE CheckRecord(o)
      BY <2>2 DEF CheckRecord
    <2>3. CASE CheckStores(o)
      BY <2>3 DEF CheckStores
    <2> QED
      BY <2>1, <2>2, <2>3
  <1>3. cmd' \in [Operators -> Commands \cup {Idle}]
    BY <1>1, <1>2, GoneTo
  <1> QED
    BY <1>1, <1>3 DEF TypeOK

\* Steps that change the root.
LEMMA WriteStep ==
  ASSUME TypeOK, NEW o \in Operators, Write(o)
  PROVE  /\ TypeOK' /\ UNCHANGED stored /\ mayFind' = mayFind \cup {root'}
         /\ cmd[o] \in Commands /\ cmd'[o].at = "sync_record" /\ cmd'[o].op = cmd[o].op
         /\ cmd'[o].run = cmd[o].run /\ cmd'[o].manifest = cmd[o].manifest
         /\ root'.runs[cmd[o].run] = cmd[o].manifest /\ root'.active = root.active
         /\ \A q \in Runs : q # cmd[o].run => root'.runs[q] = root.runs[q]
  <1>1. cmd[o] \in Commands /\ cmd[o].at # "idle" /\ Goes(o, "sync_record")
    BY CommandAt DEF Write
  <1>2. root' = [root EXCEPT !.runs[cmd[o].run] = cmd[o].manifest] /\ mayFind' = mayFind \cup {root'}
    BY DEF Write, Rewrite
  <1>3. cmd[o].run \in Runs /\ cmd[o].manifest \in Manifests
    BY <1>1, Fields
  <1>4. /\ root' \in Roots /\ root'.active = root.active
        /\ root'.runs[cmd[o].run] = cmd[o].manifest
        /\ \A q \in Runs : q # cmd[o].run => root'.runs[q] = root.runs[q]
    BY <1>2, <1>3 DEF TypeOK, Roots
  <1>5. /\ cmd' \in [Operators -> Commands \cup {Idle}]
        /\ cmd'[o].at = "sync_record" /\ cmd'[o].op = cmd[o].op
        /\ cmd'[o].run = cmd[o].run /\ cmd'[o].manifest = cmd[o].manifest
    BY <1>1, GoneTo
  <1>6. TypeOK' /\ UNCHANGED stored
    BY <1>2, <1>4, <1>5 DEF TypeOK, Write
  <1> QED
    BY <1>1, <1>2, <1>4, <1>5, <1>6

LEMMA SwitchStep ==
  ASSUME TypeOK, NEW o \in Operators, Switch(o)
  PROVE  /\ TypeOK' /\ UNCHANGED stored /\ mayFind' = mayFind \cup {root'}
         /\ cmd[o] \in Commands /\ cmd'[o].at = "sync_pointer" /\ cmd'[o].op = cmd[o].op
         /\ cmd'[o].run = cmd[o].run /\ cmd'[o].manifest = cmd[o].manifest
         /\ root'.runs = root.runs
         /\ root'.active = [run |-> cmd[o].run, manifest |-> cmd[o].manifest]
  <1>1. cmd[o] \in Commands /\ cmd[o].at # "idle" /\ Goes(o, "sync_pointer")
    BY CommandAt DEF Switch
  <1>2. /\ root' = [root EXCEPT !.active = [run |-> cmd[o].run, manifest |-> cmd[o].manifest]]
        /\ mayFind' = mayFind \cup {root'}
    BY DEF Switch, Rewrite
  <1>3. cmd[o].run \in Runs /\ cmd[o].manifest \in Manifests
    BY <1>1, Fields
  <1>4. /\ root' \in Roots /\ root'.runs = root.runs
        /\ root'.active = [run |-> cmd[o].run, manifest |-> cmd[o].manifest]
    BY <1>2, <1>3 DEF TypeOK, Roots, Pointers
  <1>5. /\ cmd' \in [Operators -> Commands \cup {Idle}]
        /\ cmd'[o].at = "sync_pointer" /\ cmd'[o].op = cmd[o].op
        /\ cmd'[o].run = cmd[o].run /\ cmd'[o].manifest = cmd[o].manifest
    BY <1>1, GoneTo
  <1>6. TypeOK' /\ UNCHANGED stored
    BY <1>2, <1>4, <1>5 DEF TypeOK, Switch
  <1> QED
    BY <1>1, <1>2, <1>4, <1>5, <1>6

LEMMA UnlinkStep ==
  ASSUME TypeOK, NEW o \in Operators, Unlink(o)
  PROVE  /\ TypeOK' /\ UNCHANGED stored /\ mayFind' = mayFind \cup {root'}
         /\ cmd[o] \in Commands /\ cmd'[o].at = "idle"
         /\ root'.runs[cmd[o].run] = Absent /\ root'.active = root.active
         /\ \A q \in Runs : q # cmd[o].run => root'.runs[q] = root.runs[q]
  <1>1. cmd[o] \in Commands /\ cmd[o].at # "idle" /\ Goes(o, "end")
    BY CommandAt DEF Unlink
  <1>2. root' = [root EXCEPT !.runs[cmd[o].run] = Absent] /\ mayFind' = mayFind \cup {root'}
    BY DEF Unlink, Rewrite
  <1>3. cmd[o].run \in Runs
    BY <1>1, Fields
  <1>4. /\ root' \in Roots /\ root'.active = root.active
        /\ root'.runs[cmd[o].run] = Absent
        /\ \A q \in Runs : q # cmd[o].run => root'.runs[q] = root.runs[q]
    BY <1>2, <1>3 DEF TypeOK, Roots
  <1>5. cmd' \in [Operators -> Commands \cup {Idle}] /\ cmd'[o].at = "idle"
    BY <1>1, GoneTo
  <1>6. TypeOK' /\ UNCHANGED stored
    BY <1>2, <1>4, <1>5 DEF TypeOK, Unlink
  <1> QED
    BY <1>1, <1>2, <1>4, <1>5, <1>6

LEMMA SyncStep ==
  ASSUME TypeOK, NEW o \in Operators, SyncRecord(o) \/ SyncPointer(o)
  PROVE  TypeOK' /\ UNCHANGED <<root, stored>> /\ mayFind' = {root}
  <1>1. cmd[o].at # "idle" /\ UNCHANGED <<root, stored>> /\ mayFind' = {root}
    BY DEF SyncRecord, SyncPointer, Sync
  <1>2. AfterRecord(o) \in {"switch", "end"}
    BY DEF AfterRecord
  <1>3. PICK where \in {"switch", "reported", "end"} : Goes(o, where)
    BY <1>2 DEF SyncRecord, SyncPointer
  <1>4. cmd' \in [Operators -> Commands \cup {Idle}]
    BY <1>1, <1>3, GoneTo
  <1> QED
    BY <1>1, <1>4 DEF TypeOK

LEMMA DropStep ==
  ASSUME TypeOK, NEW o \in Operators, DropVector(o) \/ DropGraph(o)
  PROVE  /\ TypeOK' /\ UNCHANGED <<root, mayFind>>
         /\ cmd[o] \in Commands /\ cmd'[o].at \in {"idle", "drop_graph"}
  <1>1. PICK store \in Stores, next \in {"drop_graph", "end"} : Drop(o, store, next)
    BY DEF DropVector, DropGraph, Stores
  <1>2. cmd[o] \in Commands /\ cmd[o].at # "idle" /\ UNCHANGED <<root, mayFind>>
    BY <1>1, CommandAt DEF DropVector, DropGraph, Drop
  <1>3. PICK where \in {"drop_graph", "end"} : Goes(o, where)
    BY <1>1 DEF Drop
  <1>4. cmd' \in [Operators -> Commands \cup {Idle}] /\ cmd'[o].at \in {"idle", "drop_graph"}
    BY <1>2, <1>3, GoneTo
  <1>5. stored' \in [Stores -> SUBSET Corpora]
    BY <1>1 DEF Drop, TypeOK
  <1> QED
    BY <1>2, <1>4, <1>5 DEF TypeOK

LEMMA StageStep ==
  ASSUME TypeOK, Stage
  PROVE  TypeOK' /\ UNCHANGED <<root, mayFind, cmd>> /\ \A s \in Stores : stored[s] \subseteq stored'[s]
  BY DEF Stage, TypeOK

LEMMA KillTypes ==
  ASSUME TypeOK, NEW o \in Operators, Kill(o)
  PROVE  TypeOK'
  BY IdleIs DEF Kill, TypeOK

LEMMA PowerLossTypes == ASSUME TypeOK, PowerLoss PROVE TypeOK'
  BY IdleIs DEF PowerLoss, TypeOK

LEMMA NextTypes == TypeOK /\ [Next]_vars => TypeOK'
  <1>1. ASSUME TypeOK, UNCHANGED vars PROVE TypeOK'
    BY <1>1 DEF TypeOK, vars
  <1>2. ASSUME TypeOK, NEW o \in Operators,
               \/ Activate(o) \/ Rollback(o) \/ DiscardRecord(o) \/ DiscardStores(o)
               \/ VerifyVector(o) \/ VerifyGraph(o) \/ Load(o) \/ Record(o) \/ Write(o) \/ SyncRecord(o)
               \/ Switch(o) \/ SyncPointer(o) \/ CheckRecord(o) \/ Unlink(o) \/ CheckStores(o)
               \/ DropVector(o) \/ DropGraph(o) \/ Kill(o)
        PROVE  TypeOK'
    BY <1>2, BeginTypes, VerifyVectorStep, VerifyGraphStep, LoadStep, OnlyMoves, WriteStep, SyncStep,
       SwitchStep, UnlinkStep, DropStep, KillTypes
  <1> QED
    BY <1>1, <1>2, StageStep, PowerLossTypes DEF Next

\* The variables have their types, however many commands overlap (IngestionManifest,
\* ActiveCorpusPointer, ManifestRepository).
THEOREM TypeCorrect == Spec => []TypeOK
  BY InitTypes, NextTypes, PTL DEF Spec

----------------------------------------------------------------------------
(* One command at a time.                                                   *)

OneAtATime == \A o, p \in Operators : o = p

LEMMA InitIInv == Init => IInv
  <1> SUFFICES ASSUME Init PROVE IInv
    OBVIOUS
  <1>1. TypeOK
    BY InitTypes
  <1>2. root.active = Absent /\ mayFind = {root} /\ \A o \in Operators : cmd[o].at = "idle"
    BY DEF Init, EmptyRoot, Idle
  <1> QED
    BY <1>1, <1>2 DEF IInv, PointerResolves, ReportedIsDurable, Knows, Found

\* A step that leaves the root alone keeps the invariant when the command that takes it
\* has nothing to forget.
LEMMA RootKept ==
  ASSUME OneAtATime, IInv, NEW o \in Operators, TypeOK', UNCHANGED <<root, mayFind>>,
         cmd'[o].at # "reported", Knows(o)', Found(o)'
  PROVE  IInv'
  <1>1. \A p \in Operators : p = o
    BY DEF OneAtATime
  <1>2. root' \in mayFind' /\ PointerResolves'
    BY DEF IInv, PointerResolves, Resolves
  <1>3. ReportedIsDurable'
    BY <1>1 DEF ReportedIsDurable
  <1>4. \A p \in Operators : Knows(p)' /\ Found(p)'
    BY <1>1
  <1> QED
    BY <1>2, <1>3, <1>4 DEF IInv

LEMMA BeginKeeps ==
  ASSUME OneAtATime, IInv, NEW o \in Operators,
         Activate(o) \/ Rollback(o) \/ DiscardRecord(o) \/ DiscardStores(o)
  PROVE  IInv'
  <1>1. TypeOK'
    BY BeginTypes DEF IInv
  <1>2. PICK r \in Runs, c \in Corpora,
             op \in {"activate", "rollback", "discard-record", "discard-stores"},
             where \in {"verify_vector", "load", "check_record", "check_stores"} :
           Begin(o, op, r, c, where) /\ (where = "load" => op # "activate")
    BY DEF Activate, Rollback, DiscardRecord, DiscardStores
  <1>3. cmd'[o].at = where /\ cmd'[o].op = op /\ UNCHANGED <<root, mayFind, stored>>
    BY <1>2, Begun DEF IInv
  <1>4. Knows(o)' /\ Found(o)' /\ cmd'[o].at # "reported"
    BY <1>2, <1>3 DEF Knows, Found
  <1> QED
    BY <1>1, <1>3, <1>4, RootKept

LEMMA VerifyVectorKeeps ==
  ASSUME OneAtATime, IInv, NEW o \in Operators, VerifyVector(o)
  PROVE  IInv'
  <1>1. /\ TypeOK' /\ UNCHANGED <<root, mayFind, stored>> /\ cmd'[o].at = "verify_graph"
        /\ cmd'[o].manifest.vector => cmd'[o].manifest.corpus \in stored["vector"]
    BY VerifyVectorStep DEF IInv
  <1>2. Knows(o)' /\ Found(o)' /\ cmd'[o].at # "reported"
    BY <1>1 DEF Knows, Found
  <1> QED
    BY <1>1, <1>2, RootKept

LEMMA VerifyGraphKeeps ==
  ASSUME OneAtATime, IInv, NEW o \in Operators, VerifyGraph(o)
  PROVE  IInv'
  <1>1. /\ TypeOK' /\ UNCHANGED <<root, mayFind, stored>>
        /\ cmd'[o].at = "record" /\ cmd'[o].op = cmd[o].op
        /\ cmd'[o].manifest.corpus = cmd[o].manifest.corpus
        /\ cmd'[o].manifest.status = "active" =>
             cmd[o].manifest.vector /\ cmd[o].manifest.corpus \in stored["graph"]
    BY VerifyGraphStep DEF IInv
  <1>2. cmd[o].at = "verify_graph" /\ Found(o)
    BY DEF VerifyGraph, IInv
  <1>3. Knows(o)' /\ cmd'[o].at # "reported"
    BY <1>1 DEF Knows
  <1>4. Found(o)'
    BY <1>1, <1>2 DEF Found, Stores
  <1> QED
    BY <1>1, <1>3, <1>4, RootKept

LEMMA LoadKeeps ==
  ASSUME OneAtATime, IInv, NEW o \in Operators, Load(o)
  PROVE  IInv'
  <1>0. cmd[o].op # "activate"
    BY DEF Load, IInv, Knows
  <1>1. TypeOK' /\ UNCHANGED <<root, mayFind, stored>>
    BY LoadStep DEF IInv
  <1>2. cmd'[o].at = "idle" \/ (cmd'[o].at = "record" /\ cmd'[o].op = cmd[o].op)
    BY LoadStep DEF IInv
  <1>3. Knows(o)' /\ Found(o)' /\ cmd'[o].at # "reported"
    BY <1>0, <1>2 DEF Knows, Found
  <1> QED
    BY <1>1, <1>3, RootKept

LEMMA RecordKeeps ==
  ASSUME OneAtATime, IInv, NEW o \in Operators, Record(o)
  PROVE  IInv'
  <1>1. TypeOK' /\ UNCHANGED <<root, mayFind, stored>>
    BY OnlyMoves DEF IInv
  <1>2. /\ TypeOK /\ cmd[o].at = "record" /\ cmd[o].at # "idle" /\ Found(o)
        /\ cmd[o].manifest # Absent
    BY CommandAt, Fields DEF Record, IInv
  <1> DEFINE existing == root.runs[cmd[o].run]
  <1>3. CASE existing = Absent
    <2>1. Goes(o, "write")
      BY <1>2, <1>3 DEF Record
    <2>2. /\ cmd'[o].at = "write" /\ cmd'[o].op = cmd[o].op
          /\ cmd'[o].run = cmd[o].run /\ cmd'[o].manifest = cmd[o].manifest
      BY <1>2, <2>1, GoneTo
    <2>3. Knows(o)'
      BY <1>1, <1>3, <2>2 DEF Knows
    <2>4. Found(o)'
      BY <1>1, <1>2, <2>2 DEF Found
    <2> QED
      BY <1>1, <2>2, <2>3, <2>4, RootKept
  <1>4. CASE existing = cmd[o].manifest /\ cmd[o].manifest.status = "active"
    <2>1. Goes(o, "switch")
      BY <1>2, <1>4 DEF Record, AfterRecord
    <2>2. /\ cmd'[o].at = "switch" /\ cmd'[o].op = cmd[o].op
          /\ cmd'[o].run = cmd[o].run /\ cmd'[o].manifest = cmd[o].manifest
      BY <1>2, <2>1, GoneTo
    <2>3. Knows(o)'
      BY <1>1, <1>4, <2>2 DEF Knows
    <2>4. Found(o)'
      BY <1>1, <1>2, <2>2 DEF Found
    <2> QED
      BY <1>1, <2>2, <2>3, <2>4, RootKept
  <1>5. CASE \/ existing \notin {Absent, cmd[o].manifest}
             \/ existing = cmd[o].manifest /\ cmd[o].manifest.status # "active"
    <2>1. Goes(o, "end")
      BY <1>2, <1>5 DEF Record, AfterRecord
    <2>2. cmd'[o].at = "idle"
      BY <1>2, <2>1, GoneTo
    <2>3. Knows(o)' /\ Found(o)'
      BY <2>2 DEF Knows, Found
    <2> QED
      BY <1>1, <2>2, <2>3, RootKept
  <1> QED
    BY <1>3, <1>4, <1>5

\* A pointer that resolves is neither missing nor without its record.
LEMMA CheckRecordKeeps ==
  ASSUME OneAtATime, IInv, NEW o \in Operators, CheckRecord(o)
  PROVE  IInv'
  <1>1. TypeOK' /\ UNCHANGED <<root, mayFind, stored>>
    BY OnlyMoves DEF IInv
  <1>2. TypeOK /\ cmd[o].at # "idle" /\ (root.active # Absent => Resolves(root))
    BY DEF CheckRecord, IInv, PointerResolves
  <1>3. CASE NotReady(root) \/ (Resolves(root) /\ root.active.run # cmd[o].run)
    <2>1. Goes(o, "unlink")
      BY <1>3 DEF CheckRecord
    <2>2. cmd'[o].at = "unlink" /\ cmd'[o].run = cmd[o].run
      BY <1>2, <2>1, GoneTo
    <2>3. root.active # Absent => root.active.run # cmd[o].run
      <3> SUFFICES ASSUME root.active # Absent, NotReady(root) PROVE FALSE
        BY <1>3
      <3>1. root.runs[root.active.run] = Absent /\ root.runs[root.active.run] = root.active.manifest
        BY <1>2 DEF NotReady, Resolves
      <3>2. root.active.manifest.status = "active" /\ Absent.status = "absent"
        BY <1>2 DEF Resolves, Absent
      <3> QED
        BY <3>1, <3>2
    <2>4. Knows(o)' /\ Found(o)'
      BY <1>1, <2>2, <2>3 DEF Knows, Found
    <2> QED
      BY <1>1, <2>2, <2>4, RootKept
  <1>4. CASE ~(NotReady(root) \/ (Resolves(root) /\ root.active.run # cmd[o].run))
    <2>1. Goes(o, "end")
      BY <1>4 DEF CheckRecord
    <2>2. cmd'[o].at = "idle"
      BY <1>2, <2>1, GoneTo
    <2> QED
      BY <1>1, <2>2, RootKept DEF Knows, Found
  <1> QED
    BY <1>3, <1>4

LEMMA CheckStoresKeeps ==
  ASSUME OneAtATime, IInv, NEW o \in Operators, CheckStores(o)
  PROVE  IInv'
  <1>1. TypeOK' /\ UNCHANGED <<root, mayFind, stored>>
    BY OnlyMoves DEF IInv
  <1>2. TypeOK /\ cmd[o].at # "idle"
    BY DEF CheckStores, IInv
  <1>3. PICK where \in {"drop_vector", "end"} : Goes(o, where)
    BY DEF CheckStores
  <1>4. cmd'[o].at \in {"drop_vector", "idle"}
    BY <1>2, <1>3, GoneTo
  <1> QED
    BY <1>1, <1>4, RootKept DEF Knows, Found

LEMMA DropKeeps ==
  ASSUME OneAtATime, IInv, NEW o \in Operators, DropVector(o) \/ DropGraph(o)
  PROVE  IInv'
  <1>1. TypeOK' /\ UNCHANGED <<root, mayFind>> /\ cmd'[o].at \in {"idle", "drop_graph"}
    BY DropStep DEF IInv
  <1>2. Knows(o)' /\ Found(o)' /\ cmd'[o].at # "reported"
    BY <1>1 DEF Knows, Found
  <1> QED
    BY <1>1, <1>2, RootKept

LEMMA KillKeeps ==
  ASSUME OneAtATime, IInv, NEW o \in Operators, Kill(o)
  PROVE  IInv'
  <1>1. TypeOK' /\ UNCHANGED <<root, mayFind>>
    BY KillTypes DEF IInv, Kill
  <1>2. cmd'[o].at = "idle"
    BY IdleIs DEF Kill, IInv, TypeOK
  <1> QED
    BY <1>1, <1>2, RootKept DEF Knows, Found

\* A step that grows the set of roots a loss of power may leave by one that resolves.
LEMMA RootGrows ==
  ASSUME OneAtATime, IInv, NEW o \in Operators, TypeOK', mayFind' = mayFind \cup {root'},
         root'.active # Absent => Resolves(root'),
         cmd'[o].at # "reported", Knows(o)', Found(o)'
  PROVE  IInv'
  <1>1. \A p \in Operators : p = o
    BY DEF OneAtATime
  <1>2. root' \in mayFind' /\ PointerResolves'
    BY DEF IInv, PointerResolves
  <1>3. ReportedIsDurable'
    BY <1>1 DEF ReportedIsDurable
  <1>4. \A p \in Operators : Knows(p)' /\ Found(p)'
    BY <1>1
  <1> QED
    BY <1>2, <1>3, <1>4 DEF IInv

LEMMA WriteKeeps ==
  ASSUME OneAtATime, IInv, NEW o \in Operators, Write(o)
  PROVE  IInv'
  <1>1. /\ TypeOK' /\ UNCHANGED stored /\ mayFind' = mayFind \cup {root'}
        /\ cmd[o] \in Commands /\ cmd'[o].at = "sync_record" /\ cmd'[o].op = cmd[o].op
        /\ cmd'[o].run = cmd[o].run /\ cmd'[o].manifest = cmd[o].manifest
        /\ root'.runs[cmd[o].run] = cmd[o].manifest /\ root'.active = root.active
        /\ \A q \in Runs : q # cmd[o].run => root'.runs[q] = root.runs[q]
    BY WriteStep DEF IInv
  <1>2. cmd[o].at = "write" /\ root.runs[cmd[o].run] = Absent /\ Found(o)
    BY DEF Write, IInv, Knows
  <1>3. ASSUME root'.active # Absent PROVE Resolves(root')
    <2>1. Resolves(root) /\ root.active = root'.active
      BY <1>1, <1>3 DEF IInv, PointerResolves
    <2>2. root.active.run # cmd[o].run
      BY <1>2, <2>1 DEF Resolves, Absent
    <2>3. root.active.run \in Runs
      BY <2>1 DEF IInv, TypeOK, Roots, Pointers, Resolves
    <2> QED
      BY <1>1, <2>1, <2>2, <2>3 DEF Resolves
  <1>4. Knows(o)'
    BY <1>1 DEF Knows
  <1>5. Found(o)'
    BY <1>1, <1>2 DEF Found
  <1> QED
    BY <1>1, <1>3, <1>4, <1>5, RootGrows

LEMMA SwitchKeeps ==
  ASSUME OneAtATime, IInv, NEW o \in Operators, Switch(o)
  PROVE  IInv'
  <1>1. /\ TypeOK' /\ mayFind' = mayFind \cup {root'}
        /\ cmd'[o].at = "sync_pointer"
        /\ cmd'[o].run = cmd[o].run /\ cmd'[o].manifest = cmd[o].manifest
        /\ root'.runs = root.runs
        /\ root'.active = [run |-> cmd[o].run, manifest |-> cmd[o].manifest]
    BY SwitchStep DEF IInv
  <1>2. root.runs[cmd[o].run] = cmd[o].manifest /\ cmd[o].manifest.status = "active"
    BY DEF Switch, IInv, Knows
  <1>3. root'.active # Absent => Resolves(root')
    BY <1>1, <1>2 DEF Resolves
  <1>4. Knows(o)' /\ Found(o)'
    BY <1>1, <1>2 DEF Knows, Found
  <1> QED
    BY <1>1, <1>3, <1>4, RootGrows

LEMMA UnlinkKeeps ==
  ASSUME OneAtATime, IInv, NEW o \in Operators, Unlink(o)
  PROVE  IInv'
  <1>1. /\ TypeOK' /\ mayFind' = mayFind \cup {root'} /\ cmd'[o].at = "idle"
        /\ root'.active = root.active
        /\ \A q \in Runs : q # cmd[o].run => root'.runs[q] = root.runs[q]
    BY UnlinkStep DEF IInv
  <1>2. ASSUME root'.active # Absent PROVE Resolves(root')
    <2>1. Resolves(root) /\ root.active.run # cmd[o].run
      BY <1>1, <1>2 DEF IInv, PointerResolves, Knows, Unlink
    <2>2. root.active.run \in Runs
      BY <2>1 DEF IInv, TypeOK, Roots, Pointers, Resolves
    <2> QED
      BY <1>1, <2>1, <2>2 DEF Resolves
  <1>3. Knows(o)' /\ Found(o)' /\ cmd'[o].at # "reported"
    BY <1>1 DEF Knows, Found
  <1> QED
    BY <1>1, <1>2, <1>3, RootGrows

LEMMA SyncRecordKeeps ==
  ASSUME OneAtATime, IInv, NEW o \in Operators, SyncRecord(o)
  PROVE  IInv'
  <1>1. TypeOK' /\ UNCHANGED <<root, stored>> /\ mayFind' = {root}
    BY SyncStep DEF IInv
  <1>2. /\ TypeOK /\ cmd[o].at = "sync_record" /\ cmd[o].at # "idle" /\ Found(o)
        /\ root.runs[cmd[o].run] = cmd[o].manifest
    BY DEF SyncRecord, IInv, Knows
  <1>3. \A p \in Operators : p = o
    BY DEF OneAtATime
  <1>4. cmd'[o].at # "reported" /\ Knows(o)' /\ Found(o)'
    <2>1. CASE cmd[o].manifest.status = "active"
      <3>1. Goes(o, "switch")
        BY <2>1 DEF SyncRecord, AfterRecord
      <3>2. /\ cmd'[o].at = "switch" /\ cmd'[o].op = cmd[o].op
            /\ cmd'[o].run = cmd[o].run /\ cmd'[o].manifest = cmd[o].manifest
        BY <1>2, <3>1, GoneTo
      <3>3. Knows(o)'
        BY <1>1, <1>2, <2>1, <3>2 DEF Knows
      <3>4. Found(o)'
        BY <1>1, <1>2, <3>2 DEF Found
      <3> QED
        BY <3>2, <3>3, <3>4
    <2>2. CASE cmd[o].manifest.status # "active"
      <3>1. Goes(o, "end")
        BY <2>2 DEF SyncRecord, AfterRecord
      <3>2. cmd'[o].at = "idle"
        BY <1>2, <3>1, GoneTo
      <3> QED
        BY <3>2 DEF Knows, Found
    <2> QED
      BY <2>1, <2>2
  <1>5. root' \in mayFind' /\ PointerResolves'
    BY <1>1 DEF IInv, PointerResolves, Resolves
  <1>6. ReportedIsDurable'
    BY <1>3, <1>4 DEF ReportedIsDurable
  <1> QED
    BY <1>1, <1>3, <1>4, <1>5, <1>6 DEF IInv

\* What is reported is the pointer as it is on the disk.
LEMMA SyncPointerKeeps ==
  ASSUME OneAtATime, IInv, NEW o \in Operators, SyncPointer(o)
  PROVE  IInv'
  <1>1. TypeOK' /\ UNCHANGED <<root, stored>> /\ mayFind' = {root}
    BY SyncStep DEF IInv
  <1>2. /\ TypeOK /\ cmd[o].at # "idle" /\ Goes(o, "reported")
        /\ root.active = [run |-> cmd[o].run, manifest |-> cmd[o].manifest]
    BY DEF SyncPointer, IInv, Knows
  <1>3. cmd'[o].at = "reported" /\ cmd'[o].run = cmd[o].run /\ cmd'[o].manifest = cmd[o].manifest
    BY <1>2, GoneTo
  <1>4. \A p \in Operators : p = o
    BY DEF OneAtATime
  <1>5. root' \in mayFind' /\ PointerResolves'
    BY <1>1 DEF IInv, PointerResolves, Resolves
  <1>6. ReportedIsDurable'
    BY <1>1, <1>2, <1>3, <1>4 DEF ReportedIsDurable
  <1>7. Knows(o)' /\ Found(o)'
    BY <1>3 DEF Knows, Found
  <1> QED
    BY <1>1, <1>4, <1>5, <1>6, <1>7 DEF IInv

LEMMA StageKeeps == ASSUME IInv, Stage PROVE IInv'
  <1>1. TypeOK' /\ UNCHANGED <<root, mayFind, cmd>> /\ \A s \in Stores : stored[s] \subseteq stored'[s]
    BY StageStep DEF IInv
  <1>2. root' \in mayFind' /\ PointerResolves' /\ ReportedIsDurable'
    BY <1>1 DEF IInv, PointerResolves, Resolves, ReportedIsDurable
  <1>3. ASSUME NEW o \in Operators PROVE Knows(o)' /\ Found(o)'
    <2>1. Knows(o) /\ Found(o) /\ "vector" \in Stores
      BY DEF IInv, Stores
    <2>2. Knows(o)'
      BY <1>1, <2>1 DEF Knows
    <2>3. Found(o)'
      BY <1>1, <2>1 DEF Found
    <2> QED
      BY <2>2, <2>3
  <1> QED
    BY <1>1, <1>2, <1>3 DEF IInv

\* Whatever state the disk comes back in, nothing but a report is remembered.
LEMMA PowerLossKeeps == ASSUME IInv, PowerLoss PROVE IInv'
  <1>1. TypeOK'
    BY PowerLossTypes DEF IInv
  <1>2. PICK left \in mayFind : root' = left /\ mayFind' = {left}
    BY DEF PowerLoss
  <1>3. \A o \in Operators : /\ cmd'[o].at \in {"idle", "reported"}
                             /\ cmd'[o].at = "reported" => cmd'[o] = cmd[o]
    BY IdleIs DEF PowerLoss
  <1>4. root' \in mayFind' /\ PointerResolves'
    BY <1>2 DEF IInv, PointerResolves, Resolves
  <1>5. ReportedIsDurable'
    BY <1>2, <1>3 DEF IInv, ReportedIsDurable
  <1>6. \A o \in Operators : Knows(o)' /\ Found(o)'
    BY <1>3 DEF Knows, Found
  <1> QED
    BY <1>1, <1>4, <1>5, <1>6 DEF IInv

LEMMA NextKeeps == OneAtATime /\ IInv /\ [Next]_vars => IInv'
  <1>1. ASSUME IInv, UNCHANGED vars PROVE IInv'
    BY <1>1 DEF vars, IInv, TypeOK, PointerResolves, Resolves, ReportedIsDurable, Knows, Found
  <1>2. ASSUME OneAtATime, IInv, NEW o \in Operators,
               \/ Activate(o) \/ Rollback(o) \/ DiscardRecord(o) \/ DiscardStores(o)
               \/ VerifyVector(o) \/ VerifyGraph(o) \/ Load(o) \/ Record(o) \/ Write(o) \/ SyncRecord(o)
               \/ Switch(o) \/ SyncPointer(o) \/ CheckRecord(o) \/ Unlink(o) \/ CheckStores(o)
               \/ DropVector(o) \/ DropGraph(o) \/ Kill(o)
        PROVE  IInv'
    BY <1>2, BeginKeeps, VerifyVectorKeeps, VerifyGraphKeeps, LoadKeeps, RecordKeeps, WriteKeeps,
       SyncRecordKeeps, SwitchKeeps, SyncPointerKeeps, CheckRecordKeeps, UnlinkKeeps, CheckStoresKeeps,
       DropKeeps, KillKeeps
  <1> QED
    BY <1>1, <1>2, StageKeeps, PowerLossKeeps DEF Next

LEMMA IInvInductive == ASSUME OneAtATime PROVE Spec => []IInv
  BY InitIInv, NextKeeps, PTL DEF Spec

----------------------------------------------------------------------------
\* With one command at a time the pointer leads to its record whatever is killed and
\* whenever the power goes (ManifestRepository.load_active).
THEOREM PointerAlwaysResolves ==
  ASSUME OneAtATime
  PROVE  Spec => []PointerResolves
  <1>1. IInv => PointerResolves
    BY DEF IInv
  <1> QED
    BY <1>1, IInvInductive, PTL

\* What one command at a time reports as active survives a loss of power
\* (ManifestRepository.activate returns after its directory is synced).
THEOREM ReportsLast ==
  ASSUME OneAtATime
  PROVE  Spec => []ReportedIsDurable
  <1>1. IInv => ReportedIsDurable
    BY DEF IInv
  <1> QED
    BY <1>1, IInvInductive, PTL

\* A change of the root that a loss of power does not bring is a command's.
LEMMA ChangesOfRoot ==
  ASSUME IInv, [Next]_vars, root' \notin mayFind
  PROVE  \E o \in Operators : Write(o) \/ Switch(o) \/ Unlink(o)
  <1>1. root' # root
    BY DEF IInv
  <1>2. ~ PowerLoss
    BY DEF PowerLoss
  <1>3. ASSUME NEW o \in Operators,
               \/ Activate(o) \/ Rollback(o) \/ DiscardRecord(o) \/ DiscardStores(o)
        PROVE  root' = root
    BY <1>3 DEF Activate, Rollback, DiscardRecord, DiscardStores, Begin
  <1>4. ASSUME NEW o \in Operators,
               \/ VerifyVector(o) \/ VerifyGraph(o) \/ Load(o) \/ Record(o) \/ SyncRecord(o)
               \/ SyncPointer(o) \/ CheckRecord(o) \/ CheckStores(o) \/ DropVector(o)
               \/ DropGraph(o) \/ Kill(o)
        PROVE  root' = root
    BY <1>4 DEF VerifyVector, VerifyGraph, Load, Record, SyncRecord, Sync, SyncPointer, CheckRecord,
       CheckStores, DropVector, DropGraph, Drop, Kill
  <1>5. Stage => root' = root
    BY DEF Stage
  <1>6. Next
    BY <1>1 DEF vars
  <1> QED
    BY <1>1, <1>2, <1>3, <1>4, <1>5, <1>6 DEF Next

\* With one command at a time a run record is created once and never rewritten
\* (ManifestRepository.record).
THEOREM RecordsNeverRewritten ==
  ASSUME OneAtATime
  PROVE  Spec => RecordsImmutable
  <1>1. ASSUME IInv, [Next]_vars, root' \notin mayFind, NEW r \in Runs
        PROVE  root.runs[r] = Absent \/ root'.runs[r] \in {root.runs[r], Absent}
    <2>1. PICK o \in Operators : Write(o) \/ Switch(o) \/ Unlink(o)
      BY <1>1, ChangesOfRoot
    <2>2. CASE Write(o)
      <3>1. root.runs[cmd[o].run] = Absent
        BY <1>1, <2>2 DEF Write, IInv, Knows
      <3>2. \A q \in Runs : q # cmd[o].run => root'.runs[q] = root.runs[q]
        BY <1>1, <2>2, WriteStep DEF IInv
      <3> QED
        BY <3>1, <3>2
    <2>3. CASE Switch(o)
      <3>1. root'.runs = root.runs
        BY <1>1, <2>3, SwitchStep DEF IInv
      <3> QED
        BY <3>1
    <2>4. CASE Unlink(o)
      <3>1. /\ root'.runs[cmd[o].run] = Absent
            /\ \A q \in Runs : q # cmd[o].run => root'.runs[q] = root.runs[q]
        BY <1>1, <2>4, UnlinkStep DEF IInv
      <3> QED
        BY <3>1
    <2> QED
      BY <2>1, <2>2, <2>3, <2>4
  <1>2. IInv /\ [Next]_vars =>
          [root' \notin mayFind =>
             \A r \in Runs : root.runs[r] = Absent \/ root'.runs[r] \in {root.runs[r], Absent}]_root
    BY <1>1
  <1> QED
    BY <1>2, IInvInductive, PTL DEF Spec, RecordsImmutable

\* A command that is past "switch" has switched.
LEMMA SwitchesOnly ==
  ASSUME OneAtATime, IInv, [Next]_vars, NEW o \in Operators,
         cmd[o].at = "switch", cmd'[o].at = "sync_pointer"
  PROVE  Switch(o)
  <1>1. \A p \in Operators : p = o
    BY DEF OneAtATime
  <1>2. ~ UNCHANGED vars
    BY DEF vars
  <1>3. ~ Stage
    BY DEF Stage
  <1>4. ~ PowerLoss
    BY IdleIs DEF PowerLoss
  <1>5. ~ Kill(o)
    BY IdleIs DEF Kill, IInv, TypeOK
  <1>6. ~ (Activate(o) \/ Rollback(o) \/ DiscardRecord(o) \/ DiscardStores(o))
    BY DEF Activate, Rollback, DiscardRecord, DiscardStores, Begin
  <1>7. ~ (\/ VerifyVector(o) \/ VerifyGraph(o) \/ Load(o) \/ Record(o) \/ Write(o) \/ SyncRecord(o)
           \/ SyncPointer(o) \/ CheckRecord(o) \/ Unlink(o) \/ CheckStores(o)
           \/ DropVector(o) \/ DropGraph(o))
    BY DEF VerifyVector, VerifyGraph, Load, Record, Write, SyncRecord, SyncPointer, CheckRecord,
       Unlink, CheckStores, DropVector, DropGraph
  <1>8. Next
    BY <1>2
  <1> QED
    BY <1>1, <1>3, <1>4, <1>5, <1>6, <1>7, <1>8 DEF Next

\* With one command at a time no activation switches to a corpus that a store lacks
\* (ActivationCoordinator.activate).
THEOREM ActivatedIsStored ==
  ASSUME OneAtATime
  PROVE  Spec => SwitchedToIsStored
  <1>1. ASSUME IInv, [Next]_vars, NEW o \in Operators,
               cmd[o].at = "switch", cmd[o].op = "activate", cmd'[o].at = "sync_pointer",
               NEW s \in Stores
        PROVE  root'.active.manifest.corpus \in stored[s]
    <2>1. Switch(o)
      BY <1>1, SwitchesOnly
    <2>2. root'.active.manifest = cmd[o].manifest
      <3>1. TypeOK
        BY <1>1 DEF IInv
      <3>2. root'.active = [run |-> cmd[o].run, manifest |-> cmd[o].manifest]
        BY <2>1, <3>1, SwitchStep
      <3> QED
        BY <3>2
    <2>3. Knows(o) /\ Found(o) /\ cmd[o].at \notin {"idle", "verify_graph"}
      BY <1>1 DEF IInv
    <2>4. cmd[o].manifest.corpus \in stored[s]
      BY <1>1, <2>3 DEF Knows, Found
    <2> QED
      BY <2>2, <2>4
  <1>2. IInv /\ [Next]_vars =>
          [\A o \in Operators :
             cmd[o].at = "switch" /\ cmd[o].op = "activate" /\ cmd'[o].at = "sync_pointer" =>
               \A s \in Stores : root'.active.manifest.corpus \in stored[s]]_<<cmd, root>>
    BY <1>1
  <1> QED
    BY <1>2, IInvInductive, PTL DEF Spec, SwitchedToIsStored
=============================================================================
