--------------------------- MODULE StageContract ---------------------------
(***************************************************************************)
(* What a store promises of one corpus version to the commands that stage  *)
(* it, whatever order they run in and wherever they are killed: a version  *)
(* that a command has reported, at a moment when no other command was      *)
(* about to write it, is whole and stays as it is until it is discarded.   *)
(* Both QdrantVectorWriter and Neo4jGraphWriter are shown to keep this.    *)
(***************************************************************************)
CONSTANT Contents    \* what a version may be staged with

VARIABLES
  held,      \* the set of the content that the store holds whole, or of none
  settled    \* the set of the content that was reported, or of none

Init == held = {} /\ settled = {}

\* A command writes; what it leaves may be anything.
Work ==
  /\ settled = {}
  /\ held' \subseteq Contents
  /\ UNCHANGED settled

\* A command reports what the store holds, and reports it again.
Report ==
  /\ held # {}
  /\ settled' = held
  /\ UNCHANGED held

\* A step of a discard: nothing is promised any more.
Discard ==
  /\ settled' = {}
  /\ held' \subseteq Contents

Next == Work \/ Report \/ Discard

Spec == Init /\ [][Next]_<<held, settled>>
=============================================================================
