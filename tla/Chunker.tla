------------------------------- MODULE Chunker -------------------------------
(***************************************************************************)
(* The cutting of a document into overlapping windows of tokens            *)
(* (ingestion/chunker.py, chunk_document), one window a step.  A document  *)
(* is its tokens.  What decoding and normalising make of a window is not   *)
(* looked into: two windows may give the same text, and a window none.     *)
(***************************************************************************)
EXTENDS Integers, Sequences

CONSTANTS
  Documents,        \* sequences of tokens
  Text(_),          \* the normalised text of a sequence of tokens
  Empty,            \* the text without characters
  Configs           \* the configurations tried, of which the valid ones are used

VARIABLES
  document, size, overlap,   \* the arguments
  start, position,           \* the next window, and its ordinal
  windows,                   \* those that were looked at, as half-open ranges
  chunks,                    \* the chunks made of them
  done

vars == <<document, size, overlap, start, position, windows, chunks, done>>

\* ChunkerConfig
ConfigValid(config) ==
  config.size \in Nat \ {0} /\ config.overlap \in Nat /\ config.overlap < config.size

Count == Len(document)

Init ==
  /\ document \in Documents
  /\ \E config \in Configs : ConfigValid(config) /\ size = config.size /\ overlap = config.overlap
  /\ start = 0 /\ position = 0 /\ windows = {} /\ chunks = {}
  /\ done = (Text(document) = Empty \/ Count = 0)

\* How far the next window is; one that forgets the overlap.
StepWithoutOverlap == size

Step == size - overlap

End == IF start + size <= Count THEN start + size ELSE Count

TextOf(from, to) == Text(SubSeq(document, from + 1, to))

\* A window without text, or with that of an earlier one, is left out, and the ordinals of
\* the later ones do not move.
Kept(text) == text # Empty /\ \A c \in chunks : c.text # text

Window ==
  /\ ~done
  /\ windows' = windows \cup {<<start, End>>}
  /\ chunks' = IF Kept(TextOf(start, End))
               THEN chunks \cup {[position |-> position, text |-> TextOf(start, End),
                                  tokens |-> End - start]}
               ELSE chunks
  /\ start' = start + Step /\ position' = position + 1
  /\ done' = (End = Count \/ start + Step >= Count)
  /\ UNCHANGED <<document, size, overlap>>

Return == done /\ UNCHANGED vars

Next == Window \/ Return

Spec == Init /\ [][Next]_vars

----------------------------------------------------------------------------
\* A window is searched by its text: it has none, or there is a chunk with it.
Searched(w) == TextOf(w[1], w[2]) = Empty \/ \E c \in chunks : c.text = TextOf(w[1], w[2])

\* What the overlap is for: when chunk_document returns, every run of at most one token
\* more than the overlap lies whole in one window, whose text is that of some chunk though
\* duplicates are left out, so that no passage of that length is cut in all chunks.
PassagesKept ==
  done /\ Text(document) # Empty =>
    \A s \in 0 .. Count - 1, n \in 1 .. overlap + 1 :
      s + n <= Count => \E w \in windows : w[1] <= s /\ s + n <= w[2] /\ Searched(w)
=============================================================================
