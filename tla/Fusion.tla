------------------------------- MODULE Fusion -------------------------------
(***************************************************************************)
(* The fusion of the two branches' lists by weighted reciprocal ranks      *)
(* (retrieval/fusion.py: weighted_rrf_v1), for plans with both branches    *)
(* (core/engine.py: _rank_execution).                                      *)
(*                                                                         *)
(* A hit is a chunk and its text, which stands for its document and its    *)
(* shared metadata as well.  A chunk is a number, in the order of the      *)
(* canonical ids.  The weight of the vector branch is a part of Whole,     *)
(* that of the graph branch the rest, and a score is a fraction: the       *)
(* rounding of floats is left out.                                         *)
(***************************************************************************)
EXTENDS Integers, Sequences, FiniteSets

CONSTANTS
  Hits,            \* hits, with a chunk and a text
  BranchAnswers,   \* what a branch may answer
  Weights, Whole,  \* weights of the vector branch
  TopKs            \* numbers of results a request may ask for

VARIABLES
  branches,        \* the answers of the two branches, the plan's weight, the request's top_k
  fused            \* the fused hits with their trace

vars == <<branches, fused>>

RRF_K == 60

Init ==
  /\ branches \in [vector : BranchAnswers, graph : BranchAnswers, weight : Weights, topK : TopKs]
  /\ branches.vector.available \/ branches.graph.available
  /\ fused = [at |-> "branches", hits |-> <<>>, duplicates |-> 0]

----------------------------------------------------------------------------
Vector == branches.vector.hits
Graph == branches.graph.hits

ChunksOf(hits) == {hits[i].chunk : i \in DOMAIN hits}

\* _rank_of, and the hit with that rank.
RankOf(hits, chunk) == CHOOSE i \in DOMAIN hits : hits[i].chunk = chunk
HitOf(hits, chunk) == hits[RankOf(hits, chunk)]

\* _index_branch: no chunk twice.
Indexed(hits) == \A i, j \in DOMAIN hits : hits[i].chunk = hits[j].chunk => i = j

\* _require_consistent_evidence.
Consistent ==
  \A chunk \in ChunksOf(Vector) \cap ChunksOf(Graph) :
    HitOf(Vector, chunk).text = HitOf(Graph, chunk).text

\* _contribution: weight / (RRF_K + rank).
Contribution(hits, weight, chunk) ==
  IF chunk \in ChunksOf(hits) THEN [num |-> weight, den |-> RRF_K + RankOf(hits, chunk)]
                              ELSE [num |-> 0, den |-> 1]

Score(chunk) ==
  LET v == Contribution(Vector, branches.weight, chunk)
      g == Contribution(Graph, Whole - branches.weight, chunk) IN
  [num |-> v.num * g.den + g.num * v.den, den |-> v.den * g.den]

Higher(s, t) == s.num * t.den > t.num * s.den

\* The key of the sort: the higher score, then the chunk.
Better(c, d) ==
  \/ Higher(Score(c), Score(d))
  \/ ~Higher(Score(d), Score(c)) /\ c < d

Ordered(chunks) ==
  [i \in 1 .. Cardinality(chunks) |->
    CHOOSE c \in chunks : Cardinality({d \in chunks : Better(d, c)}) = i - 1]

First(s, n) == SubSeq(s, 1, IF Len(s) < n THEN Len(s) ELSE n)

Candidates == ChunksOf(Vector) \cup ChunksOf(Graph)

\* Ranking that takes a branch that failed for one that found nothing.
RankingOfAll == Ordered(Candidates)

\* A branch that is alone keeps its order.
Ranking ==
  IF ~branches.vector.available THEN [i \in DOMAIN Graph |-> Graph[i].chunk]
  ELSE IF ~branches.graph.available THEN [i \in DOMAIN Vector |-> Vector[i].chunk]
  ELSE Ordered(Candidates)

\* _fused_hit: what is said of a chunk is the vector branch's, if that has it.
Primary(chunk) == IF chunk \in ChunksOf(Vector) THEN HitOf(Vector, chunk) ELSE HitOf(Graph, chunk)

Agree == Indexed(Vector) /\ Indexed(Graph) /\ Consistent

Fuse ==
  LET ranked == First(Ranking, branches.topK) IN
  /\ fused.at = "branches" /\ Agree
  /\ fused' = [at |-> "fused", hits |-> [i \in DOMAIN ranked |-> Primary(ranked[i])],
               duplicates |-> Cardinality(ChunksOf(Vector) \cap ChunksOf(Graph))]
  /\ UNCHANGED branches

\* CORPUS_INCONSISTENT.
Refuse ==
  /\ fused.at = "branches" /\ ~Agree
  /\ fused' = [fused EXCEPT !.at = "inconsistent"]
  /\ UNCHANGED branches

Answered == fused.at # "branches" /\ UNCHANGED vars

Next == Fuse \/ Refuse \/ Answered

Spec == Init /\ [][Next]_vars

----------------------------------------------------------------------------
\* In a list c comes before d, or alone.
Ahead(hits, c, d) ==
  \E i \in DOMAIN hits : hits[i].chunk = c /\ \A j \in DOMAIN hits : hits[j].chunk = d => i < j

\* The branches with an influence on the order: those with a weight, and one that is alone.
Counting ==
  LET alone == ~branches.vector.available \/ ~branches.graph.available IN
  {hits \in {Vector, Graph} :
     \/ alone
     \/ hits = Vector /\ branches.weight > 0
     \/ hits = Graph /\ branches.weight < Whole}

\* The fused list has no chunk twice and leaves none out that fits.  What is nowhere behind
\* in the branches, and ahead in one that counts, is ahead; when one branch is missing the
\* other one's order is kept, whatever its weight (ADR-015).
OrderKept ==
  /\ Indexed(fused.hits) /\ ChunksOf(fused.hits) \subseteq Candidates
  /\ Len(fused.hits) =
       IF Cardinality(Candidates) < branches.topK THEN Cardinality(Candidates) ELSE branches.topK
  /\ \A c \in Candidates, d \in ChunksOf(fused.hits) :
       (/\ \A hits \in {Vector, Graph} : ~Ahead(hits, d, c)
        /\ \E hits \in Counting : Ahead(hits, c, d)) => Ahead(fused.hits, c, d)

\* No branch says anything else of a chunk than the fused list.
EvidenceKept ==
  \A i \in DOMAIN fused.hits : \A hits \in {Vector, Graph} : \A j \in DOMAIN hits :
    hits[j].chunk = fused.hits[i].chunk => hits[j].text = fused.hits[i].text

\* The counts of the trace pass the validator of FusionTrace.
CountsFit ==
  /\ fused.duplicates <= Len(Vector) /\ fused.duplicates <= Len(Graph)
  /\ Len(fused.hits) <= Len(Vector) + Len(Graph) - fused.duplicates

FusionRespectsBranches == fused.at = "fused" => OrderKept /\ EvidenceKept /\ CountsFit
=============================================================================
