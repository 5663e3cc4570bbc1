----------------------------- MODULE Retrieval -----------------------------
(***************************************************************************)
(* The graph search (retrieval/graph.py, Neo4jGraphBackend.search): a walk *)
(* from the seeds that loads one depth after another within fixed limits,  *)
(* the chunks it reaches, and their ranking.                               *)
(*                                                                         *)
(* Entities and chunks are numbers, in the order of their ids.  A relation *)
(* is what a chunk says of two entities, with a confidence in tenths: the  *)
(* predicate and the rule of its key are left out.  A path has one to      *)
(* three relations.  What is sorted is sorted by a key.                    *)
(***************************************************************************)
EXTENDS Integers, Sequences, FiniteSets, Functions

CONSTANTS
  Stores,          \* the relations a corpus may hold: a set of sets
  Questions,       \* what is asked: seeds and depth
  MaxPaths,        \* MAX_PATHS_PER_SEED
  MaxVisited,      \* MAX_VISITED_ENTITIES
  MaxRows,         \* MAX_EDGE_ROWS_PER_DEPTH
  MaxChunks,       \* MAX_RECOVERED_CHUNKS
  TopK             \* results of the request

VARIABLES
  stored,       \* the corpus
  asked,        \* seeds and depth
  walk,         \* traverse_bounded between two loads
  answer        \* the ranked chunks

vars == <<stored, asked, walk, answer>>

----------------------------------------------------------------------------
\* Sequences of numbers as tuples are compared.
Less(s, t) ==
  \E n \in DOMAIN t :
    /\ \A i \in 1 .. n - 1 : i \in DOMAIN s /\ s[i] = t[i]
    /\ n \in DOMAIN s => s[n] < t[n]

\* The elements of a set by their keys, the least first.
Sorted(S, key) ==
  [i \in 1 .. Cardinality(S) |->
    CHOOSE x \in S : Cardinality({y \in S : Less(key[y], key[x])}) = i - 1]

First(s, n) == SubSeq(s, 1, IF Len(s) < n THEN Len(s) ELSE n)

\* _relation_key.
Key(relation) == <<relation.from, relation.to, relation.chunk>>

\* _edge_priority: the higher confidence, then the key.
EdgePriority(relation) ==
  <<-relation.confidence, relation.from, relation.to, relation.chunk>>
ByConfidence(relations) == Sorted(relations, [e \in relations |-> EdgePriority(e)])

\* other_endpoint.
Other(relation, entity) ==
  IF relation.from = entity THEN relation.to ELSE relation.from

Hops(path) == Len(path.relations)
Tip(path) == path.entities[Len(path.entities)]
ConfidenceAt(path, i) == IF i <= Hops(path) THEN path.relations[i].confidence ELSE 0
KeyAt(path, i) == IF i <= Hops(path) THEN Key(path.relations[i]) ELSE <<>>

Confidence(path) == ConfidenceAt(path, 1) + ConfidenceAt(path, 2) + ConfidenceAt(path, 3)

\* _path_priority: the mean confidence, in sixtieths, fewer hops, and the ids.
PathPriority(path) ==
  <<-((6 * Confidence(path)) \div Hops(path)), Hops(path)>>
    \o path.entities \o KeyAt(path, 1) \o KeyAt(path, 2) \o KeyAt(path, 3)
ByPriority(paths) == Sorted(paths, [p \in paths |-> PathPriority(p)])

----------------------------------------------------------------------------
(* traverse_bounded.                                                        *)

Seeds == {asked.seeds[i] : i \in DOMAIN asked.seeds}

Init ==
  /\ stored \in Stores /\ asked \in Questions
  /\ walk = [depth |-> 0, going |-> Len(asked.seeds) > 0, visited |-> Seeds,
             frontier |-> [s \in Seeds |-> <<[entities |-> <<s>>, relations |-> <<>>]>>],
             retained |-> [s \in Seeds |-> {}], pathLimit |-> FALSE, visitedLimit |-> FALSE]
  /\ answer = [at |-> "walk", hits |-> <<>>]

Tips(frontier) == UNION {{Tip(frontier[s][i]) : i \in DOMAIN frontier[s]} : s \in Seeds}

\* _READ_ADJACENT_RELATIONS: a row for each tip a relation is adjacent to.  Which of the
\* two rows of a relation comes first is not determined there, and tells nothing.
Rows(tips) ==
  LET rows == {row \in tips \X stored : row[1] \in {row[2].from, row[2].to}} IN
  Sorted(rows, [row \in rows |-> Append(EdgePriority(row[2]), row[1])])

\* _adjacency of the rows that load_edges keeps.
Adjacent(rows, tip) ==
  ByConfidence({e \in {rows[i][2] : i \in DOMAIN rows} : tip \in {e.from, e.to}})

\* Every step from a path of the frontier, in the order of the three loops.
Tries(frontier, rows) ==
  LET paths(i) == frontier[asked.seeds[i]]
      edges(i, j) == Adjacent(rows, Tip(paths(i)[j]))
      turns == UNION {UNION {{<<i, j, k>> : k \in DOMAIN edges(i, j)} :
                               j \in DOMAIN paths(i)} : i \in DOMAIN asked.seeds}
      order == Sorted(turns, [turn \in turns |-> turn]) IN
  [n \in DOMAIN order |->
    LET i == order[n][1]  j == order[n][2]  k == order[n][3] IN
    [seed |-> asked.seeds[i], path |-> paths(i)[j], edge |-> edges(i, j)[k]]]

\* The body of the innermost loop.
Tried(state, try) ==
  LET next == Other(try.edge, Tip(try.path)) IN
  IF next \in Range(try.path.entities) THEN state
  ELSE IF next \notin state.visited /\ Cardinality(state.visited) >= MaxVisited
  THEN [state EXCEPT !.limit = TRUE]
  ELSE [state EXCEPT !.visited = @ \cup {next},
          !.found[try.seed] = @ \cup {[entities |-> Append(try.path.entities, next),
                                       relations |-> Append(try.path.relations, try.edge)]}]

\* What is found when all have been tried.
Found(tries) ==
  LET state[n \in 0 .. Len(tries)] ==
        IF n = 0 THEN [visited |-> walk.visited, limit |-> FALSE, found |-> [s \in Seeds |-> {}]]
        ELSE Tried(state[n - 1], tries[n])
  IN state[Len(tries)]

\* What one depth makes of a walk.
Continued(walked, result) ==
  LET best(s) == First(ByPriority(result.found[s]), MaxPaths)
      kept(s) == walked.retained[s] \cup Range(best(s)) IN
  [depth |-> IF \E s \in Seeds : result.found[s] # {} THEN walked.depth + 1 ELSE walked.depth,
   going |-> /\ \E s \in Seeds : result.found[s] # {}
             /\ walked.depth + 1 < asked.depth,
   visited |-> result.visited,
   frontier |-> [s \in Seeds |-> best(s)],
   retained |-> [s \in Seeds |-> Range(First(ByPriority(kept(s)), MaxPaths))],
   pathLimit |-> \E s \in Seeds : Cardinality(result.found[s]) > MaxPaths \/ Cardinality(kept(s)) > MaxPaths,
   visitedLimit |-> result.limit]

\* Deepened that tells only what the last depth has cut.
DeepenedForgetful(walked, result, truncated) ==
  [Continued(walked, result) EXCEPT !.pathLimit = (@ \/ truncated)]

\* With the limits met so far, the one of the rows included.
Deepened(walked, result, truncated) ==
  [Continued(walked, result) EXCEPT !.pathLimit = (@ \/ truncated \/ walked.pathLimit),
                                    !.visitedLimit = (@ \/ walked.visitedLimit)]

\* One depth: its adjacency is loaded, and the paths are continued.
Deepen ==
  LET all == Rows(Tips(walk.frontier))
      rows == First(all, MaxRows - 1) IN
  /\ answer.at = "walk" /\ walk.going
  /\ walk' = Deepened(walk, Found(Tries(walk.frontier, rows)), Len(all) >= MaxRows)
  /\ UNCHANGED <<stored, asked, answer>>

----------------------------------------------------------------------------
(* Recovery and ranking.                                                    *)

Paths == UNION {walk.retained[s] : s \in Seeds}
Reached(path) == {path.entities[i] : i \in 2 .. Len(path.entities)}

\* _RECOVER_CHUNKS: what a chunk mentions of the entities that were reached.
Mentioned(chunk) ==
  {x \in UNION {Reached(p) : p \in Paths} : \E e \in stored : e.chunk = chunk /\ x \in {e.from, e.to}}
Recovered ==
  LET chunks == {c \in {e.chunk : e \in stored} : Mentioned(c) # {}} IN
  Range(First(Sorted(chunks, [c \in chunks |-> <<c>>]), MaxChunks))

Relevant(chunk) == {p \in Paths : Reached(p) \cap Mentioned(chunk) # {}}

\* graph_score_v0, in 3600ths: 0.45 seeds, 0.35 / hops, 0.20 mean confidence.
Score(chunk) ==
  LET contributing == {p.entities[1] : p \in Relevant(chunk)}
      score(p) == (1620 * Cardinality(contributing)) \div Cardinality(Seeds)
                    + (1260 + 72 * Confidence(p)) \div Hops(p)
      scores == {score(p) : p \in Relevant(chunk)} IN
  CHOOSE n \in scores : \A m \in scores : m <= n

Ranked ==
  First(Sorted(Recovered, [c \in Recovered |-> <<-Score(c), c>>]), TopK)

\* The end of the graph branch.
Rank ==
  /\ answer.at = "walk" /\ ~walk.going
  /\ answer' = [at |-> "ranked", hits |-> Ranked]
  /\ UNCHANGED <<stored, asked, walk>>

Answered == answer.at = "ranked" /\ UNCHANGED vars

Next == Deepen \/ Rank \/ Answered

Spec == Init /\ [][Next]_vars

----------------------------------------------------------------------------
\* The paths there are, by definition: relations in a row, no entity twice.
Entities == Seeds \cup UNION {{e.from, e.to} : e \in stored}
Routes(seed, hops) == {route \in [1 .. hops + 1 -> Entities] : route[1] = seed /\ IsInjective(route)}

Joined(path) ==
  \A i \in DOMAIN path.relations :
    {path.entities[i], path.entities[i + 1]} = {path.relations[i].from, path.relations[i].to}

PathsFrom(seed) ==
  UNION {{p \in [entities : Routes(seed, n), relations : [1 .. n -> stored]] : Joined(p)} :
           n \in 1 .. asked.depth}

\* A walk keeps nothing but paths of the corpus, no more than its limits allow; and
\* one that reports no limit has kept them all (traverse_bounded and its outcome).
TraversalHonest ==
  /\ \A s \in Seeds : walk.retained[s] \subseteq PathsFrom(s) /\ Cardinality(walk.retained[s]) <= MaxPaths
  /\ Cardinality(walk.visited) <= MaxVisited \/ walk.visited = Seeds
  /\ UNION {Reached(p) : p \in Paths} \subseteq walk.visited
  /\ ~walk.going /\ ~walk.pathLimit /\ ~walk.visitedLimit =>
       \A s \in Seeds : walk.retained[s] = PathsFrom(s)

\* The answer holds the best of the chunks that were reached, each once and the best
\* first (rank_graph_chunks).
RankedHonest ==
  answer.at = "ranked" =>
    LET hits == answer.hits
        n == Cardinality(Recovered) IN
    /\ IsInjective(hits) /\ Range(hits) \subseteq Recovered
    /\ Len(hits) = IF n < TopK THEN n ELSE TopK
    /\ \A i \in DOMAIN hits, c \in Recovered :
         Score(c) > Score(hits[i]) => \E j \in DOMAIN hits : j < i /\ hits[j] = c
=============================================================================
