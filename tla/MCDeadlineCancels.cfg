SPECIFICATION MCSpec
CONSTANTS
  Searches = {s1, s2}
  Tasks = {t1, t2, t3, t4}
  MaxAbandoned = 1
  PoolSize = 1
  Received = {r1, r2, r3}
  QueueCapacity = 2
  Stores <- SomeStores
  Questions <- SomeQuestions
  MaxPaths = 3
  MaxVisited = 3
  MaxRows = 5
  MaxChunks = 2
  TopK = 3
  Hits <- SomeHits
  BranchAnswers <- SomeAnswers
  Weights = {0, 5, 10}
  Whole = 10
  TopKs = {2, 3}
  Corpora = {c1, c2}
  NoCorpus = none
SYMMETRY Symmetry
INVARIANTS
  DeadlineDetaches
