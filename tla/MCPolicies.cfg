SPECIFICATION MCSpec
CONSTANTS
  Calls = {c1, c2, c3, c4, c5}
  Threshold = 5
  OpenTicks = 3
  Catalog <- CatalogOfPlans
  Profile <- ProfileOfPlans
  LowBudget = 1000
  Surcharge = 10
  GraphTier = TRUE
  Shares <- SharesOfChunks
  Observed <- ObservedCircuits
  Margins = {1, 300, 1000, 1001, 1400, 2100, 3600, 5999, 6000, 7600}
  Runs <- RunsOfTrainer
  Guarded = {g1, g2}
  Window = 6
  Minimum = 3
  Violation = 10
  Underprediction = 20
  Searches <- SearchesOfRun
  Predictions <- PredictionsOfRun
  Moments = {100, 600, 4100, 5000}
  Processes = {1, 2}
  Protocols = {"p", "q"}
  Environments = {"e", "f"}
  Times = {1, 2}
  Trials = 3
INVARIANTS
  SingleProbe
  CountMatchesState
  SearchAnswersAreValid
  SearchGraphAllowed
  PlansUseTime
  CostBundleHolds
  GuardEvidence
  BenchmarkEvidence
PROPERTIES
  WindowUndisturbed
  NeverWedged
  KeepsContract
