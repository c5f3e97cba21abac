\* Evidence graphs, what-if exploration, and a model asked for steps and plans.
SPECIFICATION ReasoningSpec
CONSTANTS
  StepIds = {"s1", "s2"}
  StepTypes = {"conclusion"}
  Weights = {10}
  Confidences = {10, 50}
  MaxNodes = 3
  MaxEdges = 3
  Entities = {"e1"}
  Facts = {"fact"}
  HypothesisIds = {"h1", "h2"}
  Statements <- MCStatements
  Deltas <- MCDeltas
  MaxBranches = 2
  MaxDeltas = 1
  MaxChanges = 2
  ModelTasks <- MCModelTasks
  ModelPlans <- MCModelPlans
  ChainLimits = {0, 2}
  MaxConsultations = 2
INVARIANTS
  EdgesResolve
  CoverageCountsOnce
  ScenarioHonest
  ConflictsStay
  ConsultationsAccounted
PROPERTIES
  ContradictionNeverHelps
CHECK_DEADLOCK FALSE
