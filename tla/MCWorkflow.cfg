\* Two runs over one log, every answer of tools and models.
CONSTANTS
  Expressions <- MCExpressions
  Workflows <- MCWorkflows
  Initials <- MCInitials
  Runners <- MCRunners
  Risk <- MCRisk
  Handlers <- MCHandlers
  Results <- MCResults
  Choices = {"propose_plan", "stop"}
  Oversized <- MCOversized
  Truncated <- MCTruncated
  MaxRuns = 2
SPECIFICATION WorkflowSpec
INVARIANTS
  BranchesReproducible
  ToolRunsAuthorised
  HonestOutcome
PROPERTIES
  RunReturns
CHECK_DEADLOCK FALSE
