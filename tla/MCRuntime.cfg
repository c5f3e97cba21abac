\* Two runs over one log, all ways through the runtime.
CONSTANTS
  Plans <- MCPlans
  Packs = {}
  Entries = {"domain", "plain"}
  Gates = {}
  MaxPlans = 2
  Setups <- MCSetups
  LLMTasks <- MCLLMTasks
  GatewayRisk = "write"
  GatewayHandled = TRUE
  GatewayAnswers = {"approved", "rejected", "raises"}
  MaxRuns = 2
SPECIFICATION RuntimeSpec
INVARIANTS
  ActionsFollowDeliberation
  RevisionsJustified
  ChainWhereThreaded
  CompilerSettled
CHECK_DEADLOCK FALSE
