\* Domain and plain plans share one log; all gates.
CONSTANTS
  Plans <- MCPlans
  Packs <- MCPacks
  Entries = {"domain", "plain"}
  Gates = {"none", "linked", "unlinked"}
  MaxPlans = 2
SPECIFICATION PlanSpec
INVARIANTS
  RevisionAuthorised
  ContinuesFromReplay
  DecisionsComplete
PROPERTIES
  PlanEnds
CHECK_DEADLOCK FALSE
