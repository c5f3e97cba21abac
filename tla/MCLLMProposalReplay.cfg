\* Proposals about one hypothesis, with and without a confidence.
CONSTANTS
  Proposals <- MCDescriptions
  Providers = {"answers"}
  Starts = {"replayed"}
  MaxProposals = 2
SPECIFICATION ProposalSpec
INVARIANTS
  ReplaySucceeds
CHECK_DEADLOCK FALSE
