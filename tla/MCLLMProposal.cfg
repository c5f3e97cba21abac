\* Two proposals over one log, every answer of a provider.
CONSTANTS
  Proposals <- MCProposals
  Providers = {"none", "answers", "raises"}
  Starts = {"default", "replayed"}
  MaxProposals = 2
SPECIFICATION ProposalSpec
INVARIANTS
  ProposalsSettled
  StateChain
PROPERTIES
  KnowledgeKept
CHECK_DEADLOCK FALSE
