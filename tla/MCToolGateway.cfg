\* One call per verdict; the provider may approve, reject or raise; the same
\* call may come again, in one batch or in the next.
CONSTANTS
  c_read = c_read
  c_write = c_write
  c_external = c_external
  c_unknown = c_unknown
  CallIds <- MCCallIds
  RiskOf <- MCRiskOf
  Handled <- MCHandled
  Promoted <- MCPromoted
  Answers = {"approved", "rejected", "raises"}
  MaxBatch = 2
  MaxBatches = 3
SPECIFICATION ContactSpec
INVARIANTS
  EffectAuthorised
  RevisionGrounded
  ContactsHonest
PROPERTIES
  ImplementsEvolution
CHECK_DEADLOCK FALSE
