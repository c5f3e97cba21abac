\* Requests against a service that may act without answering, and webhooks.
SPECIFICATION ExternalSpec
CONSTANTS
  Hosts = {"api", "elsewhere"}
  AllowedDomains = {"api"}
  MaxCalls = 1
  Window = 2
  MaxRetries = 2
  Hooks <- MCHooks
  EventTypes <- MCEventTypes
  MaxRequests = 3
  MaxDispatches = 1
  MaxTime = 2
INVARIANTS
  RateKept
  EffectsAccounted
  DispatchesAccounted
CHECK_DEADLOCK FALSE
