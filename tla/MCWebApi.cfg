\* Two tasks, two subscribers, two commitments, and one write cut off or stop.
CONSTANTS
  Clients = {"a", "b"}
  Runs <- MCRuns
  MaxCommitments = 2
  MaxFaults = 1
SPECIFICATION WebSpec
INVARIANTS
  WriteAhead
  LogsWhole
  DeliveredInOrder
CHECK_DEADLOCK FALSE
