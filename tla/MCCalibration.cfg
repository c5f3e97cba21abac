\* Up to two cycles over what the engine recorded before and in between.
CONSTANTS
  Targets = {"self_update", "entity_update", "personalise"}
  Forbidden = {"personalise"}
  Providers = {"none", "answers", "raises", "gate"}
  Starts = {"default", "replayed"}
  Given <- MCGiven
  Histories <- MCHistories
  Entries <- MCEntries
  MaxWork = 1
  MaxGiven = 1
  MaxCycles = 2
SPECIFICATION CalibrationSpec
INVARIANTS
  CalibrationAuthorised
  CalibrationChain
  AppliedAsReplayed
PROPERTIES
  NoSelfBlame
CHECK_DEADLOCK FALSE
