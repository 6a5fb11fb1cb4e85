SPECIFICATION Spec
CONSTANTS
  Configs <- MCConfigs
  Selections <- MCSelections
  MaxRuns = 2
INVARIANTS
  LogsAreAsNamed
  DoneMeansMeasured
CHECK_DEADLOCK FALSE
