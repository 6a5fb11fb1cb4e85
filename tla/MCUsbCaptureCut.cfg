SPECIFICATION Spec
CONSTANTS
  Reps = 3
  MaxRuns = 2
INVARIANT
  EveryCountIsExact
