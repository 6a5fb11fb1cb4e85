SPECIFICATION Spec
CONSTANTS
  Reps = 3
  MaxRuns = 2
INVARIANTS
  TypeOK
  ReturnsEveryRepetition
  OneRunOnly
  EarlierCountsAreExact
PROPERTY
  CaptureEnds
