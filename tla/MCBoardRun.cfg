SPECIFICATION Spec
CONSTANTS
  NumPresets = 2
  InnerReps = 2
  Versions = {1, 2, 3}
  Oversize = {2}
  MaxSweeps = 2
INVARIANTS
  TypeOK
  RowsAreOfThisSweep
  HeadlineIsAPrefix
