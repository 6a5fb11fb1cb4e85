SPECIFICATION Spec
CONSTANTS
  Reps = 2
  Rept = 3
  MissCost = 2
  ClashCost = 1
  Wrap = 37
INVARIANTS
  EachCountIsOfItsEffect
  SavedIsTheRun
CONSTRAINT
  ReadsBetween
