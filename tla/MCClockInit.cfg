SPECIFICATION Spec
CONSTANTS
  HoldCycles = 3
  MaxRestarts = 2
INVARIANTS
  ClockIsSafe
  BenchFindsBuild
PROPERTIES
  RisesThroughHalfSpeed
  BenchIsReached
