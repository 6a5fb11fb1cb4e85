SPECIFICATION RunSpec
CHECK_DEADLOCK FALSE
CONSTANTS
  NumKernels = 2
  InnerReps = 2
  BodyCycles <- MCBodyCycles
  CallCycles = 3
  MaxFaults = 0
INVARIANTS
  HeadlineIsMeanOfReps
