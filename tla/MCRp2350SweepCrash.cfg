SPECIFICATION Spec
CONSTANTS
  NumKernels = 2
  Retries = 1
  MaxFaults = 2
INVARIANT
  RepetitionsForEveryRow
