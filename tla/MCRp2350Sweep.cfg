SPECIFICATION Spec
CONSTANTS
  NumKernels = 2
  Retries = 1
  MaxFaults = 2
INVARIANTS
  TypeOK
  RepetitionsAreSummarised
  OneRowPerKernel
  RecordedKernelsKeepTheirLog
  FailureIsExplained
  ManifestMatchesSummary
PROPERTIES
  StopsWhenDisconnected
  EventuallyRecorded
  ImplementsSweep
