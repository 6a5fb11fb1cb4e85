SPECIFICATION Spec
CONSTANTS
  NumKernels = 3
  InnerReps = 2
  BodyCycles <- MCBodyCycles
  CallCycles = 3
  MaxFaults = 2
  Jobs = 2
  Leftover <- MCLeftover
INVARIANTS
  TypeOK
  RecordedAsMeasured
  SamplesFollowSummary
  EndAccountsForAll
  NoSimulatorLeftBehind
PROPERTIES
  EventuallyRecorded
  ImplementsSweep
