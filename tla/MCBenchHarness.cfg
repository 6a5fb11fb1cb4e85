SPECIFICATION Spec
CONSTANTS
  InnerReps = 3
  CounterModulus = 8
  CallCycles = 2
  WarmCycles <- MCWarm
  FillCycles <- MCFill
  ColdCycles <- MCCold
  IrqCycles <- MCIrq
  Scratch <- MCScratch
INVARIANTS
  TypeOK
  SlotsHoldTrueCost
  OnlyFirstMayFill
  ReportIsFaithful
PROPERTIES
  EveryRunReports
  ImplementsMeasurement
