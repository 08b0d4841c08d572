SPECIFICATION Spec
CONSTANTS
  None = None
  Garbage = Garbage
  DmaAddress = DmaAddress
  Names = {pwm}
  pwm = pwm
  Ids <- MCIds
  Values <- MCValues
  Levels <- MCLevels
  RateModulus = 100
  DescriptorLimit = 4
INVARIANTS
  TypeOK
  ReportedRateIsAccepted
  LoadedIsReceived
  NextClientIsAccepted
PROPERTIES
  StarvedBySettingsOnly
CHECK_DEADLOCK FALSE
