SPECIFICATION MCSpec
CONSTANTS
  SensorCount = 7
  MaxWidth = 3
  ActiveLow = FALSE
  QuietStart = TRUE
  Samples <- MCSamples
  Mismatches <- MCMismatches
  LineRpms <- MCLineRpms
  CruiseRpms <- MCCruiseRpms
  SearchRpms <- MCSearchRpms
  PulsesPerRev = 6000
  PeriodMs = 10
  RatedRpm = 12
  RecoveryRpm = 4
  PivotRpms <- MCPivotRpms
  TransitionRpm = 5
  DefaultSpeed = 8
  FilterDiv = 3
  Deadband = 2
  GainP = 1
  GainD = 0
  GainScale = 1
  TurnSlew = 2
  ReductionDiv = 1
  MaxTurn = 100
  SyncGain = 1
  SyncScale = 1
  SyncMax = 2
  Trim = 1
  WheelSlew = 2
  Rated = 12
INVARIANTS
  LineLoopIsBounded
  
  LineIsShown
PROPERTIES
  SteersTowardsLine
