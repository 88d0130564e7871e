SPECIFICATION MCSpec
CONSTANTS
  Targets <- MCTargets
  Deltas <- MCDeltas
  Tunings <- MCTunings
  Drives <- MCDrives
  Loads <- MCLoads
  DutyAtRated = 888
  Scale = 100
  IntegralMin <- MCIntegralMin
  IntegralMax = 1200
  OutputMin <- MCOutputMin
  OutputMax = 1000
  Feedforward = 888
  Rated = 75
  MaxSpeed = 1000
  Inverted <- MCInverted
  Reach <- MCReach
  DeltaMax = 4
INVARIANTS
  PulsesCountOnce
  WindupBounded
PROPERTIES
  ReportSettles
  DriveSettles
  SpeedShownSettles
