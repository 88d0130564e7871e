SPECIFICATION AloneSpec
CONSTANTS
  Q1Confirm = 2
  Confirm = 2
  ArmCycles = 3
  LostConfirm = 2
  RecoveryStop = 3
  SettleCycles = 1
  Delay = 1
  Laps = 2
  Samples = {"lost", "full", "edge", "centre"}
INVARIANTS
  StandsWhenNotRunning
PROPERTIES
  EndpointArmed
  LineReleasesBrake
  CourseIsKept
