SPECIFICATION FairSpec
CONSTANTS
  Rated = 1
  SlewStep = 1
  Full = 2
  Inputs <- MCInputs
INVARIANTS
  TypeOK
  NoDriveAfterStop
  BrakeHeld
  LatchOnlyAtStandstill
  SnapshotShowsStop
PROPERTIES
  BlankedSwitching
  SupervisorSpec
  StopReached
