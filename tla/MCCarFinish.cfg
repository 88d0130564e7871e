SPECIFICATION HistorySpec
CONSTANTS
  MaxMode = 4
  MaxLaps = 2
  MaxPresses = 1
  Q1Confirm = 1
  Confirm = 1
  ArmCycles = 1
  LostConfirm = 1
  RecoveryStop = 2
  SettleCycles = 0
  Delay = 1
  Samples = {"lost", "centre"}
PROPERTIES
  CompletionIsOneShot
