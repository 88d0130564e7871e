SPECIFICATION MCSpec
CONSTANTS
  Faults = 3
  Overrun = 1
  HintHold = 2
  EntryDistance = 3
  MinTurn = 2
  Reacquire = 2
  Timeout = 6
  MaxRoll = 2
INVARIANTS
  TransferIsSafe
PROPERTIES
  FramesKeepOn
  CornersAreTaken
  CornersEnd
