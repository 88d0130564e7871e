SPECIFICATION FairSpec
CONSTANTS
  MaxMode = 3
  MaxLaps = 2
  MaxPresses = 2
INVARIANTS
  LapsMatchMode
PROPERTIES
  RunStartsAtLapZero
  PressServed
