SPECIFICATION MCSpec
CONSTANTS
  Debounce = 8
  LongPress = 12
  MaxGap = 3
  KeyMs = 4
  PointMs = 6
  FinishMs = 9
  LockMs = 14
  Period = 2
INVARIANTS
  EventsTellState
  PromptsKeepTime
PROPERTIES
  ChangesAreSteady
  KeyIsNoticed
  FallsSilent
