SPECIFICATION MCSpec
CONSTANTS
  Usual <- MCUsual
  Low = 8
  High = 119
  Panels = {0, 60, 61, 8, 119}
  Messages <- MCMessages
  MidByte = TRUE
  Columns = 2
  Pages = 2
  Bits = 2
  Xs <- MCXs
  Ys <- MCYs
  Pictures <- MCPictures
INVARIANTS
  PanelIsReached
PROPERTIES
  CanvasSpec
