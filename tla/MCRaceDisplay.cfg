SPECIFICATION FairDisplaySpec
CONSTANTS
  MaxMode = 2
  MaxLaps = 2
  MaxPresses = 1
  Pages = 2
INVARIANTS
  NoChangeLost
  PanelNotTorn
PROPERTIES
  PanelSettles
