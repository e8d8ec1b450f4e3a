CONSTANTS
  Supported <- MCBoards
  Patience = 3
SPECIFICATION MCSpec
INVARIANTS LineUp NothingStray DockTypeOK DockedInTime CommandWhole
PROPERTIES MovesOff DockEnds BmcEnds
CHECK_DEADLOCK FALSE
