\* Clicks at any moment.
CONSTANTS
  MaxBridges = 3
  MaxLeaves = 3
  MaxPolls = 3
  MaxReloads = 2
SPECIFICATION Spec
INVARIANTS
  TypeOK
  PageAgrees
  ShownIsCurrent
  NoOrphan
PROPERTIES
  LeavingEndsThreads
  ClicksTakeEffect
CHECK_DEADLOCK FALSE
