\* Clicks at any moment: does Join twice leave a thread behind?
CONSTANTS
  MaxBridges = 2
  MaxLeaves = 1
  MaxPolls = 2
  MaxReloads = 0
SPECIFICATION Spec
INVARIANT LifecycleManaged
CHECK_DEADLOCK FALSE
