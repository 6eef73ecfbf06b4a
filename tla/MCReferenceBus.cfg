\* Two laptops, one frame each, which the network may repeat.
CONSTANTS
  Nodes = {n1, n2}
  JITTER_FRAMES = 2
  SeqMax = 0
  RxCap = 1
  MaxHeard = 3
SPECIFICATION Spec
INVARIANT TypeOK
PROPERTIES
  ImplementsDelayLine
  LastFrameAfterStop
  StopEndsReceiver
CHECK_DEADLOCK FALSE
