\* Does a running bus keep its receiver?
CONSTANTS
  Nodes = {n1, n2}
  JITTER_FRAMES = 2
  SeqMax = 1
  RxCap = 2
  MaxHeard = 3
SPECIFICATION Spec
INVARIANT ReceiverSurvives
CHECK_DEADLOCK FALSE
