\* Five messages from the server, three numbers.
CONSTANTS
  SEQ_LIMIT = 3
  MaxArrivals = 5
SPECIFICATION Spec
INVARIANTS
  TypeOK
  ReceiverEnds
  Numbered
  SessionClosed
PROPERTY InterruptEnds
CHECK_DEADLOCK FALSE
