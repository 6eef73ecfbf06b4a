\* Mirrored chain keys: the sessions can talk to each other.
CONSTANTS
  MaxPlaintext = 3
  Alice = Alice
  Bob = Bob
  Payloads <- MCPayloads
  FromX3DH = FALSE
  MaxFrames = 4
  MaxCalls = 4
SPECIFICATION Spec
INVARIANTS
  TypeOK
  OpenedText
  Lockstep
PROPERTIES
  ImplementsChannel
CHECK_DEADLOCK FALSE
