\* Both sessions bootstrapped by from_x3dh on one secret.
CONSTANTS
  MaxPlaintext = 3
  Alice = Alice
  Bob = Bob
  Payloads <- MCOnePayload
  FromX3DH = TRUE
  MaxFrames = 2
  MaxCalls = 2
SPECIFICATION Spec
INVARIANT DecryptReturnsOriginal
CHECK_DEADLOCK FALSE
