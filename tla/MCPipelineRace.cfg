\* May any thread call reset and push_reference?
CONSTANTS
  FRAME_SIZE_MS = 10
  PLC_FEC_MAX_MS = 20
  PLC_AI_MAX_MS = 30
  HISTORY_FRAMES = 2
  Builds = {"lpc", "lpcnet", "gpu"}
  Concurrent = TRUE
  MaxCalls = 2
SPECIFICATION Spec
INVARIANT DataRaceFree
CHECK_DEADLOCK FALSE
