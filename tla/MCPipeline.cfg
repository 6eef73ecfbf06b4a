\* Every build, one thread as the owner, another that reads the statistics.
CONSTANTS
  FRAME_SIZE_MS = 10
  PLC_FEC_MAX_MS = 20
  PLC_AI_MAX_MS = 30
  HISTORY_FRAMES = 2
  Builds = {"lpc", "lpcnet", "gpu"}
  Concurrent = FALSE
  MaxCalls = 5
SPECIFICATION Spec
INVARIANTS
  TypeOK
  SnapshotCoherent
  BurstCounted
  FadeEndsBurst
  LpcnetByBurst
  HistoryIsRecentGood
  StatsOfLastCall
CHECK_DEADLOCK FALSE
