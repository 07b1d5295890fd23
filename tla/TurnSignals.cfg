CHECK_DEADLOCK FALSE
SPECIFICATION Spec
CONSTANTS
  MaxMessages = 2
  MaxSpawns = 2
  MaxOwn = 0
  MaxSignals = 1
  Watchdog = TRUE
  Crashes = TRUE
  EarlyEOF = TRUE
INVARIANT ReportedOnceRespawned
