CHECK_DEADLOCK FALSE
SPECIFICATION FairSpec
CONSTANTS
  MaxMessages = 2
  MaxSpawns = 2
  MaxOwn = 1
  MaxSignals = 0
  Watchdog = TRUE
  Crashes = TRUE
  EarlyEOF = FALSE
INVARIANT TypeOK
INVARIANT OneClaude
INVARIANT ClosedOnce
INVARIANT OneReleasePerEnd
PROPERTY AwaitEnds
 
