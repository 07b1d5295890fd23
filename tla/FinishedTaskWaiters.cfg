CHECK_DEADLOCK FALSE
SPECIFICATION FairSpec
CONSTANTS
  Job = {j1, j2}
  Cmd = {c1}
  MaxOut = 5
INVARIANT TypeOK
INVARIANT OnlyWatchersStopped
INVARIANT CaughtUp
INVARIANT TasksSettle
PROPERTY WatcherFreed
