CHECK_DEADLOCK FALSE
SPECIFICATION FairSpec
CONSTANTS
  Text = {t1, t2}
  MaxLate = 1
  MaxSpoken = 3
  MaxTurns = 3
INVARIANT TypeOK
INVARIANT SaidOnceShownOnce
INVARIANT NothingLost
PROPERTY WedgedTurnSurfaces
