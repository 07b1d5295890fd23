SPECIFICATION FairSpec
CONSTANTS
  Entry = {"user", "tool_use", "end_turn"}
  MaxLines = 2
  MaxLost = 1
INVARIANT TypeOK
INVARIANT FollowsTranscript
INVARIANT TurnsClose
PROPERTY EventuallyPosted
CHECK_DEADLOCK FALSE
