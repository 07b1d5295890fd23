CHECK_DEADLOCK FALSE
SPECIFICATION Spec
CONSTANTS
  MaxProcs = 2
  MaxTurns = 3
  MaxCalls = 3
  MaxPrice = 2
INVARIANT TypeOK
INVARIANT NeverOvercharged
INVARIANT OneProcessExact
INVARIANT CallsAreTheTurns
