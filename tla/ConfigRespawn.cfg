CHECK_DEADLOCK FALSE
SPECIFICATION Spec
CONSTANTS
  Model = {m1, m2}
  Effort = {e1}
  Settings = {"hook"}
  Mode = {"ask"}
  StartFlags <- GateFlags
  Dir = {d1, d2}
  Conv = {c1, c2}
  Job = {j1, j2}
  MaxSpawns = 2
  MaxStarts = 2
  MaxRequests = 2
  Dies = TRUE
  None = None
SYMMETRY Symmetry
INVARIANT TypeOK
INVARIANT GateSurvives
INVARIANT FindsConversation
INVARIANT EffortReported
PROPERTY ModelSurvives
