SPECIFICATION Spec
CONSTANTS
  Session = {s1}
  UUID = {u1}
  Slot = {k1, k2}
  MaxRows = 3
  SqlError = TRUE
  NoId = NoId
  NoRow = NoRow
SYMMETRY Symmetry
INVARIANT TypeOK
INVARIANT ClaimedOnce
PROPERTY RotationLog
