SPECIFICATION Spec
CONSTANTS
  Session = {s1, s2}
  UUID = {u1, u2}
  Slot = {k1}
  MaxRows = 2
  SqlError = FALSE
  NoId = NoId
  NoRow = NoRow
SYMMETRY Symmetry
INVARIANT ForkIsRecorded
