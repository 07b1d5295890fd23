SPECIFICATION Spec
CONSTANTS
  Session = {s1}
  UUID = {u1, u2}
  Walker = {w1}
  MaxKills = 0
  NoId = NoId
  NoRow = NoRow
INVARIANT SpawnedIsBridges
