SPECIFICATION FairSpec
CONSTANTS
  Session = {s1}
  UUID = {u1, u2}
  Walker = {w1}
  MaxKills = 1
  NoId = NoId
  NoRow = NoRow
INVARIANT TypeOK
INVARIANT Numbered
PROPERTY WalkComplete
PROPERTY NeverRewinds
PROPERTY EventuallyImported
