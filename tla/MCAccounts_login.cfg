SPECIFICATION Spec
CONSTANTS
  w1 = w1
  w2 = w2
  w3 = w3
  r1 = r1
  r2 = r2
  c1 = c1
  c2 = c2
  Random = {r1, r2}
  Chosen = {c1, c2}
  Workers = {w1, w2, w3}
  Threshold = 2
  MaxFailed = 9
  MaxKills = 1
  MaxDropped = 1
  NoUser = NoUser
  NoFile = NoFile
  Unreadable = Unreadable
SYMMETRY MCSymmetry
INVARIANTS TypeOK PasswordKnown InitialOpensNothing FileGone AttemptsBounded
PROPERTY KnownStays
