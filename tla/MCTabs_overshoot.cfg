SPECIFICATION Spec
CONSTANTS
  w1 = w1
  w2 = w2
  t1 = t1
  t2 = t2
  t3 = t3
  t4 = t4
  Users = {"ann", "bob"}
  SerialUsers = {"bob"}
  TabIds = {t1, t2}
  Endpoints = {"e1"}
  DefaultMembers = {}
  Fallback = {}
  Workers = {w1, w2}
  Work = {"create", "delete"}
  MaxTabs = 1
  Threshold = 2
  NoRow = NoRow
  KeepEndpoint = KeepEndpoint
SYMMETRY MCSymmetry
INVARIANT LimitKept
