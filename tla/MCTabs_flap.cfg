SPECIFICATION Spec
CONSTANTS
  w1 = w1
  w2 = w2
  t1 = t1
  t2 = t2
  t3 = t3
  t4 = t4
  Users = {"ann"}
  SerialUsers = {}
  TabIds = {t1, t2}
  Endpoints = {"e1", "e2"}
  DefaultMembers = {}
  Fallback = {}
  Workers = {w1}
  Work = {"create", "patch", "kv", "probe"}
  MaxTabs = 1
  Threshold = 2
  NoRow = NoRow
  KeepEndpoint = KeepEndpoint
PROPERTY ErrorNeedsThreshold
