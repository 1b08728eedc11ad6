SPECIFICATION Spec
CONSTANTS
  Members = {"m1", "m2"}
  Clusters = {{"m2"}, {"m1", "m2"}}
  Reactions = {"ok", "refused", "down"}
  Fails = {"Store"}
  Local = "m1"
  Fallback = "default"
  MaxCount = 0
  MaxGap = 1
  MaxRestarts = 1
  None = None
INVARIANTS TypeOK LatestIsStored
PROPERTY RowsAreNew
