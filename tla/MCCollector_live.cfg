SPECIFICATION FairSpec
CONSTANTS
  Members = {"m1", "m2"}
  Clusters = {{"m2"}, {"m1", "m2"}}
  Reactions = {"ok", "down"}
  Fails = {"MemberList"}
  Local = "m1"
  Fallback = "default"
  MaxCount = 0
  MaxGap = 1
  MaxRestarts = 0
  None = None
PROPERTIES ListFollows ShownUp ShownDown
